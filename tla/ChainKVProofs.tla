----------------------------- MODULE ChainKVProofs -----------------------------
(***************************************************************************)
(* Theorems about the whole system: its two halves agree on the processes  *)
(* that run, seen from the clients it behaves as module KVServer says, and *)
(* the child of /chain that a client takes when it looks is never that of  *)
(* a process whose successor was registered, for any number of servers,    *)
(* restarts and sessions.                                                  *)
(***************************************************************************)
EXTENDS ChainKV, FiniteSetTheorems, TLAPS

-----------------------------------------------------------------------------
(* The invariant.  What the clients' half relies on is that no server that *)
(* serves is the tail; and that holds because main has stored the flag     *)
(* before it binds the port.                                               *)

Typed ==
  /\ pc \in [Server -> M!MainPc] /\ up \in [Server -> BOOLEAN]
  /\ is_tail \in [Server -> {0, 1, GARBAGE}]
  /\ srv \in [Client -> Server \cup {NONE}]
  /\ link \in [Client -> KV!LinkState]
  /\ h = [c \in Client |-> h[c]]

NoTail == \A s \in Server : pc[s] \in {"bind", "serving"} => is_tail[s] = 0

Served(c) == link[c] = "open" \/ h[c].pc # "none"
               => srv[c] \in Server /\ pc[srv[c]] = "serving"

ChainInv ==
  /\ Typed /\ NoTail
  /\ \A s \in Server : up[s] <=> pc[s] = "serving"
  /\ \A c \in Client : Served(c)

LEMMA InitChainInv == Init => ChainInv
BY ChainAssumption DEF Init, M!Init, KV!Init, ChainInv, Typed, NoTail, Served, M!MainPc,
       KV!LinkState, KV!NoThread, KV!Outside

(* The process of s ends in both halves. *)
LEMMA EndChainInv ==
  ASSUME ChainInv, NEW s \in Server, M!EndProcess(s), KV!Die(s)
  PROVE  ChainInv'
<1>1. /\ pc' = [pc EXCEPT ![s] = "off"] /\ up' = [up EXCEPT ![s] = FALSE]
      /\ is_tail' = [is_tail EXCEPT ![s] = GARBAGE] /\ srv' = srv
  BY DEF M!EndProcess, KV!Die
<1>2. /\ h' = [c \in Client |-> IF srv[c] = s THEN KV!NoThread ELSE h[c]]
      /\ \A c \in Client : /\ srv[c] = s => link'[c] # "open"
                           /\ srv[c] # s => link'[c] = link[c]
      /\ link' \in [Client -> KV!LinkState]
  BY DEF KV!Die, ChainInv, Typed, KV!LinkState
<1>3. Typed'
  BY <1>1, <1>2 DEF ChainInv, Typed, M!MainPc
<1>4. NoTail'
  BY <1>1 DEF ChainInv, Typed, NoTail
<1>5. \A r \in Server : up'[r] <=> pc'[r] = "serving"
  BY <1>1 DEF ChainInv, Typed
<1>6. ASSUME NEW c \in Client PROVE Served(c)'
  <2>1. CASE srv[c] = s
    BY <1>1, <1>2, <2>1 DEF Served, KV!NoThread, KV!Outside
  <2>2. CASE srv[c] # s
    BY <1>1, <1>2, <2>2 DEF ChainInv, Typed, Served
  <2> QED BY <2>1, <2>2
<1> QED BY <1>3, <1>4, <1>5, <1>6 DEF ChainInv

(* A step of main, of the library or of ZooKeeper that starts or stops no  *)
(* serving.                                                                *)
LEMMA BootChainInv ==
  ASSUME ChainInv, NEW s \in Server, UNCHANGED <<up, srv, link, h>>,
         pc[s] # "serving", NEW p \in M!MainPc \ {"serving"},
         pc' = [pc EXCEPT ![s] = p],
         is_tail' \in [Server -> {0, 1, GARBAGE}],
         \A r \in Server : r # s => is_tail'[r] = is_tail[r],
         p = "bind" => is_tail'[s] = 0
  PROVE  ChainInv'
<1>1. /\ pc' \in [Server -> M!MainPc] /\ pc'[s] = p
      /\ \A r \in Server : r # s => pc'[r] = pc[r]
  BY DEF ChainInv, Typed
<1>2. Typed' /\ NoTail'
  BY <1>1 DEF ChainInv, Typed, NoTail
<1>3. \A r \in Server : up'[r] <=> pc'[r] = "serving"
  BY <1>1 DEF ChainInv
<1>4. \A c \in Client : Served(c)'
  BY <1>1 DEF ChainInv, Served
<1> QED BY <1>2, <1>3, <1>4 DEF ChainInv

(* A step of the clients' half that ends no process.                       *)
LEMMA CalmChainInv ==
  ASSUME ChainInv, UNCHANGED <<pc, is_tail, up>>, NEW c \in Client,
         srv' \in [Client -> Server \cup {NONE}], link' \in [Client -> KV!LinkState],
         h' = [d \in Client |-> h'[d]], Served(c)',
         \A d \in Client : d # c =>
           h'[d].pc = h[d].pc /\ srv'[d] = srv[d] /\ link'[d] = link[d]
  PROVE  ChainInv'
<1>1. Typed' /\ NoTail'
  BY DEF ChainInv, Typed, NoTail
<1>2. \A d \in Client : Served(d)'
  BY DEF ChainInv, Served
<1> QED BY <1>1, <1>2 DEF ChainInv

(* What a step of a thread does: it ends the process, or goes on and moves *)
(* no other thread and touches no other connection.                        *)
OneThread(c) ==
  /\ h[c].pc # "none" /\ srv' = srv
  /\ \/ KV!Die(srv[c])
     \/ /\ up' = up
        /\ h' = [d \in Client |-> h'[d]]
        /\ link' \in [Client -> KV!LinkState]
        /\ link'[c] = "open" => link[c] = "open"
        /\ \A d \in Client : d # c => h'[d].pc = h[d].pc /\ link'[d] = link[d]

LEMMA HandlerChainInv ==
  ASSUME ChainInv, NEW c \in Client, OneThread(c), Process(srv[c])
  PROVE  ChainInv'
<1>1. srv[c] \in Server /\ pc[srv[c]] = "serving" /\ up[srv[c]] = TRUE
  BY DEF ChainInv, Served, Typed, OneThread
<1>2. CASE KV!Die(srv[c])
  <2>1. ~up'[srv[c]]
    BY <1>1, <1>2 DEF KV!Die, ChainInv, Typed
  <2> QED BY <1>1, <1>2, <2>1, EndChainInv DEF Process, M!Crash
<1>3. CASE ~KV!Die(srv[c])
  <2>1. UNCHANGED <<pc, is_tail, up>>
    BY <1>1, <1>3 DEF Process, mvars, OneThread
  <2>2. Served(c)'
    BY <1>1, <1>3, <2>1 DEF Served, OneThread
  <2>3. srv' \in [Client -> Server \cup {NONE}]
    BY DEF ChainInv, Typed, OneThread
  <2> QED BY <1>3, <2>1, <2>2, <2>3, CalmChainInv DEF OneThread
<1> QED BY <1>2, <1>3

(* What the steps of a handler do to its process and its connection.       *)
LEMMA HandlerSteps ==
  ASSUME ChainInv, NEW c \in Client, KV!Serve(c) \/ KV!Misused(c) \/ ReadTable(c)
  PROVE  OneThread(c)
<1>1. link \in [Client -> KV!LinkState] /\ h = [d \in Client |-> h[d]]
  BY DEF ChainInv, Typed
<1>2. ASSUME h[c].pc # "none", srv' = srv, up' = up, link' = link,
             NEW p, KV!Goto(c, p) \/ \E code : KV!Answer(c, code, p)
      PROVE  OneThread(c)
  BY <1>1, <1>2 DEF KV!Goto, KV!Answer, OneThread
<1>3. CASE KV!Receive(c)
  BY <1>1, <1>3 DEF OneThread, KV!Receive, KV!HandlerStep, KV!serverVars
<1>4. CASE KV!SendReply(c)
  BY <1>1, <1>4 DEF OneThread, KV!SendReply, KV!HandlerStep, KV!NextMessage, KV!serverVars
<1>5. CASE KV!SendToClosed(c)
  BY <1>1, <1>5 DEF OneThread, KV!SendToClosed, KV!HandlerStep, KV!NextMessage, KV!serverVars,
                    KV!LinkState
<1>6. CASE KV!PostDelete(c)
  BY <1>6 DEF OneThread, KV!PostDelete, KV!HandlerStep
<1>7. CASE KV!PutRemove(c) \/ KV!Delete(c)
  <2>1. h[c].pc # "none" /\ srv' = srv
    BY <1>7 DEF KV!PutRemove, KV!Delete, KV!InCall, KV!HandlerStep
  <2>2. CASE KV!Die(srv[c])
    BY <2>1, <2>2 DEF OneThread
  <2>3. CASE ~KV!Die(srv[c])
    <3>1. up' = up /\ link' = link
          /\ \E p : KV!Goto(c, p) \/ \E code : KV!Answer(c, code, p)
      BY <1>7, <2>3 DEF KV!PutRemove, KV!Delete
    <3> QED BY <1>2, <2>1, <3>1
  <2> QED BY <2>2, <2>3
<1>8. CASE KV!PutAdd(c)
  <2>1. /\ h[c].pc # "none" /\ srv' = srv /\ up' = up /\ link' = link
        /\ KV!Answer(c, "ok", "send")
    BY <1>8 DEF KV!PutAdd, KV!InCall, KV!HandlerStep, KV!Settle, KV!serverVars
  <2> QED BY <1>2, <2>1
<1>9. CASE KV!Accept(c) \/ KV!ReceiveEnd(c) \/ KV!ReceiveReset(c) \/ KV!PutGet(c)
  BY <1>2, <1>9 DEF KV!Accept, KV!ReceiveEnd, KV!ReceiveReset, KV!PutGet, KV!InCall,
                    KV!HandlerStep, KV!serverVars
<1>10. CASE KV!Misused(c)
  <2>1. h[c].pc # "none" /\ srv' = srv /\ up' = up /\ link' = link
        /\ \E p : KV!Goto(c, p) \/ \E code : KV!Answer(c, code, p)
    BY <1>10 DEF KV!Misused, KV!CallPc, KV!serverVars, KV!netVars
  <2> QED BY <1>2, <2>1
(* A call that begins moves no thread, not even if it misuses memory.      *)
<1>11. CASE KV!Begin(c)
  <2>1. h[c].pc # "none" /\ UNCHANGED <<up, srv, link>>
    BY <1>11 DEF KV!Begin, KV!CallPc, KV!netVars
  <2>2. /\ h' = [d \in Client |-> h'[d]]
        /\ \A d \in Client : h'[d].pc = h[d].pc
    BY <1>11 DEF KV!Begin, KV!Spoil, KV!Calling, KV!Outside
  <2> QED BY <1>1, <2>1, <2>2 DEF OneThread
<1>12. CASE ReadTable(c)
  <2>1. h[c].pc # "none" /\ srv' = srv
    BY <1>12 DEF ReadTable, KV!HandlerStep
  <2>2. CASE KV!Die(srv[c])
    BY <2>1, <2>2 DEF OneThread
  <2>3. CASE ~KV!Die(srv[c])
    <3>1. PICK code : KV!Answer(c, code, "send") /\ UNCHANGED <<serverVars, link, req, rep>>
      BY <1>12, <2>3 DEF ReadTable
    <3> QED BY <1>2, <2>1, <3>1 DEF serverVars
  <2> QED BY <2>2, <2>3
<1> QED BY <1>3, <1>4, <1>5, <1>6, <1>7, <1>8, <1>9, <1>10, <1>11, <1>12 DEF KV!Serve

-----------------------------------------------------------------------------

LEMMA NextChainInv == ChainInv /\ [Next]_cvars => ChainInv'
<1> SUFFICES ASSUME ChainInv, [Next]_cvars PROVE ChainInv'
  OBVIOUS
<1>1. /\ pc \in [Server -> M!MainPc] /\ is_tail \in [Server -> {0, 1, GARBAGE}]
      /\ \A s \in Server : up[s] <=> pc[s] = "serving"
      /\ \A c \in Client : Served(c)
      /\ h = [c \in Client |-> h[c]]
      /\ link \in [Client -> KV!LinkState] /\ srv \in [Client -> Server \cup {NONE}]
  BY DEF ChainInv, Typed
<1>2. CASE UNCHANGED <<pc, is_tail, up, srv, link, h>>
  BY <1>2 DEF ChainInv, Typed, NoTail, Served
<1>3. ASSUME NEW s \in Server, Boot(s) PROVE ChainInv'
  <2>1. UNCHANGED <<up, srv, link, h>>
    BY <1>3 DEF Boot, OnlyMembership, kvVars, serverVars
  <2>2. CASE M!StartProcess(s) \/ M!StoreHandle(s) \/ M!StorePort(s)
    <3>1. PICK p \in {"init", "handle", "fields"} :
            pc' = [pc EXCEPT ![s] = p] /\ pc[s] # "serving" /\ is_tail' = is_tail
      BY <2>2 DEF M!StartProcess, M!StoreHandle, M!StorePort, M!Main, M!skeleton
    <3> QED BY <1>1, <2>1, <3>1, BootChainInv DEF M!MainPc
  <2>3. CASE M!StoreFlags(s)
    <3>1. pc' = [pc EXCEPT ![s] = "bind"] /\ pc[s] # "serving" /\ is_tail' = [is_tail EXCEPT ![s] = 0]
      BY <2>3 DEF M!StoreFlags, M!Main
    <3> QED BY <1>1, <2>1, <3>1, BootChainInv DEF M!MainPc
  <2>4. CASE M!BindFails(s) \/ M!UseUnsetHandle(s)
    <3>1. pc' = [pc EXCEPT ![s] = "off"] /\ pc[s] # "serving"
          /\ is_tail' = [is_tail EXCEPT ![s] = GARBAGE]
      BY <2>4 DEF M!BindFails, M!UseUnsetHandle, M!EndProcess
    <3> QED BY <1>1, <2>1, <3>1, BootChainInv DEF M!MainPc
  <2> QED BY <1>3, <2>2, <2>3, <2>4 DEF Boot
<1>4. ASSUME NEW s \in Server, Listen(s) PROVE ChainInv'
  <2>1. /\ pc[s] = "bind" /\ pc' = [pc EXCEPT ![s] = "serving"]
        /\ up' = [up EXCEPT ![s] = TRUE] /\ UNCHANGED <<is_tail, srv, link, h>>
    BY <1>4 DEF Listen, M!Bind, M!Main, M!skeleton, KV!Start, KV!netVars
  <2>2. Typed' /\ NoTail'
    BY <2>1 DEF ChainInv, Typed, NoTail, M!MainPc
  <2>3. \A r \in Server : up'[r] <=> pc'[r] = "serving"
    BY <2>1 DEF ChainInv, Typed
  <2>4. \A c \in Client : Served(c)'
    BY <1>1, <2>1 DEF Served
  <2> QED BY <2>2, <2>3, <2>4 DEF ChainInv
<1>5. ASSUME NEW s \in Server, Stop(s) PROVE ChainInv'
  <2>1. M!EndProcess(s)
    BY <1>5 DEF Stop, M!Crash
  <2>2. CASE up[s]
    BY <1>5, <2>1, <2>2, EndChainInv DEF Stop, KV!Kill
  <2>3. CASE ~up[s]
    <3>1. /\ UNCHANGED <<up, srv, link, h>> /\ pc[s] # "serving"
          /\ pc' = [pc EXCEPT ![s] = "off"] /\ is_tail' = [is_tail EXCEPT ![s] = GARBAGE]
      BY <1>1, <1>5, <2>1, <2>3 DEF Stop, M!EndProcess, kvVars, serverVars
    <3> QED BY <1>1, <3>1, BootChainInv DEF M!MainPc
  <2> QED BY <2>2, <2>3
<1>6. CASE ZooKeeper
  BY <1>2, <1>6 DEF ZooKeeper, OnlyMembership, kvVars, serverVars, M!Watcher, M!Library,
     M!OnConnected, M!OnDisconnected, M!CreateSucceeds, M!CreateFails, M!ConnectSession,
     M!FindExpired, M!CreateRefused, M!LoseConnection, M!ExpireSession, M!skeleton
<1>7. ASSUME NEW c \in Client, Serve(c) \/ ReadTable(c) PROVE ChainInv'
  BY <1>7, HandlerSteps, HandlerChainInv DEF Serve, ReadTable
<1>8. ASSUME NEW c \in Client, rtable_connect(c) PROVE ChainInv'
  <2>1. ASSUME NEW s \in Server, KV!Connect(c, s), UNCHANGED mvars PROVE ChainInv'
    <3>1. /\ UNCHANGED <<pc, is_tail, up>> /\ up[s]
          /\ srv' = [srv EXCEPT ![c] = s] /\ link' = [link EXCEPT ![c] = "open"]
          /\ h' = [h EXCEPT ![c] = KV!Outside("backlog", NULL, "error")]
      BY <2>1 DEF KV!Connect, KV!ClientStep, KV!serverVars, mvars
    <3>2. /\ h' = [d \in Client |-> h'[d]]
          /\ \A d \in Client : d # c => h'[d] = h[d]
      BY <1>1, <3>1
    <3>3. Served(c)'
      BY <1>1, <3>1 DEF Served
    <3> QED BY <1>1, <3>1, <3>2, <3>3, CalmChainInv DEF KV!LinkState
  <2> QED BY <1>2, <1>8, <2>1 DEF rtable_connect, ListChildren, NoChild, GetAddress,
       NodeVanished, ZooKeeperFails, Connect, ConnectNowhere, LookStep, Fail, mvars, kvVars,
       serverVars, KV!ConnectRefused, KV!ClientStep, KV!netVars, KV!serverVars
<1>9. ASSUME NEW c \in Client, Use(c) PROVE ChainInv'
  <2>1. /\ UNCHANGED <<pc, is_tail, up, srv, h>>
        /\ link' \in [Client -> KV!LinkState]
        /\ link'[c] = "open" => link[c] = "open"
        /\ \A d \in Client : d # c => link'[d] = link[d]
    BY <1>1, <1>9 DEF Use, mvars, KV!Command, KV!Send, KV!SendToDead, KV!Read, KV!ReadReply,
       KV!ReadReset, KV!ReadEnd, KV!Timeout, KV!CallFails, KV!Quit, KV!ClientStep,
       KV!serverVars, KV!netVars, KV!LinkState
  <2>2. Served(c)'
    BY <1>1, <2>1 DEF Served
  <2> QED BY <1>1, <2>1, <2>2, CalmChainInv
<1>10. CASE UNCHANGED cvars
  BY <1>2, <1>10 DEF cvars, mvars, kvVars, serverVars
<1> QED BY <1>3, <1>4, <1>5, <1>6, <1>7, <1>8, <1>9, <1>10 DEF Next

LEMMA SpecChainInv == Spec => []ChainInv
  BY InitChainInv, NextChainInv, PTL DEF Spec

(* The two halves of the system agree on the processes that run, however   *)
(* they start and end: open connections and running threads belong to      *)
(* processes that serve.                                                   *)
THEOREM HalvesAgree == Spec => []ProcessesAgree
<1>1. ChainInv => ProcessesAgree
  BY DEF ChainInv, Served, ProcessesAgree
<1> QED BY <1>1, SpecChainInv, PTL

(* Seen from its clients the system is KVServer.  The one step that could  *)
(* differ is a read: it is refused because no serving server is the tail.  *)
LEMMA NextServers == ChainInv /\ [Next]_cvars => [KV!Next]_kvVars
<1> SUFFICES ASSUME ChainInv, [Next]_cvars PROVE KV!Next \/ UNCHANGED kvVars
  OBVIOUS
<1>1. ASSUME NEW s \in Server, Boot(s) \/ Listen(s) \/ Stop(s)
      PROVE  KV!Next \/ UNCHANGED kvVars
  BY <1>1 DEF Boot, OnlyMembership, Listen, Stop, KV!Next
<1>2. CASE ZooKeeper
  BY <1>2 DEF ZooKeeper, OnlyMembership
<1>3. ASSUME NEW c \in Client, Serve(c) PROVE KV!Next
  BY <1>3 DEF Serve, KV!Next, KV!Handler
<1>4. ASSUME NEW c \in Client, ReadTable(c) PROVE KV!Next
  <2>1. is_tail[srv[c]] # 1
    BY <1>4 DEF ReadTable, KV!HandlerStep, ChainInv, Served, NoTail
  <2>2. KV!Refuse(c)
    BY <1>4, <2>1 DEF ReadTable, invoke, KV!Refuse, serverVars, KV!serverVars, KV!overlaps
  <2> QED BY <2>2 DEF KV!Next, KV!Handler
<1>5. ASSUME NEW c \in Client, rtable_connect(c) PROVE KV!Next \/ UNCHANGED kvVars
  BY <1>5 DEF rtable_connect, ListChildren, NoChild, GetAddress, NodeVanished,
     ZooKeeperFails, Connect, ConnectNowhere, Fail, KV!Next
<1>6. ASSUME NEW c \in Client, Use(c) PROVE KV!Next
  BY <1>6 DEF Use, KV!Next
<1>7. CASE UNCHANGED cvars
  BY <1>7 DEF cvars
<1> QED BY <1>1, <1>2, <1>3, <1>4, <1>5, <1>6, <1>7 DEF Next

(* The whole system implements the clients' view of it, for any number of  *)
(* servers, clients, restarts and sessions: a lookup only narrows down     *)
(* which server a client finds, and reads are refused everywhere.          *)
THEOREM SystemImplementsServers == Spec => ImplementsServers
<1>1. Init => KV!Init
  BY DEF Init
<1> QED BY <1>1, SpecChainInv, NextServers, PTL DEF Spec, ImplementsServers

-----------------------------------------------------------------------------
(* The lookup: the inductive invariant. *)

(* The znodes are numbered in the order of the lives of a server, and hold *)
(* the address of their owner or of nobody.                                *)
Numbered ==
  /\ life \in [Server -> Nat] /\ nextSeq \in Nat
  /\ info \in [Server -> Server \cup {GARBAGE}]
  /\ \A s \in Server : info[s] \in {s, GARBAGE}
  /\ IsFiniteSet(znodes)
  /\ znodes \subseteq [seq : Nat, owner : [srv : Server, life : Nat], addr : Server \cup {GARBAGE}]
  /\ \A z \in znodes : /\ z.seq < nextSeq /\ z.owner.life <= life[z.owner.srv]
                       /\ z.addr \in {z.owner.srv, GARBAGE}
  /\ \A y, z \in znodes :
       /\ y.seq = z.seq => y = z
       /\ y.owner.srv = z.owner.srv /\ y.owner.life < z.owner.life => y.seq < z.seq

(* What a lookup knows was true when it listed the children; znodes made   *)
(* later have larger numbers than it has seen.                             *)
Picked(c) ==
  look[c].pc \in {"get", "connect"} =>
    /\ look[c].node \in Nat /\ look[c].seen \in Nat
    /\ look[c].node < look[c].seen /\ look[c].seen <= nextSeq
    /\ \A z \in znodes : z.seq = look[c].node =>
         /\ look[c].pc = "connect" => look[c].addr \in {z.owner.srv, GARBAGE}
         /\ \A y \in znodes : y.owner.srv = z.owner.srv /\ y.seq < look[c].seen
              => y.owner.life <= z.owner.life

LookInv == Numbered /\ TypeOK /\ \A c \in Client : Picked(c)

LEMMA InitLookInv == Init => LookInv
<1> SUFFICES ASSUME Init PROVE LookInv
  OBVIOUS
<1>1. Numbered
  BY FS_EmptySet DEF Init, M!Init, Numbered
<1>2. TypeOK /\ \A c \in Client : Picked(c)
  BY DEF Init, TypeOK, Picked, Lookup, LookPc
<1> QED BY <1>1, <1>2 DEF LookInv

-----------------------------------------------------------------------------
(* The steps of the membership. *)

(* ZooKeeper makes a znode for s, or some znodes go. *)
Registers(s) ==
  /\ znodes' = znodes \cup {[seq |-> nextSeq, addr |-> info[s],
                             owner |-> [srv |-> s, life |-> life[s]]]}
  /\ nextSeq' = nextSeq + 1
  /\ life' = life

Forgets == znodes' \subseteq znodes /\ nextSeq' = nextSeq

(* What every step of the membership does to servers and znodes.           *)
MemberStep ==
  /\ \/ info' = info
     \/ \E s \in Server : \E a \in {s, GARBAGE} : info' = [info EXCEPT ![s] = a]
  /\ life' = life \/ \E s \in Server : life' = [life EXCEPT ![s] = @ + 1]
  /\ Forgets \/ \E s \in Server : Registers(s)

LEMMA MaybeRegisters ==
  ASSUME NEW s \in Server, M!MaybeExecuted(s), life' = life
  PROVE  Forgets \/ Registers(s)
  BY DEF M!MaybeExecuted, M!MakeZnode, M!Session, M!zk, Forgets, Registers

LEMMA MemberSteps == ChainInv /\ [Next]_cvars => MemberStep
<1> SUFFICES ASSUME ChainInv, [Next]_cvars PROVE MemberStep
  OBVIOUS
<1>1. CASE UNCHANGED mvars
  BY <1>1 DEF mvars, MemberStep, Forgets
<1>2. ASSUME NEW s \in Server, Boot(s) \/ Listen(s) PROVE MemberStep
  <2>1. CASE M!StartProcess(s) \/ M!StoreHandle(s) \/ M!StorePort(s) \/ M!StoreFlags(s) \/ M!Bind(s)
    BY <2>1 DEF M!StartProcess, M!StoreHandle, M!StorePort, M!StoreFlags, M!Bind, M!zk,
                MemberStep, Forgets
  <2>2. CASE M!BindFails(s) \/ M!UseUnsetHandle(s)
    BY <2>2 DEF M!BindFails, M!UseUnsetHandle, M!EndProcess, M!EndSession, M!zk,
                MemberStep, Forgets
  <2> QED BY <1>2, <2>1, <2>2 DEF Boot, Listen
<1>3. ASSUME NEW s \in Server, M!Crash(s) PROVE MemberStep
  BY <1>3, MaybeRegisters DEF M!Crash, M!EndProcess, MemberStep
<1>4. ASSUME NEW s \in Server, M!Watcher(s) PROVE MemberStep
  <2>1. CASE M!OnConnected(s) \/ M!OnDisconnected(s) \/ M!CreateFails(s)
    BY <2>1 DEF M!OnConnected, M!OnDisconnected, M!CreateFails, M!Return, M!zk, MemberStep, Forgets
  <2>2. CASE M!CreateSucceeds(s)
    BY <2>2 DEF M!CreateSucceeds, M!MakeZnode, M!Session, M!Return, MemberStep, Registers
  <2> QED BY <1>4, <2>1, <2>2 DEF M!Watcher
<1>5. ASSUME NEW s \in Server, M!Library(s) \/ M!LoseConnection(s) PROVE MemberStep
  BY <1>5, MaybeRegisters DEF M!Library, M!ConnectSession, M!FindExpired, M!CreateRefused,
     M!LoseConnection, M!zk, MemberStep, Forgets
<1>6. ASSUME NEW x, M!ExpireSession(x) PROVE MemberStep
  BY <1>6 DEF M!ExpireSession, M!EndSession, MemberStep, Forgets
<1>7. ASSUME NEW c \in Client, Serve(c) \/ ReadTable(c) PROVE MemberStep
  <2>1. UNCHANGED mvars \/ M!Crash(srv[c])
    BY <1>7 DEF Serve, ReadTable, Process
  <2>2. srv[c] \in Server
    BY <1>7, HandlerSteps DEF Serve, OneThread, ChainInv, Served
  <2> QED BY <1>1, <1>3, <2>1, <2>2
<1>8. ASSUME NEW c \in Client, rtable_connect(c) \/ Use(c) PROVE MemberStep
  BY <1>1, <1>8 DEF rtable_connect, ListChildren, NoChild, GetAddress, NodeVanished,
     ZooKeeperFails, Connect, ConnectNowhere, LookStep, Use
<1>9. CASE ZooKeeper
  BY <1>4, <1>5, <1>6, <1>9 DEF ZooKeeper
<1>10. CASE UNCHANGED cvars
  BY <1>1, <1>10 DEF cvars
<1> QED BY <1>2, <1>3, <1>7, <1>8, <1>9, <1>10 DEF Next, Stop

-----------------------------------------------------------------------------

LEMMA NextNumbered == Numbered /\ MemberStep => Numbered'
<1> SUFFICES ASSUME Numbered, MemberStep PROVE Numbered'
  OBVIOUS
<1>1. /\ life \in [Server -> Nat] /\ nextSeq \in Nat
      /\ info \in [Server -> Server \cup {GARBAGE}]
      /\ \A s \in Server : info[s] \in {s, GARBAGE}
      /\ IsFiniteSet(znodes)
      /\ \A z \in znodes :
           /\ z \in [seq : Nat, owner : [srv : Server, life : Nat], addr : Server \cup {GARBAGE}]
           /\ z.seq < nextSeq /\ z.owner.life <= life[z.owner.srv]
           /\ z.addr \in {z.owner.srv, GARBAGE}
      /\ \A y, z \in znodes :
           /\ y.seq = z.seq => y = z
           /\ y.owner.srv = z.owner.srv /\ y.owner.life < z.owner.life => y.seq < z.seq
  BY DEF Numbered
<1>2. /\ info' \in [Server -> Server \cup {GARBAGE}]
      /\ \A s \in Server : info'[s] \in {s, GARBAGE}
  <2>1. CASE info' = info
    BY <1>1, <2>1
  <2>2. ASSUME NEW s \in Server, NEW a \in {s, GARBAGE}, info' = [info EXCEPT ![s] = a]
        PROVE  info' \in [Server -> Server \cup {GARBAGE}]
               /\ \A r \in Server : info'[r] \in {r, GARBAGE}
    BY <1>1, <2>2
  <2> QED BY <2>1, <2>2 DEF MemberStep
<1>3. /\ life' \in [Server -> Nat]
      /\ \A s \in Server : life[s] <= life'[s]
  <2>1. CASE life' = life
    BY <1>1, <2>1
  <2>2. ASSUME NEW s \in Server, life' = [life EXCEPT ![s] = @ + 1]
        PROVE  /\ life' \in [Server -> Nat]
               /\ \A r \in Server : life[r] <= life'[r]
    BY <1>1, <2>2
  <2> QED BY <2>1, <2>2 DEF MemberStep
<1>4. CASE Forgets
  <2>1. IsFiniteSet(znodes') /\ nextSeq' \in Nat
    BY <1>1, <1>4, FS_Subset DEF Forgets
  <2>2. \A z \in znodes' : z.owner.life <= life'[z.owner.srv]
    <3> SUFFICES ASSUME NEW z \in znodes' PROVE z.owner.life <= life'[z.owner.srv]
      OBVIOUS
    <3>1. z.owner.srv \in Server /\ z.owner.life \in Nat /\ z.owner.life <= life[z.owner.srv]
      BY <1>1, <1>4 DEF Forgets
    <3>2. life[z.owner.srv] <= life'[z.owner.srv]
          /\ life[z.owner.srv] \in Nat /\ life'[z.owner.srv] \in Nat
      BY <1>1, <1>3, <3>1
    <3> QED BY <3>1, <3>2
  <2> QED BY <1>1, <1>2, <1>3, <1>4, <2>1, <2>2 DEF Numbered, Forgets
<1>5. ASSUME NEW s \in Server, Registers(s) PROVE Numbered'
  <2> DEFINE new == [seq |-> nextSeq, addr |-> info[s],
                     owner |-> [srv |-> s, life |-> life[s]]]
  <2>1. /\ znodes' = znodes \cup {new} /\ nextSeq' = nextSeq + 1 /\ life' = life
        /\ IsFiniteSet(znodes')
    BY <1>1, <1>5, FS_AddElement DEF Registers
  <2>2. /\ new \in [seq : Nat, owner : [srv : Server, life : Nat], addr : Server \cup {GARBAGE}]
        /\ new.seq = nextSeq /\ new.owner.life = life[new.owner.srv]
        /\ new.addr \in {new.owner.srv, GARBAGE}
    BY <1>1
  <2> HIDE DEF new
  <2>3. \A z \in znodes' :
           /\ z \in [seq : Nat, owner : [srv : Server, life : Nat], addr : Server \cup {GARBAGE}]
           /\ z.seq < nextSeq' /\ z.owner.life <= life'[z.owner.srv]
           /\ z.addr \in {z.owner.srv, GARBAGE}
    BY <1>1, <2>1, <2>2
  <2>4. \A y, z \in znodes' :
           /\ y.seq = z.seq => y = z
           /\ y.owner.srv = z.owner.srv /\ y.owner.life < z.owner.life => y.seq < z.seq
    <3> SUFFICES ASSUME NEW y \in znodes', NEW z \in znodes'
                 PROVE  /\ y.seq = z.seq => y = z
                        /\ y.owner.srv = z.owner.srv /\ y.owner.life < z.owner.life
                             => y.seq < z.seq
      OBVIOUS
    <3>1. CASE y \in znodes /\ z \in znodes
      BY <1>1, <3>1
    <3>2. CASE y \in znodes /\ z = new
      BY <1>1, <2>2, <3>2
    <3>3. CASE y = new /\ z \in znodes
      BY <1>1, <2>2, <3>3
    <3>4. CASE y = new /\ z = new
      BY <1>1, <2>2, <3>4
    <3> QED BY <2>1, <3>1, <3>2, <3>3, <3>4
  <2> QED BY <1>1, <1>2, <1>3, <2>1, <2>3, <2>4 DEF Numbered
<1> QED BY <1>4, <1>5 DEF MemberStep

(* What a client has picked stays as good as it was. *)
LEMMA PickedStays ==
  ASSUME Numbered, MemberStep, NEW c \in Client, Picked(c), look'[c] = look[c]
  PROVE  Picked(c)'
<1> SUFFICES ASSUME look[c].pc \in {"get", "connect"} PROVE Picked(c)'
  BY DEF Picked
<1>1. /\ look[c].node \in Nat /\ look[c].seen \in Nat /\ nextSeq \in Nat
      /\ look[c].node < look[c].seen /\ look[c].seen <= nextSeq
  BY DEF Picked, Numbered
<1>2. nextSeq' \in Nat /\ nextSeq <= nextSeq'
  BY <1>1 DEF MemberStep, Forgets, Registers
<1>3. \A z \in znodes' : z.seq < look[c].seen => z \in znodes
  BY <1>1 DEF MemberStep, Forgets, Registers
<1>4. \A z \in znodes : z.seq = look[c].node => z.seq < look[c].seen
  BY <1>1
<1>5. \A z \in znodes' : z.seq = look[c].node => z \in znodes
  BY <1>1, <1>3
<1> QED BY <1>1, <1>2, <1>3, <1>5 DEF Picked

-----------------------------------------------------------------------------
(* The lookup. *)

LookType == [pc : LookPc, node : Nat \cup {NULL},
             addr : Server \cup {NULL, GARBAGE}, seen : Nat]

LEMMA NextLookInv == ChainInv /\ LookInv /\ [Next]_cvars => LookInv'
<1> SUFFICES ASSUME ChainInv, LookInv, [Next]_cvars PROVE LookInv'
  OBVIOUS
<1>1. MemberStep /\ Numbered /\ Numbered' /\ nextSeq \in Nat
  BY MemberSteps, NextNumbered DEF LookInv, Numbered
<1>2. look \in [Client -> LookType] /\ \A c \in Client : Picked(c)
  BY DEF LookInv, TypeOK, LookType
<1>3. CASE UNCHANGED look
  BY <1>1, <1>2, <1>3, PickedStays DEF LookInv, TypeOK, LookType
(* One client looks further. *)
<1>4. ASSUME NEW c \in Client, look' \in [Client -> LookType],
             \A d \in Client : d # c => look'[d] = look[d],
             Picked(c)'
      PROVE  LookInv'
  BY <1>1, <1>2, <1>4, PickedStays DEF LookInv, TypeOK, LookType
<1>5. ASSUME NEW c \in Client, ListChildren(c) PROVE LookInv'
  <2>1. PICK z \in znodes :
          /\ \A y \in znodes : y.seq <= z.seq
          /\ look' = [look EXCEPT ![c] =
               [pc |-> "get", node |-> z.seq, addr |-> NULL, seen |-> nextSeq]]
    BY <1>5 DEF ListChildren
  <2>2. UNCHANGED <<znodes, nextSeq>>
    BY <1>5 DEF ListChildren, LookStep, mvars
  <2>3. z.seq \in Nat /\ z.seq < nextSeq
    BY <1>1 DEF Numbered
  <2>4. /\ look'[c].pc = "get" /\ look'[c].node = z.seq /\ look'[c].seen = nextSeq
        /\ \A d \in Client : d # c => look'[d] = look[d]
    BY <1>2, <2>1 DEF LookType
  <2>5. look' \in [Client -> LookType]
    BY <1>1, <1>2, <2>1, <2>3 DEF LookType, LookPc
  <2>6. \A x \in znodes : x.seq = z.seq =>
          \A y \in znodes : y.owner.srv = x.owner.srv => y.owner.life <= x.owner.life
    <3> SUFFICES ASSUME NEW x \in znodes, x.seq = z.seq, NEW y \in znodes,
                        y.owner.srv = x.owner.srv
                 PROVE  y.owner.life <= x.owner.life
      OBVIOUS
    <3>1. /\ x.owner.life \in Nat /\ y.owner.life \in Nat /\ x.seq \in Nat /\ y.seq \in Nat
          /\ x.owner.life < y.owner.life => x.seq < y.seq
      BY <1>1 DEF Numbered
    <3>2. y.seq <= x.seq
      BY <2>1
    <3> QED BY <3>1, <3>2
  <2>7. Picked(c)'
    BY <1>1, <2>2, <2>3, <2>4, <2>6 DEF Picked
  <2> QED BY <1>4, <2>4, <2>5, <2>7
<1>6. ASSUME NEW c \in Client, GetAddress(c) PROVE LookInv'
  <2>1. PICK z \in znodes, a \in Server \cup {GARBAGE} :
          /\ z.seq = look[c].node /\ a \in {z.addr, GARBAGE}
          /\ look' = [look EXCEPT ![c].pc = "connect", ![c].addr = a]
    BY <1>1, <1>6 DEF GetAddress, Numbered
  <2>2. UNCHANGED <<znodes, nextSeq>> /\ look[c].pc = "get"
    BY <1>6 DEF GetAddress, LookStep, mvars
  <2>3. a \in {z.owner.srv, GARBAGE}
    BY <1>1, <2>1 DEF Numbered
  <2>4. /\ look'[c].pc = "connect" /\ look'[c].addr = a
        /\ look'[c].node = look[c].node /\ look'[c].seen = look[c].seen
        /\ \A d \in Client : d # c => look'[d] = look[d]
    BY <1>2, <2>1 DEF LookType
  <2>5. look' \in [Client -> LookType]
    <3> DEFINE r == [look[c] EXCEPT !.pc = "connect", !.addr = a]
    <3>1. look[c] \in LookType /\ "connect" \in LookPc /\ a \in Server \cup {NULL, GARBAGE}
      BY <1>2, <2>1 DEF LookPc
    <3>2. r \in LookType
      BY <3>1 DEF LookType
    <3>3. look' = [look EXCEPT ![c] = r]
      BY <2>1
    <3> HIDE DEF r
    <3> QED BY <1>2, <3>2, <3>3
  <2>6. \A x \in znodes : x.seq = look[c].node => x = z
    BY <1>1, <2>1 DEF Numbered
  <2>7. Picked(c)'
    BY <1>2, <2>2, <2>3, <2>4, <2>6 DEF Picked
  <2> QED BY <1>4, <2>4, <2>5, <2>7
<1>7. ASSUME NEW c \in Client, NEW p \in {"done", "failed"},
             look' = [look EXCEPT ![c].pc = p]
      PROVE  LookInv'
  <2>1. look'[c].pc = p /\ \A d \in Client : d # c => look'[d] = look[d]
    BY <1>2, <1>7 DEF LookType
  <2>2. look' \in [Client -> LookType]
    BY <1>2, <1>7 DEF LookType, LookPc
  <2>3. Picked(c)'
    BY <2>1 DEF Picked
  <2> QED BY <1>4, <2>1, <2>2, <2>3
<1>8. ASSUME NEW c \in Client, rtable_connect(c) PROVE LookInv'
  BY <1>5, <1>6, <1>7, <1>8 DEF rtable_connect, NoChild, NodeVanished, ZooKeeperFails,
     Connect, ConnectNowhere, Fail
<1> QED BY <1>3, <1>8 DEF Next, Boot, Listen, Stop, ZooKeeper, OnlyMembership, Serve,
        ReadTable, Use, cvars

LEMMA SpecLookInv == Spec => []LookInv
  BY InitLookInv, SpecChainInv, NextLookInv, PTL DEF Spec

(* Every lookup keeps its type. *)
THEOREM LookupTypeCorrect == Spec => []TypeOK
  BY SpecLookInv, PTL DEF LookInv

(* However long a client takes between its calls to ZooKeeper, and however *)
(* often servers crash, restart and register again meanwhile, the child it *)
(* picked is not that of a dead process whose successor was registered     *)
(* when it looked, and the address it reads is the owner's or none.        *)
THEOREM LookupsTakeNewest == Spec => []LookupTakesNewest
<1>1. LookInv => LookupTakesNewest
  BY DEF LookInv, Picked, LookupTakesNewest
<1> QED BY <1>1, SpecLookInv, PTL
=============================================================================
