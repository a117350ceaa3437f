---------------------------- MODULE KVServerProofs ----------------------------
(***************************************************************************)
(* Theorems about KVServer, for every number of servers, clients and       *)
(* requests and every hash function.  The first inductive invariant is     *)
(* about types and about the tables; the second adds what the handler      *)
(* threads know about the keys of their server.  From "connected_clients"  *)
(* on it is about connections: how many of them a server counts, in which  *)
(* order their requests are answered, and what a client can conclude about *)
(* its last PUT.                                                           *)
(***************************************************************************)
EXTENDS KVServer, TableOpsProofs

(* A thread belongs to a connection; a client that has not connected has   *)
(* neither.                                                                *)
Attached ==
  \A c \in Client :
    /\ h[c].pc # "none" => srv[c] \in Server
    /\ cl[c] = "new" => h[c].pc = "none" /\ rep[c] = <<>> /\ link[c] = "none"

(* A list_add that runs is in flight. *)
Inserting ==
  \A c \in Client :
    h[c].pc = "put_add" /\ h[c].inside => Insertion(c) \in flight[srv[c]]

TypeInv == TypeOK /\ Attached /\ WellFormed /\ Inserting

LEMMA InitTypeInv == Init => TypeInv
<1> SUFFICES ASSUME Init PROVE TypeInv
  OBVIOUS
<1>1. WellFormed
  BY TableCreate DEF Init, WellFormed, WellFormedTable
<1>2. TypeOK
  <2>1. table_create \in TableType /\ NoThread \in Thread /\ NoThread.pc \notin Busy
    BY TableCreate DEF WellFormedTable, NoThread, Outside, Thread, Code, Pc, Busy, CallPc
  <2>2. /\ h \in [Client -> Thread] /\ \A c \in Client : h[c].pc \notin Busy
        /\ tbl \in [Server -> TableType]
    <3> HIDE DEF NoThread
    <3> QED BY <2>1 DEF Init
  <2>3. /\ up \in [Server -> BOOLEAN] /\ connected \in [Server -> Int]
        /\ flight \in [Server -> SUBSET (Client \X Message)] /\ wild \in [Server -> BOOLEAN]
        /\ raced \in [Server -> SUBSET Slot] /\ lost \in [Server -> SUBSET Key]
    BY DEF Init
  <2>4. /\ srv \in [Client -> Server \cup {NONE}] /\ link \in [Client -> LinkState]
        /\ req \in [Client -> Seq(Message)] /\ rep \in [Client -> Seq(Reply)]
        /\ cl \in [Client -> ClientState] /\ cur \in [Client -> Message \cup {NULL}]
        /\ sent \in [Client -> 0..MaxSent] /\ res \in [Client -> {NONE, "ok", "fail"}]
    BY ServerAssumption DEF Init, LinkState, ClientState
  <2> QED BY <2>2, <2>3, <2>4 DEF TypeOK
<1>3. Attached /\ Inserting
  BY DEF Init, Attached, Inserting, NoThread, Outside
<1> QED BY <1>1, <1>2, <1>3 DEF TypeInv

LEMMA DieTypeInv ==
  ASSUME TypeInv, NEW s \in Server, Die(s), UNCHANGED clientVars
  PROVE  TypeInv'
<1> USE DEF TypeInv
<1>0. table_create \in TableType /\ NoThread \in Thread
  BY TableCreate DEF WellFormedTable, NoThread, Outside, Thread, Pc, Code
<1>1. WellFormed'
  <2> SUFFICES ASSUME NEW r \in Server, NEW i \in Slot, ~wild'[r], i \notin raced'[r]
               PROVE  WellFormedList(tbl'[r][i], i)
    BY DEF WellFormed
  <2>1. CASE r = s
    BY <2>1, TableCreate DEF Die, TypeOK, WellFormedTable
  <2>2. CASE r # s
    BY <2>2 DEF Die, TypeOK, WellFormed
  <2> QED BY <2>1, <2>2
<1>2. TypeOK'
  <2>1. h' \in [Client -> Thread] /\ \A d \in Client : h'[d].pc \in Busy => h'[d].msg \in Message
    BY <1>0 DEF Die, TypeOK, NoThread, Outside, Busy, CallPc
  <2>2. /\ up' \in [Server -> BOOLEAN] /\ tbl' \in [Server -> TableType]
        /\ connected' \in [Server -> Int] /\ wild' \in [Server -> BOOLEAN]
    BY <1>0 DEF Die, TypeOK
  <2>3. /\ flight' \in [Server -> SUBSET (Client \X Message)]
        /\ raced' \in [Server -> SUBSET Slot] /\ lost' \in [Server -> SUBSET Key]
    BY DEF Die, TypeOK
  <2>4. /\ srv' = srv /\ rep' = rep /\ req' \in [Client -> Seq(Message)]
        /\ link' \in [Client -> LinkState]
    BY DEF Die, TypeOK, LinkState
  <2> QED BY <2>1, <2>2, <2>3, <2>4 DEF TypeOK, clientVars
<1>3. Attached'
  BY DEF Die, Attached, TypeOK, NoThread, Outside, clientVars, LinkState
<1>4. Inserting'
  <2> SUFFICES ASSUME NEW d \in Client, h'[d].pc = "put_add", h'[d].inside
               PROVE  Insertion(d)' \in flight'[srv'[d]]
    BY DEF Inserting
  <2>1. srv[d] # s /\ h'[d] = h[d] /\ srv' = srv
    BY DEF Die, NoThread, Outside
  <2>2. srv[d] \in Server /\ Insertion(d) \in flight[srv[d]]
    BY <2>1 DEF Attached, Inserting
  <2> QED BY <2>1, <2>2 DEF Die, TypeOK, Insertion
<1> QED BY <1>1, <1>2, <1>3, <1>4

(* The handler of c moves to pc with message m and this code, outside any  *)
(* list call; the others stay where they are.                              *)
Becomes(c, pc, m, code) ==
  h' = [h EXCEPT ![c] = Outside(pc, m, code)]

LEMMA BecomesThread ==
  ASSUME TypeOK, NEW c \in Client, NEW pc \in Pc, NEW m \in Message \cup {NULL},
         NEW code \in Code, Becomes(c, pc, m, code)
  PROVE  /\ h' \in [Client -> Thread]
         /\ h'[c].pc = pc /\ h'[c].msg = m /\ h'[c].code = code
         /\ ~h'[c].inside /\ h'[c].met = {}
         /\ \A d \in Client : d # c => h'[d] = h[d]
<1> DEFINE g == Outside(pc, m, code)
<1>1. g \in Thread
  BY DEF Outside, Thread
<1>2. g.pc = pc /\ g.msg = m /\ g.code = code /\ ~g.inside /\ g.met = {}
  BY DEF Outside
<1>3. h' = [h EXCEPT ![c] = g]
  BY DEF Becomes
<1> HIDE DEF g
<1> QED BY <1>1, <1>2, <1>3 DEF TypeOK

LEMMA AnswerBecomes ==
  ASSUME TypeOK, NEW c \in Client, NEW pc, NEW code
  PROVE  /\ Answer(c, code, pc) => Becomes(c, pc, h[c].msg, code)
         /\ Goto(c, pc) => Becomes(c, pc, h[c].msg, h[c].code)
         /\ NextMessage(c) => Becomes(c, "recv", NULL, "error")
BY DEF TypeOK, Answer, Goto, NextMessage, Becomes

(* The steps of a handler that leave the lists and their overlaps alone.   *)
Quiet(c) ==
  \/ Accept(c) \/ Receive(c) \/ ReceiveEnd(c) \/ ReceiveReset(c)
  \/ PutGet(c) \/ Refuse(c) \/ SendReply(c) \/ Misused(c)
  \/ SendToClosed(c) /\ ~Die(srv[c])

(* The steps that end a list call with an effect, and let the process be.  *)
ListEnd(c) == (PutRemove(c) \/ PutAdd(c) \/ Delete(c)) /\ ~Die(srv[c])

(* Where each of them leads. *)
LEMMA Moves ==
  ASSUME TypeOK, NEW c \in Client, Quiet(c) \/ ListEnd(c)
  PROVE  /\ h[c].pc \notin {"none", "exit", "spin"}
         /\ h[c].pc = "backlog" => Accept(c)
         /\ \E pc \in Pc, m \in Message \cup {NULL}, code \in Code :
              /\ Becomes(c, pc, m, code)
              /\ pc \in Busy => m \in Message
              /\ pc # "none" /\ pc # "backlog"
              /\ pc = "exit" => ReceiveReset(c)
<1>0. /\ h[c] \in Thread /\ h[c].msg \in Message \cup {NULL} /\ h[c].code \in Code
      /\ h[c].pc \in Busy => h[c].msg \in Message
  BY DEF TypeOK, Thread
<1>1. CASE Accept(c)
  <2>1. Becomes(c, "recv", h[c].msg, h[c].code) /\ h[c].pc = "backlog"
    BY <1>1, AnswerBecomes DEF Accept, HandlerStep
  <2> QED BY <1>0, <1>1, <2>1 DEF Pc, Busy, CallPc
<1>2. CASE ReceiveEnd(c)
  <2>1. Becomes(c, "spin", h[c].msg, h[c].code) /\ h[c].pc = "recv"
    BY <1>2, AnswerBecomes DEF ReceiveEnd, HandlerStep
  <2> QED BY <1>0, <2>1 DEF Pc, Busy, CallPc
<1>3. CASE ReceiveReset(c)
  <2>1. Becomes(c, "exit", h[c].msg, h[c].code) /\ h[c].pc = "recv"
    BY <1>3, AnswerBecomes DEF ReceiveReset, HandlerStep
  <2> QED BY <1>0, <1>3, <2>1 DEF Pc, Busy, CallPc
<1>4. CASE Receive(c)
  <2> DEFINE m == Head(req[c])
             pc == CASE m.op = "put" -> "put_get"
                     [] m.op = "del" -> "del"
                     [] OTHER -> "read"
  <2>1. m \in Message /\ pc \in Busy /\ pc \in Pc
    BY <1>4 DEF Receive, TypeOK, Busy, CallPc, Pc
  <2>2. Becomes(c, pc, m, "error") /\ h[c].pc = "recv"
    <3> HIDE DEF m, pc
    <3> QED BY <1>4 DEF Receive, HandlerStep, m, pc, Becomes
  <2>3. pc # "none" /\ pc # "backlog" /\ pc # "exit" /\ "error" \in Code
    BY <2>1 DEF Busy, CallPc, Code
  <2> HIDE DEF m, pc
  <2> QED BY <2>1, <2>2, <2>3
<1>5. CASE PutGet(c)
  <2>1. PICK found \in BOOLEAN : Goto(c, IF found THEN "put_remove" ELSE "put_add")
    BY <1>5 DEF PutGet
  <2>2. PICK pc \in {"put_remove", "put_add"} : Goto(c, pc)
    BY <2>1
  <2>3. Becomes(c, pc, h[c].msg, h[c].code)
    BY <2>2, AnswerBecomes
  <2>4. h[c].pc = "put_get"
    BY <1>5 DEF PutGet, InCall, HandlerStep
  <2> QED BY <1>0, <2>3, <2>4 DEF Pc, Busy, CallPc
<1>6. CASE Refuse(c)
  <2>1. PICK code \in Code : Answer(c, code, "send")
    BY <1>6 DEF Refuse, Code
  <2>2. Becomes(c, "send", h[c].msg, code) /\ h[c].pc = "read"
    BY <1>6, <2>1, AnswerBecomes DEF Refuse, HandlerStep
  <2> QED BY <1>0, <2>2 DEF Pc, Busy, CallPc
<1>7. CASE SendReply(c) \/ (SendToClosed(c) /\ ~Die(srv[c]))
  <2>1. Becomes(c, "recv", NULL, "error") /\ h[c].pc = "send"
    BY <1>7, AnswerBecomes DEF SendReply, SendToClosed, HandlerStep
  <2> QED BY <1>0, <2>1 DEF Pc, Busy, CallPc, Code
<1>8. CASE Misused(c)
  <2>1. h[c].pc \in CallPc
    BY <1>8 DEF Misused
  <2>2. PICK pc \in Busy, code \in Code : Becomes(c, pc, h[c].msg, code)
    <3>1. CASE h[c].pc = "put_get"
      <4>1. \E pc \in {"put_remove", "put_add"} : Goto(c, pc)
        BY <1>8, <3>1 DEF Misused
      <4> QED BY <4>1, <1>0, AnswerBecomes DEF Busy, CallPc
    <3>2. CASE h[c].pc = "put_remove"
      <4>1. Goto(c, "put_add")
        BY <1>8, <3>2 DEF Misused
      <4> QED BY <4>1, <1>0, AnswerBecomes DEF Busy, CallPc
    <3>3. CASE h[c].pc = "put_add"
      <4>1. \E code \in {"ok", "error"} : Answer(c, code, "send")
        BY <1>8, <3>3 DEF Misused
      <4> QED BY <4>1, AnswerBecomes DEF Busy, CallPc, Code
    <3>4. CASE h[c].pc = "del"
      <4>1. Answer(c, "ok", "post") \/ Answer(c, "error", "send")
        BY <1>8, <3>4 DEF Misused
      <4> QED BY <4>1, AnswerBecomes DEF Busy, CallPc, Code
    <3> QED BY <2>1, <3>1, <3>2, <3>3, <3>4 DEF CallPc
  <2> QED BY <1>0, <2>1, <2>2 DEF Pc, Busy, CallPc
<1>9. CASE PutRemove(c) /\ ~Die(srv[c])
  <2>1. Becomes(c, "put_add", h[c].msg, h[c].code) /\ h[c].pc = "put_remove"
    BY <1>9, AnswerBecomes DEF PutRemove, InCall, HandlerStep
  <2> QED BY <1>0, <2>1 DEF Pc, Busy, CallPc
<1>10. CASE PutAdd(c)
  <2>1. Becomes(c, "send", h[c].msg, "ok") /\ h[c].pc = "put_add"
    BY <1>10, AnswerBecomes DEF PutAdd, InCall, HandlerStep
  <2> QED BY <1>0, <2>1 DEF Pc, Busy, CallPc, Code
<1>11. CASE Delete(c) /\ ~Die(srv[c])
  <2>1. Answer(c, "ok", "post") \/ Answer(c, "error", "send")
    BY <1>11 DEF Delete
  <2>2. h[c].pc = "del"
    BY <1>11 DEF Delete, InCall, HandlerStep
  <2>3. Becomes(c, "post", h[c].msg, "ok") \/ Becomes(c, "send", h[c].msg, "error")
    BY <2>1, AnswerBecomes
  <2> QED BY <1>0, <2>2, <2>3 DEF Pc, Busy, CallPc, Code
<1>12. CASE Quiet(c)
  BY <1>1, <1>2, <1>3, <1>4, <1>5, <1>6, <1>7, <1>8, <1>12 DEF Quiet
<1>13. CASE ListEnd(c)
  BY <1>9, <1>10, <1>11, <1>13 DEF ListEnd
<1> QED BY <1>12, <1>13

(* The same, of the thread record as a whole.                              *)
LEMMA MovedThread ==
  ASSUME TypeOK, NEW c \in Client, Quiet(c) \/ ListEnd(c)
  PROVE  /\ h' \in [Client -> Thread]
         /\ h'[c].pc \in Busy => h'[c].msg \in Message
         /\ h'[c].pc # "none" /\ h'[c].pc # "backlog" /\ ~h'[c].inside /\ h'[c].met = {}
         /\ \A d \in Client : d # c => h'[d] = h[d]
         /\ h[c].pc \notin {"none", "exit", "spin"}
         /\ h'[c].pc = "exit" => ReceiveReset(c)
         /\ h[c].pc = "backlog" => Accept(c)
<1>1. PICK pc \in Pc, m \in Message \cup {NULL}, code \in Code :
        /\ Becomes(c, pc, m, code)
        /\ pc \in Busy => m \in Message
        /\ pc # "none" /\ pc # "backlog"
        /\ pc = "exit" => ReceiveReset(c)
  BY Moves
<1> QED BY <1>1, BecomesThread, Moves

(* What every such step leaves alone, and the types of the rest.           *)
LEMMA QuietFrame ==
  ASSUME TypeOK, Attached, NEW c \in Client, Quiet(c)
  PROVE  /\ UNCHANGED <<up, tbl, overlaps, srv, clientVars>>
         /\ connected' \in [Server -> Int] /\ link' \in [Client -> LinkState]
         /\ req' \in [Client -> Seq(Message)] /\ rep' \in [Client -> Seq(Reply)]
         /\ \A d \in Client : /\ link[d] = "none" => link'[d] = "none"
                              /\ d # c => link'[d] = link[d] /\ rep'[d] = rep[d]
<1>0. /\ h[c].pc # "none" => srv[c] \in Server
      /\ connected \in [Server -> Int] /\ link \in [Client -> LinkState]
      /\ req \in [Client -> Seq(Message)] /\ rep \in [Client -> Seq(Reply)]
  BY DEF TypeOK, Attached
<1>1. CASE Accept(c) \/ ReceiveReset(c)
  BY <1>0, <1>1 DEF Accept, ReceiveReset, HandlerStep, serverVars, overlaps
<1>2. CASE ReceiveEnd(c) \/ PutGet(c) \/ Refuse(c) \/ Misused(c)
  BY <1>0, <1>2 DEF ReceiveEnd, PutGet, Refuse, Misused, InCall, HandlerStep, serverVars, netVars
<1>3. CASE Receive(c)
  BY <1>0, <1>3 DEF Receive, HandlerStep, serverVars
<1>4. CASE SendReply(c)
  <2> DEFINE r == [op |-> h[c].msg.op, key |-> h[c].msg.key,
                   code |-> h[c].code, id |-> h[c].msg.id]
  <2>1. r \in Reply
    <3>1. h[c].pc = "send" /\ h[c].msg \in Message /\ h[c].code \in Code
      BY <1>4 DEF SendReply, HandlerStep, Busy, TypeOK, Thread
    <3> QED BY <3>1 DEF Message, Reply, Code
  <2>2. rep' = [rep EXCEPT ![c] = Append(@, r)] /\ UNCHANGED <<serverVars, link, req, srv, clientVars>>
    BY <1>4 DEF SendReply, HandlerStep
  <2> HIDE DEF r
  <2> QED BY <1>0, <2>1, <2>2 DEF serverVars
<1>5. CASE SendToClosed(c) /\ ~Die(srv[c])
  <2>1. /\ UNCHANGED <<serverVars, req, rep, srv, clientVars>>
        /\ link' \in {link, [link EXCEPT ![c] = IF @ = "clientRst"
                                               THEN "clientGone" ELSE @]}
    BY <1>5 DEF SendToClosed, HandlerStep
  <2> QED BY <1>0, <2>1 DEF serverVars, LinkState
<1> QED BY <1>1, <1>2, <1>3, <1>4, <1>5 DEF Quiet

LEMMA QuietTypeInv ==
  ASSUME TypeInv, NEW c \in Client, Quiet(c)
  PROVE  TypeInv'
<1>0. TypeOK /\ Attached /\ WellFormed /\ Inserting
  BY DEF TypeInv
<1>1. /\ h' \in [Client -> Thread]
      /\ h'[c].pc \in Busy => h'[c].msg \in Message
      /\ ~h'[c].inside /\ h[c].pc # "none"
      /\ \A d \in Client : d # c => h'[d] = h[d]
  BY <1>0, MovedThread
<1>2. /\ UNCHANGED <<up, tbl, overlaps, srv, clientVars>>
      /\ connected' \in [Server -> Int] /\ link' \in [Client -> LinkState]
      /\ req' \in [Client -> Seq(Message)] /\ rep' \in [Client -> Seq(Reply)]
      /\ \A d \in Client : /\ link[d] = "none" => link'[d] = "none"
                           /\ d # c => link'[d] = link[d] /\ rep'[d] = rep[d]
  BY <1>0, QuietFrame
<1>3. TypeOK'
  <2>1. \A d \in Client : h'[d].pc \in Busy => h'[d].msg \in Message
    BY <1>0, <1>1 DEF TypeOK
  <2> QED BY <1>0, <1>1, <1>2, <2>1 DEF TypeOK, clientVars, overlaps
<1>4. Attached'
  BY <1>0, <1>1, <1>2 DEF Attached, clientVars
<1>5. WellFormed'
  BY <1>0, <1>2 DEF WellFormed, overlaps
<1>6. Inserting'
  BY <1>0, <1>1, <1>2 DEF Inserting, Insertion, overlaps
<1> QED BY <1>3, <1>4, <1>5, <1>6 DEF TypeInv

(* A step that puts a list into the slot of the key of a thread.           *)
LEMMA SlotStep ==
  ASSUME TypeOK, NEW c \in Client, srv[c] \in Server, h[c].msg \in Message
  PROVE  /\ h[c].msg.key \in Key /\ SlotOf(c) \in Slot /\ SlotList(c) \in List
         /\ \A l \in List : SetSlot(c, l) =>
              /\ tbl' \in [Server -> TableType]
              /\ \A r \in Server, i \in Slot :
                   tbl'[r][i] = IF r = srv[c] /\ i = SlotOf(c) THEN l ELSE tbl[r][i]
<1>1. h[c].msg.key \in Key /\ SlotOf(c) \in Slot
  BY TableAssumption DEF Message, SlotOf, Slot
<1>2. tbl \in [Server -> [Slot -> List]]
  BY DEF TypeOK, TableType
<1>3. ASSUME NEW l \in List, SetSlot(c, l)
      PROVE  /\ tbl' \in [Server -> [Slot -> List]]
             /\ \A r \in Server, i \in Slot :
                  tbl'[r][i] = IF r = srv[c] /\ i = SlotOf(c) THEN l ELSE tbl[r][i]
  <2> DEFINE t == [tbl[srv[c]] EXCEPT ![SlotOf(c)] = l]
  <2>1. t \in [Slot -> List] /\ \A i \in Slot : t[i] = IF i = SlotOf(c) THEN l ELSE tbl[srv[c]][i]
    BY <1>1, <1>2
  <2>2. tbl' = [tbl EXCEPT ![srv[c]] = t]
    BY <1>3, <1>2 DEF SetSlot, SlotSet, SlotOf
  <2> HIDE DEF t
  <2> QED BY <1>2, <2>1, <2>2
<1> QED BY <1>1, <1>2, <1>3 DEF SlotList, TableType

LEMMA RemovedKeeps ==
  ASSUME TypeOK, NEW c \in Client, srv[c] \in Server, h[c].msg \in Message,
         NEW r \in Removed(c)
  PROVE  /\ r.list \in List
         /\ KeysOf(SlotList(c)) \ {h[c].msg.key} \subseteq KeysOf(r.list)
         /\ r.ret = 0 \/ r.list = SlotList(c)
         /\ WellFormedList(SlotList(c), SlotOf(c)) => WellFormedList(r.list, SlotOf(c))
<1> DEFINE l == SlotList(c)
           k == h[c].msg.key
<1>1. l \in List /\ k \in Key /\ SlotOf(c) \in Slot
  BY SlotStep
<1>2. CASE k \in KeysOf(l)
  <2>1. r = list_remove(l, k)
    BY <1>2 DEF Removed
  <2>2. list_remove(l, k).ret = 0
    <3>1. PICK i \in 1..Len(l.head) : l.head[i].key = k
      BY <1>2 DEF KeysOf
    <3>2. i \in NodesOf(l, k) /\ l.head # <<>>
      BY <1>1, <3>1, ListEntries DEF NodesOf
    <3> QED BY <3>2 DEF list_remove
  <2>3. /\ list_remove(l, k).list \in List
        /\ KeysOf(l) \ {k} \subseteq KeysOf(list_remove(l, k).list)
    BY <1>1, RemoveKeeps
  <2>4. WellFormedList(l, SlotOf(c)) => WellFormedList(list_remove(l, k).list, SlotOf(c))
    BY <1>1, ListRemove
  <2> QED BY <2>1, <2>2, <2>3, <2>4
<1>3. CASE k \notin KeysOf(l)
  <2>1. PICK ret : r = [list |-> l, ret |-> ret]
    BY <1>3 DEF Removed
  <2>2. r.list = l
    BY <2>1
  <2> QED BY <1>1, <2>2
<1> QED BY <1>2, <1>3

LEMMA InsertedKeeps ==
  ASSUME TypeOK, NEW c \in Client, srv[c] \in Server, h[c].msg \in Message,
         NEW l \in Inserted(c)
  PROVE  /\ l \in List
         /\ KeysOf(SlotList(c)) \subseteq KeysOf(l)
         /\ InFlight(c) = {Insertion(c)} /\ WellFormedList(SlotList(c), SlotOf(c))
              => WellFormedList(l, SlotOf(c))
<1> DEFINE entry(f) == [key |-> f[2].key, value |-> f[2].value]
<1>1. /\ SlotList(c) \in List /\ h[c].msg.key \in Key /\ SlotOf(c) \in Slot
      /\ SlotOf(c) = Hash[h[c].msg.key]
  BY SlotStep DEF SlotOf
<1>2. \A f \in Client \X Message : entry(f) \in Entry
  BY DEF Message, Entry
<1>3. /\ InFlight(c) \subseteq Client \X Message
      /\ Insertion(c) \in Client \X Message /\ Insertion(c)[2] = h[c].msg
  BY DEF InFlight, TypeOK, Insertion
<1>4. CASE InFlight(c) = {Insertion(c)}
  <2> DEFINE e == entry(Insertion(c))
  <2>1. l = list_add(SlotList(c), e).list
    BY <1>4 DEF Inserted
  <2>2. e \in Entry /\ e.key = h[c].msg.key
    BY <1>2, <1>3
  <2> HIDE DEF e
  <2>3. l \in List /\ KeysOf(SlotList(c)) \subseteq KeysOf(l)
    BY <1>1, <2>1, <2>2, AddKeeps
  <2>4. WellFormedList(SlotList(c), SlotOf(c)) => WellFormedList(l, SlotOf(c))
    BY <1>1, <2>1, <2>2, ListAdd
  <2> QED BY <2>3, <2>4
<1>5. CASE InFlight(c) # {Insertion(c)}
  <2> DEFINE new == {entry(f) : f \in InFlight(c)}
  <2>1. l \in Overlapped(SlotList(c), new)
    BY <1>5 DEF Inserted
  <2>2. new \in SUBSET Entry
    BY <1>2, <1>3
  <2> HIDE DEF new
  <2> QED BY <1>1, <1>5, <2>1, <2>2, OverlappedKeeps
<1> QED BY <1>4, <1>5

(* What the end of a list call knows of its thread. *)
LEMMA CallerOf ==
  ASSUME TypeOK, Attached, NEW c \in Client, h[c].pc \in Busy
  PROVE  srv[c] \in Server /\ h[c].msg \in Message
BY DEF TypeOK, Attached, Busy, CallPc

(* list_remove, in table_put or in table_remove, returns.                  *)
Removal(c) ==
  /\ PutRemove(c) \/ Delete(c)
  /\ ~Die(srv[c])

LEMMA RemovalStep ==
  ASSUME TypeOK, Attached, NEW c \in Client, Removal(c)
  PROVE  /\ h[c].pc \in CallPc /\ h[c].inside
         /\ UNCHANGED <<srv, clientVars, up, connected, overlaps, link, req, rep>>
         /\ \E r \in Removed(c) :
              /\ SetSlot(c, r.list)
              /\ \/ h[c].pc = "put_remove" /\ Goto(c, "put_add")
                 \/ h[c].pc = "del" /\ r.ret = 0 /\ Answer(c, "ok", "post")
                 \/ h[c].pc = "del" /\ r.ret # 0 /\ Answer(c, "error", "send")
<1>1. CASE PutRemove(c)
  BY <1>1 DEF Removal, PutRemove, InCall, HandlerStep, CallPc
<1>2. CASE Delete(c)
  BY <1>2 DEF Removal, Delete, InCall, HandlerStep, CallPc
<1> QED BY <1>1, <1>2 DEF Removal

LEMMA RemovalTypeInv ==
  ASSUME TypeInv, NEW c \in Client, Removal(c)
  PROVE  TypeInv'
<1>0. TypeOK /\ Attached /\ WellFormed /\ Inserting
  BY DEF TypeInv
<1>1. /\ h' \in [Client -> Thread]
      /\ h'[c].pc \in Busy => h'[c].msg \in Message
      /\ ~h'[c].inside /\ h[c].pc # "none"
      /\ \A d \in Client : d # c => h'[d] = h[d]
  BY <1>0, MovedThread DEF Removal, ListEnd
<1>2. /\ h[c].pc \in Busy
      /\ UNCHANGED <<srv, clientVars, up, connected, overlaps, link, req, rep>>
  BY <1>0, RemovalStep DEF Busy
<1>3. PICK r \in Removed(c) : SetSlot(c, r.list)
  BY <1>0, RemovalStep
<1>4. srv[c] \in Server /\ h[c].msg \in Message
  BY <1>0, <1>2, CallerOf
<1>5. /\ r.list \in List
      /\ WellFormedList(SlotList(c), SlotOf(c)) => WellFormedList(r.list, SlotOf(c))
  BY <1>0, <1>4, RemovedKeeps
<1>6. /\ tbl' \in [Server -> TableType]
      /\ \A q \in Server, i \in Slot :
           tbl'[q][i] = IF q = srv[c] /\ i = SlotOf(c) THEN r.list ELSE tbl[q][i]
  BY <1>0, <1>3, <1>4, <1>5, SlotStep
<1>7. TypeOK'
  <2>1. \A d \in Client : h'[d].pc \in Busy => h'[d].msg \in Message
    BY <1>0, <1>1 DEF TypeOK
  <2> QED BY <1>0, <1>1, <1>2, <1>6, <2>1 DEF TypeOK, clientVars, overlaps
<1>8. Attached'
  BY <1>0, <1>1, <1>2 DEF Attached, clientVars
<1>9. WellFormed'
  BY <1>0, <1>2, <1>5, <1>6 DEF WellFormed, overlaps, SlotList
<1>10. Inserting'
  BY <1>0, <1>1, <1>2 DEF Inserting, Insertion, overlaps
<1> QED BY <1>7, <1>8, <1>9, <1>10 DEF TypeInv

(* list_add returns, and another one still runs on the list, or not.       *)
LEMMA PutAddStep ==
  ASSUME TypeOK, Attached, NEW c \in Client, PutAdd(c)
  PROVE  /\ h[c].pc = "put_add" /\ h[c].inside
         /\ srv[c] \in Server /\ h[c].msg \in Message
         /\ UNCHANGED <<srv, clientVars, link, req, rep, up, connected, wild>>
         /\ \/ UNCHANGED serverVars
            \/ /\ \A d \in Mates(c) : h[d].pc # "put_add"
               /\ \E l \in Inserted(c) : Settle(c, l)
<1>1. /\ h[c].pc = "put_add" /\ h[c].inside
      /\ UNCHANGED <<srv, clientVars, link, req, rep>>
  BY DEF PutAdd, InCall, HandlerStep
<1>2. \/ UNCHANGED serverVars
      \/ /\ \A d \in Mates(c) : h[d].pc # "put_add"
         /\ \E l \in Inserted(c) : Settle(c, l)
  BY DEF PutAdd
<1>3. UNCHANGED <<up, connected, wild>>
  BY <1>2 DEF Settle, serverVars, overlaps
<1>4. srv[c] \in Server /\ h[c].msg \in Message
  BY <1>1, CallerOf DEF Busy, CallPc
<1> QED BY <1>1, <1>2, <1>3, <1>4

(* It leaves the process alone. *)
LEMMA PutAddEnds ==
  ASSUME TypeOK, Attached, NEW c \in Client, PutAdd(c)
  PROVE  ListEnd(c)
<1>1. h[c].msg \in Message
  BY PutAddStep
<1>2. h'[c].pc = "send"
  <2>1. Becomes(c, "send", h[c].msg, "ok")
    BY AnswerBecomes DEF PutAdd
  <2>2. "send" \in Pc /\ "ok" \in Code
    BY DEF Pc, Busy, Code
  <2> QED BY <1>1, <2>1, <2>2, BecomesThread
<1>3. Die(srv[c]) => h'[c] = NoThread
  BY DEF Die
<1> QED BY <1>2, <1>3 DEF NoThread, Outside, ListEnd

LEMMA PutAddTypeInv ==
  ASSUME TypeInv, NEW c \in Client, PutAdd(c)
  PROVE  TypeInv'
<1>0. TypeOK /\ Attached /\ WellFormed /\ Inserting
  BY DEF TypeInv
<1>s. /\ h[c].pc = "put_add" /\ h[c].inside
      /\ srv[c] \in Server /\ h[c].msg \in Message
      /\ UNCHANGED <<srv, clientVars, link, req, rep, up, connected, wild>>
  BY <1>0, PutAddStep
<1>1. /\ h' \in [Client -> Thread]
      /\ h'[c].pc \in Busy => h'[c].msg \in Message
      /\ ~h'[c].inside /\ h[c].pc # "none"
      /\ \A d \in Client : d # c => h'[d] = h[d]
  BY <1>0, PutAddEnds, MovedThread
<1>2. \A d \in Client : h'[d].pc \in Busy => h'[d].msg \in Message
  BY <1>0, <1>1 DEF TypeOK
<1>3. Attached'
  BY <1>0, <1>s, <1>1 DEF Attached, clientVars
<1>4. CASE UNCHANGED serverVars
  <2>1. TypeOK'
    BY <1>0, <1>s, <1>1, <1>2, <1>4 DEF TypeOK, clientVars, serverVars, overlaps
  <2>2. WellFormed' /\ Inserting'
    BY <1>0, <1>s, <1>1, <1>4 DEF WellFormed, Inserting, Insertion, serverVars, overlaps
  <2> QED BY <1>3, <2>1, <2>2 DEF TypeInv
<1>5. ASSUME \A d \in Mates(c) : h[d].pc # "put_add", NEW l \in Inserted(c), Settle(c, l)
      PROVE  TypeInv'
  <2>1. /\ l \in List
        /\ InFlight(c) = {Insertion(c)} /\ WellFormedList(SlotList(c), SlotOf(c))
             => WellFormedList(l, SlotOf(c))
    BY <1>0, <1>s, InsertedKeeps
  <2>2. /\ SlotOf(c) \in Slot
        /\ tbl' \in [Server -> TableType]
        /\ \A q \in Server, i \in Slot :
             tbl'[q][i] = IF q = srv[c] /\ i = SlotOf(c) THEN l ELSE tbl[q][i]
    BY <1>0, <1>s, <1>5, <2>1, SlotStep DEF Settle
  <2>3. /\ flight' = [flight EXCEPT ![srv[c]] = @ \ InFlight(c)]
        /\ raced' = [raced EXCEPT ![srv[c]] =
             IF InFlight(c) = {Insertion(c)} THEN @ ELSE @ \cup {SlotOf(c)}]
        /\ lost' = [lost EXCEPT ![srv[c]] =
             (@ \ KeysIn(InFlight(c))) \cup (KeysIn(InFlight(c)) \ KeysOf(l))]
    BY <1>5 DEF Settle
  <2>4. KeysIn(InFlight(c)) \subseteq Key
    BY <1>0, <1>s DEF TypeOK, KeysIn, InFlight, Message
  <2>5. /\ flight' \in [Server -> SUBSET (Client \X Message)]
        /\ raced' \in [Server -> SUBSET Slot] /\ lost' \in [Server -> SUBSET Key]
    <3>1. flight' \in [Server -> SUBSET (Client \X Message)]
      BY <1>0, <2>3 DEF TypeOK
    <3>2. raced' \in [Server -> SUBSET Slot]
      BY <1>0, <2>2, <2>3 DEF TypeOK
    <3>3. lost' \in [Server -> SUBSET Key]
      BY <1>0, <2>3, <2>4 DEF TypeOK
    <3> QED BY <3>1, <3>2, <3>3
  <2>6. TypeOK'
    BY <1>0, <1>s, <1>1, <1>2, <2>2, <2>5 DEF TypeOK, clientVars
  <2>7. WellFormed'
    <3> SUFFICES ASSUME NEW q \in Server, NEW i \in Slot, ~wild[q], i \notin raced'[q]
                 PROVE  WellFormedList(tbl'[q][i], i)
      BY <1>s DEF WellFormed
    <3>1. i \notin raced[q]
      BY <1>0, <2>3 DEF TypeOK
    <3>2. WellFormedList(tbl[q][i], i)
      BY <1>0, <3>1 DEF WellFormed
    <3>3. CASE q = srv[c] /\ i = SlotOf(c)
      <4>1. InFlight(c) = {Insertion(c)}
        BY <1>0, <2>3, <3>3 DEF TypeOK
      <4> QED BY <2>1, <2>2, <3>2, <3>3, <4>1 DEF SlotList
    <3>4. CASE ~(q = srv[c] /\ i = SlotOf(c))
      BY <2>2, <3>2, <3>4
    <3> QED BY <3>3, <3>4
  <2>8. Inserting'
    <3> SUFFICES ASSUME NEW d \in Client, h'[d].pc = "put_add", h'[d].inside
                 PROVE  Insertion(d)' \in flight'[srv[d]]
      BY <1>s DEF Inserting
    <3>1. d # c /\ h'[d] = h[d]
      BY <1>1
    <3>2. Insertion(d) \in flight[srv[d]] /\ srv[d] \in Server /\ Insertion(d)[2] = h[d].msg
      BY <1>0, <3>1 DEF Inserting, Attached, Insertion
    <3>3. srv[d] = srv[c] => Insertion(d) \notin InFlight(c)
      BY <1>5, <3>1, <3>2 DEF Mates, InFlight, SlotOf
    <3>4. Insertion(d) \in flight'[srv[d]]
      BY <1>0, <2>3, <3>2, <3>3 DEF TypeOK
    <3> QED BY <3>1, <3>4 DEF Insertion
  <2> QED BY <1>3, <2>6, <2>7, <2>8 DEF TypeInv
<1> QED BY <1>0, <1>4, <1>5, PutAddStep

(* The begin of a list call, when it does not overlap one that frees       *)
(* memory under it.                                                        *)
Enters(c) ==
  LET s   == srv[c]
      new == IF h[c].pc = "put_add" THEN {Insertion(c)} ELSE {}
  IN  /\ flight' = [flight EXCEPT ![s] = @ \cup new]
      /\ h' = [d \in Client |->
           IF d = c THEN Calling(c, KeysIn(InFlight(c)))
           ELSE IF d \in Mates(c) THEN Calling(d, h[d].met \cup KeysIn(new))
           ELSE h[d]]
      /\ UNCHANGED <<tbl, wild, raced, lost>>

LEMMA BeginStep ==
  ASSUME TypeOK, Attached, NEW c \in Client, Begin(c)
  PROVE  /\ h[c].pc \in CallPc /\ ~h[c].inside /\ ~wild[srv[c]]
         /\ srv[c] \in Server /\ h[c].msg \in Message
         /\ UNCHANGED <<up, connected, netVars, clientVars>>
         /\ Spoil(srv[c]) \/ Enters(c)
<1>1. /\ h[c].pc \in CallPc /\ ~h[c].inside /\ ~wild[srv[c]]
      /\ UNCHANGED <<up, connected, netVars, clientVars>>
  BY DEF Begin
<1>2. Spoil(srv[c]) \/ Enters(c)
  BY DEF Begin, Enters
<1> QED BY <1>1, <1>2, CallerOf DEF Busy

LEMMA SpoilThreads ==
  ASSUME TypeOK, NEW s \in Server, Spoil(s)
  PROVE  /\ h' \in [Client -> Thread]
         /\ \A d \in Client :
              /\ h'[d].pc = h[d].pc /\ h'[d].msg = h[d].msg /\ h'[d].code = h[d].code
              /\ srv[d] = s => ~h'[d].inside
              /\ srv[d] # s => h'[d] = h[d]
<1>1. \A d \in Client : h[d] \in Thread
  BY DEF TypeOK
<1>2. \A d \in Client : /\ Outside(h[d].pc, h[d].msg, h[d].code) \in Thread
                        /\ Outside(h[d].pc, h[d].msg, h[d].code).pc = h[d].pc
                        /\ Outside(h[d].pc, h[d].msg, h[d].code).msg = h[d].msg
                        /\ Outside(h[d].pc, h[d].msg, h[d].code).code = h[d].code
                        /\ ~Outside(h[d].pc, h[d].msg, h[d].code).inside
  BY <1>1 DEF Outside, Thread
<1> QED BY <1>1, <1>2 DEF Spoil

LEMMA EntersThreads ==
  ASSUME TypeOK, NEW c \in Client, Enters(c), srv[c] \in Server, h[c].msg \in Message
  PROVE  /\ h' \in [Client -> Thread]
         /\ \A d \in Client :
              /\ h'[d].pc = h[d].pc /\ h'[d].msg = h[d].msg /\ h'[d].code = h[d].code
              /\ d # c => (h'[d].inside <=> h[d].inside)
         /\ flight' \in [Server -> SUBSET (Client \X Message)]
         /\ \A s \in Server : flight[s] \subseteq flight'[s]
         /\ h[c].pc = "put_add" => Insertion(c) \in flight'[srv[c]]
<1> DEFINE new == IF h[c].pc = "put_add" THEN {Insertion(c)} ELSE {}
<1>1. \A d \in Client : h[d] \in Thread /\ h[d].met \subseteq Key
  BY DEF TypeOK, Thread
<1>2. new \subseteq Client \X Message
  BY DEF Insertion
<1>3. KeysIn(new) \subseteq Key /\ KeysIn(InFlight(c)) \subseteq Key
  BY <1>2 DEF KeysIn, InFlight, TypeOK, Message
<1>4. \A d \in Client, met \in SUBSET Key :
        /\ Calling(d, met) \in Thread
        /\ Calling(d, met).pc = h[d].pc /\ Calling(d, met).msg = h[d].msg
        /\ Calling(d, met).code = h[d].code /\ Calling(d, met).inside
  BY <1>1 DEF Calling, Thread
<1>5. /\ flight' = [flight EXCEPT ![srv[c]] = @ \cup new]
      /\ h' = [d \in Client |->
           IF d = c THEN Calling(c, KeysIn(InFlight(c)))
           ELSE IF d \in Mates(c) THEN Calling(d, h[d].met \cup KeysIn(new))
           ELSE h[d]]
  BY DEF Enters
<1>6. \A d \in Mates(c) : d \in Client /\ h[d].inside
  BY DEF Mates
<1>7. Insertion(c) \in new <=> h[c].pc = "put_add"
  OBVIOUS
<1> HIDE DEF new
<1>8. \A d \in Client : h[d].met \cup KeysIn(new) \in SUBSET Key
  BY <1>1, <1>3
<1>9. /\ h' \in [Client -> Thread]
      /\ \A d \in Client :
           /\ h'[d].pc = h[d].pc /\ h'[d].msg = h[d].msg /\ h'[d].code = h[d].code
           /\ d # c => (h'[d].inside <=> h[d].inside)
  <2>1. \A d \in Client : h'[d] = IF d = c THEN Calling(c, KeysIn(InFlight(c)))
                                  ELSE IF d \in Mates(c) THEN Calling(d, h[d].met \cup KeysIn(new))
                                  ELSE h[d]
    BY <1>5
  <2>2. \A d \in Client : h'[d] \in Thread
    BY <1>1, <1>3, <1>4, <1>8, <2>1
  <2>3. h' \in [Client -> Thread]
    BY <1>5, <2>2
  <2>4. ASSUME NEW d \in Client
        PROVE  /\ h'[d].pc = h[d].pc /\ h'[d].msg = h[d].msg /\ h'[d].code = h[d].code
               /\ d # c => (h'[d].inside <=> h[d].inside)
    <3>1. CASE d = c
      <4>1. h'[c] = Calling(c, KeysIn(InFlight(c)))
        BY <2>1
      <4> QED BY <1>3, <1>4, <3>1, <4>1
    <3>2. CASE d # c /\ d \in Mates(c)
      <4>1. h'[d] = Calling(d, h[d].met \cup KeysIn(new))
        BY <2>1, <3>2
      <4> QED BY <1>4, <1>6, <1>8, <3>2, <4>1
    <3>3. CASE d # c /\ d \notin Mates(c)
      BY <2>1, <3>3
    <3> QED BY <3>1, <3>2, <3>3
  <2> QED BY <2>3, <2>4
<1>10. /\ flight' \in [Server -> SUBSET (Client \X Message)]
       /\ \A s \in Server : flight[s] \subseteq flight'[s]
       /\ h[c].pc = "put_add" => Insertion(c) \in flight'[srv[c]]
  <2>1. flight \in [Server -> SUBSET (Client \X Message)]
    BY DEF TypeOK
  <2>2. \A s \in Server : flight'[s] = IF s = srv[c] THEN flight[s] \cup new ELSE flight[s]
    BY <1>5, <2>1
  <2>3. \A s \in Server : flight'[s] \in SUBSET (Client \X Message)
    BY <1>2, <2>1, <2>2
  <2>4. flight' \in [Server -> SUBSET (Client \X Message)]
    BY <1>5, <2>1, <2>3
  <2> QED BY <1>7, <2>2, <2>4
<1> QED BY <1>9, <1>10

LEMMA BeginTypeInv ==
  ASSUME TypeInv, NEW c \in Client, Begin(c)
  PROVE  TypeInv'
<1>0. TypeOK /\ Attached /\ WellFormed /\ Inserting
  BY DEF TypeInv
<1>1. /\ srv[c] \in Server /\ h[c].msg \in Message
      /\ UNCHANGED <<up, connected, netVars, clientVars>>
      /\ Spoil(srv[c]) \/ Enters(c)
  BY <1>0, BeginStep
<1>2. CASE Spoil(srv[c])
  <2>1. /\ h' \in [Client -> Thread]
        /\ \A d \in Client :
              /\ h'[d].pc = h[d].pc /\ h'[d].msg = h[d].msg
              /\ srv[d] = srv[c] => ~h'[d].inside
              /\ srv[d] # srv[c] => h'[d] = h[d]
    BY <1>0, <1>1, <1>2, SpoilThreads
  <2>2. /\ tbl' \in [Server -> TableType] /\ wild' \in [Server -> BOOLEAN]
        /\ flight' \in [Server -> SUBSET (Client \X Message)]
        /\ raced' \in [Server -> SUBSET Slot] /\ lost' \in [Server -> SUBSET Key]
    BY <1>0, <1>1, <1>2, TableCreate DEF Spoil, TypeOK, WellFormedTable
  <2>3. TypeOK' /\ Attached'
    BY <1>0, <1>1, <2>1, <2>2 DEF TypeOK, Attached, netVars, clientVars
  <2>4. WellFormed'
    <3> SUFFICES ASSUME NEW q \in Server, NEW i \in Slot, ~wild'[q], i \notin raced'[q]
                 PROVE  WellFormedList(tbl'[q][i], i)
      BY DEF WellFormed
    <3>1. q # srv[c]
      BY <1>0, <1>1, <1>2 DEF Spoil, TypeOK
    <3> QED BY <1>0, <1>2, <3>1 DEF Spoil, TypeOK, WellFormed
  <2>5. Inserting'
    <3> SUFFICES ASSUME NEW d \in Client, h'[d].pc = "put_add", h'[d].inside
                 PROVE  Insertion(d)' \in flight'[srv[d]]
      BY <1>1 DEF Inserting, netVars
    <3>1. srv[d] # srv[c] /\ h'[d] = h[d] /\ srv[d] \in Server
      BY <1>0, <2>1 DEF Attached
    <3> QED BY <1>0, <1>2, <3>1 DEF Spoil, TypeOK, Inserting, Insertion
  <2> QED BY <2>3, <2>4, <2>5 DEF TypeInv
<1>3. CASE Enters(c)
  <2>1. /\ h' \in [Client -> Thread]
        /\ \A d \in Client :
              /\ h'[d].pc = h[d].pc /\ h'[d].msg = h[d].msg
              /\ d # c => (h'[d].inside <=> h[d].inside)
        /\ flight' \in [Server -> SUBSET (Client \X Message)]
        /\ \A s \in Server : flight[s] \subseteq flight'[s]
        /\ h[c].pc = "put_add" => Insertion(c) \in flight'[srv[c]]
    BY <1>0, <1>1, <1>3, EntersThreads
  <2>2. UNCHANGED <<tbl, wild, raced, lost>>
    BY <1>3 DEF Enters
  <2>3. TypeOK' /\ Attached'
    BY <1>0, <1>1, <2>1, <2>2 DEF TypeOK, Attached, netVars, clientVars
  <2>4. WellFormed'
    BY <1>0, <2>2 DEF WellFormed
  <2>5. Inserting'
    <3> SUFFICES ASSUME NEW d \in Client, h'[d].pc = "put_add", h'[d].inside
                 PROVE  Insertion(d)' \in flight'[srv[d]]
      BY <1>1 DEF Inserting, netVars
    <3>1. h[d].pc = "put_add" /\ Insertion(d)' = Insertion(d) /\ srv[d] \in Server
      BY <1>0, <2>1 DEF Insertion, Attached
    <3>2. Insertion(d) \in flight[srv[d]] \/ d = c
      BY <1>0, <2>1, <3>1 DEF Inserting
    <3> QED BY <2>1, <3>1, <3>2
  <2> QED BY <2>3, <2>4, <2>5 DEF TypeInv
<1> QED BY <1>1, <1>2, <1>3

(* Every step of a handler is of one of these kinds. *)
LEMMA HandlerCases ==
  ASSUME TypeOK, Attached, NEW c \in Client, Handler(c) \/ Misused(c)
  PROVE  \/ Quiet(c) \/ Removal(c) \/ PutAdd(c) \/ Begin(c)
         \/ srv[c] \in Server /\ Die(srv[c]) /\ UNCHANGED clientVars /\ h[c].pc \in Busy
<1>1. CASE Quiet(c) \/ Removal(c) \/ PutAdd(c) \/ Begin(c)
  BY <1>1
<1>2. CASE PostDelete(c)
  BY <1>2, CallerOf DEF PostDelete, HandlerStep, Busy
<1>3. CASE SendToClosed(c) /\ Die(srv[c])
  BY <1>3, CallerOf DEF SendToClosed, HandlerStep, Busy
<1>4. CASE (PutRemove(c) \/ Delete(c)) /\ Die(srv[c])
  BY <1>4, CallerOf DEF PutRemove, Delete, InCall, HandlerStep, Busy, CallPc
<1> QED BY <1>1, <1>2, <1>3, <1>4 DEF Handler, Serve, Quiet, Removal

(* The steps of a client. *)
LEMMA ClientTypes ==
  ASSUME TypeInv, NEW c \in Client,
         \/ \E s \in Server : Connect(c, s) \/ ConnectRefused(c, s)
         \/ Command(c) \/ Read(c) \/ Timeout(c) \/ Quit(c)
  PROVE  (TypeOK /\ Attached)'
<1>0. /\ TypeOK /\ Attached
      /\ h \in [Client -> Thread] /\ h[c] \in Thread
  BY DEF TypeInv, TypeOK
<1>1. ASSUME NEW s \in Server, Connect(c, s) PROVE (TypeOK /\ Attached)'
  <2>1. /\ h' \in [Client -> Thread] /\ h'[c].pc = "backlog"
        /\ \A d \in Client : d # c => h'[d] = h[d]
    <3>1. Becomes(c, "backlog", NULL, "error")
      BY <1>1 DEF Connect, Becomes
    <3>2. "backlog" \in Pc /\ "error" \in Code
      BY DEF Pc, Code
    <3> QED BY <1>0, <3>1, <3>2, BecomesThread
  <2>2. \A d \in Client : h'[d].pc \in Busy => h'[d].msg \in Message
    BY <1>0, <2>1 DEF TypeOK, Busy, CallPc
  <2>7. TypeOK'
    BY <1>0, <1>1, <2>1, <2>2 DEF Connect, ClientStep, TypeOK, LinkState, ClientState, serverVars, overlaps
  <2>8. Attached'
    BY <1>0, <1>1, <2>1 DEF Connect, ClientStep, Attached, TypeOK, serverVars, overlaps
  <2> QED BY <2>7, <2>8
<1>2. ASSUME NEW s \in Server, ConnectRefused(c, s) PROVE (TypeOK /\ Attached)'
  <2>7. TypeOK'
    BY <1>0, <1>2 DEF ConnectRefused, ClientStep, TypeOK, LinkState, ClientState, serverVars, overlaps, netVars
  <2>8. Attached'
    BY <1>0, <1>2 DEF ConnectRefused, ClientStep, Attached, TypeOK, netVars, serverVars, overlaps
  <2> QED BY <2>7, <2>8
<1>3. ASSUME NEW op \in Op, NEW k \in Key, NEW v \in Value, Send(c, op, k, v)
      PROVE  (TypeOK /\ Attached)'
  <2>1. Request(c, op, k, v) \in Message /\ sent[c] + 1 \in 0..MaxSent
    BY <1>0, <1>3, ServerAssumption DEF Send, TypeOK, Request, Message
  <2>7. TypeOK'
    <3> DEFINE r == Request(c, op, k, v)
    <3> HIDE DEF r
    <3>1. cur' = [cur EXCEPT ![c] = r] /\ r \in Message
      BY <1>3, <2>1 DEF Send, r
    <3>2. req' \in [Client -> Seq(Message)]
      BY <1>0, <1>3, <3>1 DEF Send, TypeOK, r
    <3>3. sent' \in [Client -> 0..MaxSent]
      BY <1>0, <1>3, <2>1 DEF Send, TypeOK
    <3>4. cur' \in [Client -> Message \cup {NULL}]
      BY <1>0, <3>1 DEF TypeOK
    <3>5. cl' \in [Client -> ClientState] /\ link' \in [Client -> LinkState]
          /\ res' \in [Client -> {NONE, "ok", "fail"}]
      BY <1>0, <1>3 DEF Send, TypeOK, ClientState, LinkState
    <3> QED BY <1>0, <1>3, <3>2, <3>3, <3>4, <3>5
            DEF Send, ClientStep, TypeOK, serverVars, overlaps
  <2>8. Attached'
    BY <1>0, <1>3 DEF Send, ClientStep, Attached, TypeOK, netVars, serverVars, overlaps
  <2> QED BY <2>7, <2>8
<1>4. ASSUME NEW op \in Op, NEW k \in Key, NEW v \in Value, SendToDead(c, op, k, v)
      PROVE  (TypeOK /\ Attached)'
  <2>1. Request(c, op, k, v) \in Message /\ sent[c] + 1 \in 0..MaxSent
    BY <1>0, <1>4, ServerAssumption DEF SendToDead, TypeOK, Request, Message
  <2>7. TypeOK'
    <3> DEFINE r == Request(c, op, k, v)
    <3> HIDE DEF r
    <3>1. /\ cur' = [cur EXCEPT ![c] = r] \/ cur' = [cur EXCEPT ![c] = NULL]
          /\ r \in Message
      BY <1>4, <2>1 DEF SendToDead, Ends, r
    <3>2. req' \in [Client -> Seq(Message)]
      BY <1>0, <1>4, <3>1 DEF SendToDead, TypeOK, r
    <3>3. sent' \in [Client -> 0..MaxSent]
      BY <1>0, <1>4, <2>1 DEF SendToDead, TypeOK
    <3>4. cur' \in [Client -> Message \cup {NULL}]
      BY <1>0, <3>1 DEF TypeOK
    <3>5. cl' \in [Client -> ClientState] /\ link' \in [Client -> LinkState]
          /\ res' \in [Client -> {NONE, "ok", "fail"}]
      BY <1>0, <1>4 DEF SendToDead, Ends, TypeOK, ClientState, LinkState
    <3> QED BY <1>0, <1>4, <3>2, <3>3, <3>4, <3>5
            DEF SendToDead, ClientStep, TypeOK, serverVars, overlaps
  <2>8. Attached'
    BY <1>0, <1>4 DEF SendToDead, Ends, ClientStep, Attached, TypeOK, netVars, serverVars, overlaps
  <2> QED BY <2>7, <2>8
<1>5. CASE ReadReply(c)
  <2>7. TypeOK'
    <3>1. /\ cl' \in [Client -> ClientState] /\ link' \in [Client -> LinkState]
          /\ res' \in [Client -> {NONE, "ok", "fail"}]
      BY <1>0, <1>5 DEF ReadReply, TypeOK, ClientState, LinkState, netVars
    <3>2. rep' \in [Client -> Seq(Reply)]
      BY <1>0, <1>5 DEF ReadReply, TypeOK, netVars
    <3> QED BY <1>0, <1>5, <3>1, <3>2 DEF ReadReply, ClientStep, TypeOK, serverVars, overlaps, netVars
  <2>8. Attached'
    BY <1>0, <1>5 DEF ReadReply, ClientStep, Attached, TypeOK, netVars, serverVars, overlaps
  <2> QED BY <2>7, <2>8
<1>6. CASE ReadReset(c)
  <2>7. TypeOK'
    <3>1. /\ cl' \in [Client -> ClientState] /\ link' \in [Client -> LinkState]
          /\ res' \in [Client -> {NONE, "ok", "fail"}]
      BY <1>0, <1>6 DEF ReadReset, CallFails, TypeOK, ClientState, LinkState, netVars
    <3>2. rep' \in [Client -> Seq(Reply)]
      BY <1>0, <1>6 DEF ReadReset, CallFails, TypeOK, netVars
    <3> QED BY <1>0, <1>6, <3>1, <3>2 DEF ReadReset, CallFails, ClientStep, TypeOK, serverVars, overlaps, netVars
  <2>8. Attached'
    BY <1>0, <1>6 DEF ReadReset, CallFails, ClientStep, Attached, TypeOK, netVars, serverVars, overlaps
  <2> QED BY <2>7, <2>8
<1>7. CASE ReadEnd(c)
  <2>7. TypeOK'
    <3>1. /\ cl' \in [Client -> ClientState] /\ link' \in [Client -> LinkState]
          /\ res' \in [Client -> {NONE, "ok", "fail"}]
      BY <1>0, <1>7 DEF ReadEnd, TypeOK, ClientState, LinkState, netVars
    <3>2. rep' \in [Client -> Seq(Reply)]
      BY <1>0, <1>7 DEF ReadEnd, TypeOK, netVars
    <3> QED BY <1>0, <1>7, <3>1, <3>2 DEF ReadEnd, ClientStep, TypeOK, serverVars, overlaps, netVars
  <2>8. Attached'
    BY <1>0, <1>7 DEF ReadEnd, ClientStep, Attached, TypeOK, netVars, serverVars, overlaps
  <2> QED BY <2>7, <2>8
<1>8. CASE Timeout(c)
  <2>7. TypeOK'
    <3>1. /\ cl' \in [Client -> ClientState] /\ link' \in [Client -> LinkState]
          /\ res' \in [Client -> {NONE, "ok", "fail"}]
      BY <1>0, <1>8 DEF Timeout, CallFails, TypeOK, ClientState, LinkState, netVars
    <3>2. rep' \in [Client -> Seq(Reply)]
      BY <1>0, <1>8 DEF Timeout, CallFails, TypeOK, netVars
    <3> QED BY <1>0, <1>8, <3>1, <3>2 DEF Timeout, CallFails, ClientStep, TypeOK, serverVars, overlaps, netVars
  <2>8. Attached'
    BY <1>0, <1>8 DEF Timeout, CallFails, ClientStep, Attached, TypeOK, netVars, serverVars, overlaps
  <2> QED BY <2>7, <2>8
<1>9. CASE Quit(c)
  <2>7. TypeOK'
    <3>1. /\ cl' \in [Client -> ClientState] /\ link' \in [Client -> LinkState]
          /\ res' \in [Client -> {NONE, "ok", "fail"}]
      BY <1>0, <1>9 DEF Quit, Ends, TypeOK, ClientState, LinkState
    <3>2. rep' \in [Client -> Seq(Reply)]
      BY <1>0, <1>9 DEF Quit, TypeOK, netVars
    <3> QED BY <1>0, <1>9, <3>1, <3>2 DEF Quit, Ends, ClientStep, TypeOK, serverVars, overlaps, netVars
  <2>8. Attached'
    BY <1>0, <1>9 DEF Quit, Ends, ClientStep, Attached, TypeOK, netVars, serverVars, overlaps
  <2> QED BY <2>7, <2>8
<1> QED BY <1>1, <1>2, <1>3, <1>4, <1>5, <1>6, <1>7, <1>8, <1>9 DEF Command, Read


ClientMove(c) ==
  \/ \E s \in Server : Connect(c, s) \/ ConnectRefused(c, s)
  \/ Command(c) \/ Read(c) \/ Timeout(c) \/ Quit(c)

(* It leaves the servers and their threads alone, but for the connection   *)
(* that it opens.                                                          *)
LEMMA ClientFrame ==
  ASSUME TypeOK, Attached, NEW c \in Client, ClientMove(c)
  PROVE  /\ UNCHANGED serverVars
         /\ \/ /\ h' = h /\ srv' = srv
               /\ \A d \in Client : d # c => link'[d] = link[d] /\ rep'[d] = rep[d]
            \/ /\ \E s \in Server : Connect(c, s)
               /\ h[c].pc = "none" /\ h'[c].pc = "backlog" /\ h'[c].met = {} /\ rep' = rep /\ rep[c] = <<>>
               /\ srv'[c] \in Server
               /\ \A d \in Client : d # c =>
                    h'[d] = h[d] /\ srv'[d] = srv[d] /\ link'[d] = link[d]
<1>0. /\ h \in [Client -> Thread] /\ srv \in [Client -> Server \cup {NONE}]
      /\ link \in [Client -> LinkState] /\ rep \in [Client -> Seq(Reply)]
  BY DEF TypeOK
<1>1. ASSUME NEW s \in Server, Connect(c, s) PROVE
               /\ h[c].pc = "none" /\ h'[c].pc = "backlog" /\ h'[c].met = {} /\ rep' = rep /\ rep[c] = <<>>
               /\ srv'[c] \in Server
               /\ \A d \in Client : d # c =>
                    h'[d] = h[d] /\ srv'[d] = srv[d] /\ link'[d] = link[d]
               /\ UNCHANGED serverVars
  <2>1. h'[c].pc = "backlog" /\ h'[c].met = {} /\ \A d \in Client : d # c => h'[d] = h[d]
    <3>1. Becomes(c, "backlog", NULL, "error")
      BY <1>1 DEF Connect, Becomes
    <3>2. "backlog" \in Pc /\ "error" \in Code
      BY DEF Pc, Code
    <3> QED BY <3>1, <3>2, BecomesThread
  <2> QED BY <1>0, <1>1, <2>1 DEF Connect, ClientStep, Attached
<1>2. ASSUME \E s \in Server : ConnectRefused(c, s) PROVE UNCHANGED <<serverVars, h, srv, link, rep>>
  BY <1>2 DEF ConnectRefused, ClientStep, netVars
<1>3. ASSUME Command(c) \/ Read(c) \/ Timeout(c) \/ Quit(c)
      PROVE  /\ UNCHANGED <<serverVars, h, srv>>
             /\ \A d \in Client : d # c => link'[d] = link[d] /\ rep'[d] = rep[d]
  <2>1. CASE Command(c)
    BY <1>0, <2>1 DEF Command, Send, SendToDead, ClientStep
  <2>2. CASE Read(c)
    BY <1>0, <2>2 DEF Read, ReadReply, ReadReset, ReadEnd, CallFails, ClientStep, netVars
  <2>3. CASE Timeout(c)
    BY <1>0, <2>3 DEF Timeout, CallFails, ClientStep
  <2>4. CASE Quit(c)
    BY <1>0, <2>4 DEF Quit
  <2> QED BY <1>3, <2>1, <2>2, <2>3, <2>4
<1> QED BY <1>1, <1>2, <1>3 DEF ClientMove

LEMMA ClientTypeInv ==
  ASSUME TypeInv, NEW c \in Client, ClientMove(c)
  PROVE  TypeInv'
<1>0. TypeOK /\ Attached /\ WellFormed /\ Inserting
  BY DEF TypeInv
<1>1. TypeOK' /\ Attached'
  BY <1>0, ClientTypes DEF ClientMove, TypeInv
<1>2. WellFormed'
  BY <1>0, ClientFrame DEF WellFormed, serverVars, overlaps
<1>3. Inserting'
  <2> SUFFICES ASSUME NEW d \in Client, h'[d].pc = "put_add", h'[d].inside
               PROVE  Insertion(d)' \in flight'[srv'[d]]
    BY DEF Inserting
  <2>1. h'[d] = h[d] /\ srv'[d] = srv[d] /\ flight' = flight
    BY <1>0, ClientFrame DEF serverVars, overlaps
  <2> QED BY <1>0, <2>1 DEF Inserting, Insertion
<1> QED BY <1>1, <1>2, <1>3 DEF TypeInv

LEMMA NextTypeInv == TypeInv /\ [Next]_kvVars => TypeInv'
<1> SUFFICES ASSUME TypeInv, [Next]_kvVars PROVE TypeInv'
  OBVIOUS
<1>1. ASSUME NEW s \in Server, Kill(s) \/ Collapse(s) PROVE TypeInv'
  BY <1>1, DieTypeInv DEF Kill, Collapse
<1>2. ASSUME NEW s \in Server, Start(s) PROVE TypeInv'
  <2>1. up' \in [Server -> BOOLEAN]
    BY <1>2 DEF Start, TypeInv, TypeOK
  <2>2. UNCHANGED <<tbl, connected, overlaps, h, netVars, clientVars>>
    BY <1>2 DEF Start
  <2> QED BY <2>1, <2>2 DEF TypeInv, TypeOK, Attached, WellFormed, Inserting, Insertion,
                            overlaps, netVars, clientVars
<1>3. ASSUME NEW c \in Client, Handler(c) \/ Misused(c) PROVE TypeInv'
  BY <1>3, HandlerCases, QuietTypeInv, RemovalTypeInv, PutAddTypeInv, BeginTypeInv, DieTypeInv
     DEF TypeInv
<1>4. ASSUME NEW c \in Client, ClientMove(c) PROVE TypeInv'
  BY <1>4, ClientTypeInv
<1>5. CASE UNCHANGED kvVars
  BY <1>5 DEF TypeInv, TypeOK, Attached, WellFormed, Inserting, Insertion,
              kvVars, serverVars, overlaps, netVars, clientVars
<1> QED BY <1>1, <1>2, <1>3, <1>4, <1>5 DEF Next, ClientMove

LEMMA SpecTypeInv == Spec => []TypeInv
  BY InitTypeInv, NextTypeInv, PTL DEF Spec

(* Every variable keeps its type; a handler inside invoke has a message.   *)
THEOREM TypeCorrect == Spec => []TypeOK
  BY SpecTypeInv, PTL DEF TypeInv

(* However the list calls of the handler threads interleave or overlap,    *)
(* a slot stays sorted, free of repeated keys and counted, until two       *)
(* insertions into it overlap or memory may have been misused.             *)
THEOREM TablesStayWellFormed == Spec => []WellFormed
  BY SpecTypeInv, PTL DEF TypeInv

-----------------------------------------------------------------------------
(* What the threads and the connections know about the keys.  FoundKeyHeld *)
(* and AnsweredPutHeld are not inductive by themselves: between table_put  *)
(* and its answer, the handler that is about to send "ok" knows its key,   *)
(* and a lookup may find whatever was inserted while it ran.               *)

Knows(c) ==
  /\ h[c].pc = "put_remove" => Kept(srv[c], h[c].msg.key)
  /\ h[c].pc = "send" /\ h[c].code = "ok" => Kept(srv[c], h[c].msg.key)
  /\ \A k \in h[c].met : srv[c] \in Server /\ Kept(srv[c], k)
  /\ link[c] = "open" =>
       /\ srv[c] \in Server
       /\ \A i \in 1..Len(rep[c]) :
            rep[c][i].code = "ok" => Kept(srv[c], rep[c][i].key)

HeldInv == \A c \in Client : Knows(c)

(* No key of the servers in S is lost. *)
Stable(S) == \A s \in S, k \in Key : Kept(s, k) => Kept(s, k)'

(* What keeps a key, other than a thread that is about to insert it or to  *)
(* take the process down.                                                  *)
Has(s, k) ==
  \/ k \in KeysOf(tbl[s][Hash[k]])
  \/ k \in KeysIn(flight[s])
  \/ k \in lost[s]
  \/ wild[s]

Holds(d, s, k) ==
  srv[d] = s /\ h[d].msg.key = k /\ h[d].pc \in {"put_add", "post"}

LEMMA KeptMeans ==
  ASSUME NEW s \in Server, NEW k \in Key
  PROVE  /\ TypeOK => (Kept(s, k) <=> Has(s, k) \/ \E d \in Client : Holds(d, s, k))
         /\ TypeOK' => (Kept(s, k)' <=> Has(s, k)' \/ \E d \in Client : Holds(d, s, k)')
<1>1. Hash[k] \in Slot
  BY TableAssumption DEF Slot
<1>2. TypeOK => (table_get(tbl[s], k) # NULL <=> k \in KeysOf(tbl[s][Hash[k]]))
  <2>1. TypeOK => tbl[s][Hash[k]] \in List
    BY <1>1 DEF TypeOK, TableType
  <2> QED BY <2>1, GetPresent DEF table_get
<1>3. TypeOK' => (table_get(tbl'[s], k) # NULL <=> k \in KeysOf(tbl'[s][Hash[k]]))
  <2>1. TypeOK' => tbl'[s][Hash[k]] \in List
    BY <1>1 DEF TypeOK, TableType
  <2> QED BY <2>1, GetPresent DEF table_get
<1>4. At(s, "put_add", k) # {} \/ At(s, "post", k) # {} <=> \E d \in Client : Holds(d, s, k)
  BY DEF At, Holds
<1>5. (At(s, "put_add", k) # {} \/ At(s, "post", k) # {} <=> \E d \in Client : Holds(d, s, k))'
  BY DEF At, Holds
<1>6. Kept(s, k) <=> \/ table_get(tbl[s], k) # NULL \/ k \in KeysIn(flight[s])
                     \/ At(s, "put_add", k) # {} \/ At(s, "post", k) # {}
                     \/ k \in lost[s] \/ wild[s]
  BY DEF Kept, Held
<1>7. Kept(s, k)' <=> \/ table_get(tbl'[s], k) # NULL \/ k \in KeysIn(flight'[s])
                      \/ At(s, "put_add", k)' # {} \/ At(s, "post", k)' # {}
                      \/ k \in lost'[s] \/ wild'[s]
  BY DEF Kept, Held
<1>8. Has(s, k)' <=> \/ k \in KeysOf(tbl'[s][Hash[k]]) \/ k \in KeysIn(flight'[s])
                     \/ k \in lost'[s] \/ wild'[s]
  BY DEF Has
<1> QED BY <1>2, <1>3, <1>4, <1>5, <1>6, <1>7, <1>8 DEF Has

(* What Knows speaks about has a type. *)
LEMMA KnownKeys ==
  ASSUME TypeInv, NEW c \in Client
  PROVE  /\ h[c].pc \in Busy => srv[c] \in Server /\ h[c].msg.key \in Key
         /\ h[c].met \subseteq Key
         /\ rep[c] \in Seq(Reply) /\ Len(rep[c]) \in Nat
         /\ \A i \in 1..Len(rep[c]) : rep[c][i] \in Reply /\ rep[c][i].key \in Key
<1>1. /\ TypeOK /\ Attached
      /\ h[c].pc \in Busy => h[c].msg \in Message
      /\ rep[c] \in Seq(Reply) /\ h[c] \in Thread
  BY DEF TypeInv, TypeOK
<1>2. \A i \in 1..Len(rep[c]) : rep[c][i] \in Reply
  BY <1>1
<1> QED BY <1>1, <1>2 DEF Attached, Busy, CallPc, Message, Reply, Thread

(* A step that leaves the lists and their overlaps alone, and that is not  *)
(* the end of a window of table_put or table_remove, loses no key.         *)
LEMMA QuietStable ==
  ASSUME TypeInv, TypeInv', NEW c \in Client, UNCHANGED <<tbl, overlaps>>,
         h[c].pc \in {"put_add", "post"} => srv[c] \in Server /\ wild[srv[c]],
         \A d \in Client : d # c => h'[d] = h[d] /\ srv'[d] = srv[d]
  PROVE  Stable(Server)
<1> SUFFICES ASSUME NEW s \in Server, NEW k \in Key, Kept(s, k)
             PROVE  Kept(s, k)'
  BY DEF Stable
<1>1. Has(s, k)' <=> Has(s, k)
  BY DEF Has, overlaps
<1>2. ASSUME NEW d \in Client, Holds(d, s, k) PROVE Has(s, k) \/ Holds(d, s, k)'
  BY <1>2 DEF Holds, Has
<1> QED BY <1>1, <1>2, KeptMeans DEF TypeInv

(* The same of list_remove: what it takes from the list is put back by the *)
(* caller, or its absence takes the process down.                          *)
LEMMA RemovalStable ==
  ASSUME TypeInv, TypeInv', NEW c \in Client, Removal(c)
  PROVE  Stable(Server)
<1>0. TypeOK /\ Attached
  BY DEF TypeInv
<1>1. /\ h[c].pc \in CallPc
      /\ UNCHANGED <<srv, clientVars, up, connected, overlaps, link, req, rep>>
  BY <1>0, RemovalStep
<1>2. srv[c] \in Server /\ h[c].msg \in Message
  BY <1>0, <1>1, CallerOf DEF Busy
<1>3. PICK r \in Removed(c) :
        /\ SetSlot(c, r.list)
        /\ \/ h[c].pc = "put_remove" /\ Goto(c, "put_add")
           \/ h[c].pc = "del" /\ r.ret = 0 /\ Answer(c, "ok", "post")
           \/ h[c].pc = "del" /\ r.ret # 0 /\ Answer(c, "error", "send")
  BY <1>0, RemovalStep
<1>4. /\ r.list \in List
      /\ KeysOf(SlotList(c)) \ {h[c].msg.key} \subseteq KeysOf(r.list)
      /\ r.ret = 0 \/ r.list = SlotList(c)
  BY <1>0, <1>2, RemovedKeeps
<1>5. \A q \in Server, i \in Slot :
        tbl'[q][i] = IF q = srv[c] /\ i = SlotOf(c) THEN r.list ELSE tbl[q][i]
  BY <1>0, <1>2, <1>3, <1>4, SlotStep
<1>6. \/ h'[c].pc \in {"put_add", "post"} /\ h'[c].msg = h[c].msg
      \/ r.list = SlotList(c)
  <2>1. h[c].msg \in Message \cup {NULL} /\ h[c].code \in Code
    BY <1>0 DEF TypeOK, Thread
  <2>2. "put_add" \in Pc /\ "post" \in Pc /\ "ok" \in Code
    BY DEF Pc, Busy, CallPc, Code
  <2>3. Goto(c, "put_add") => h'[c].pc = "put_add" /\ h'[c].msg = h[c].msg
    <3>1. Goto(c, "put_add") => Becomes(c, "put_add", h[c].msg, h[c].code)
      BY <1>0, AnswerBecomes
    <3> QED BY <1>0, <2>1, <2>2, <3>1, BecomesThread
  <2>4. Answer(c, "ok", "post") => h'[c].pc = "post" /\ h'[c].msg = h[c].msg
    <3>1. Answer(c, "ok", "post") => Becomes(c, "post", h[c].msg, "ok")
      BY <1>0, AnswerBecomes
    <3> QED BY <1>0, <2>1, <2>2, <3>1, BecomesThread
  <2> QED BY <1>3, <1>4, <2>3, <2>4
<1>7. \A d \in Client : d # c => h'[d] = h[d]
  BY <1>0, MovedThread DEF Removal, ListEnd
<1> SUFFICES ASSUME NEW s \in Server, NEW k \in Key, Kept(s, k)
             PROVE  Kept(s, k)'
  BY DEF Stable
<1>8. ASSUME Has(s, k) PROVE Has(s, k)' \/ Holds(c, s, k)'
  <2>1. CASE k \in KeysOf(tbl[s][Hash[k]])
    <3>1. Hash[k] \in Slot
      BY TableAssumption DEF Slot
    <3>2. CASE s = srv[c] /\ Hash[k] = SlotOf(c)
      <4>1. SlotList(c) = tbl[s][Hash[k]] /\ tbl'[s][Hash[k]] = r.list
        BY <1>5, <3>1, <3>2 DEF SlotList
      <4>2. k \in KeysOf(r.list) \/ (k = h[c].msg.key /\ r.list # SlotList(c))
        <5>1. k \in KeysOf(SlotList(c))
          BY <2>1, <4>1
        <5> QED BY <1>4, <5>1
      <4>3. CASE k \in KeysOf(r.list)
        BY <4>1, <4>3 DEF Has
      <4>4. CASE k = h[c].msg.key /\ r.list # SlotList(c)
        BY <1>1, <1>6, <3>2, <4>4 DEF Holds
      <4> QED BY <4>2, <4>3, <4>4
    <3>3. CASE ~(s = srv[c] /\ Hash[k] = SlotOf(c))
      BY <1>5, <2>1, <3>1, <3>3 DEF Has
    <3> QED BY <3>2, <3>3
  <2>2. CASE k \in KeysIn(flight[s]) \/ k \in lost[s] \/ wild[s]
    BY <1>1, <2>2 DEF Has, overlaps
  <2> QED BY <1>8, <2>1, <2>2 DEF Has
<1>9. ASSUME NEW d \in Client, Holds(d, s, k) PROVE Holds(d, s, k)'
  BY <1>1, <1>7, <1>9 DEF Holds, CallPc, Removal, PutRemove, Delete, InCall, HandlerStep
<1> QED BY <1>8, <1>9, KeptMeans DEF TypeInv

(* The same of list_add: until the insertions in flight have all ended     *)
(* they keep their keys, and then the list does, or "lost" names them.     *)
LEMMA PutAddStable ==
  ASSUME TypeInv, TypeInv', NEW c \in Client, PutAdd(c)
  PROVE  Stable(Server)
<1>0. TypeOK /\ Attached /\ Inserting
  BY DEF TypeInv
<1>1. /\ h[c].pc = "put_add" /\ h[c].inside
      /\ srv[c] \in Server /\ h[c].msg \in Message
      /\ UNCHANGED <<srv, wild>>
      /\ \/ UNCHANGED serverVars
         \/ \E l \in Inserted(c) : Settle(c, l)
  BY <1>0, PutAddStep
<1>2. \A d \in Client : d # c => h'[d] = h[d]
  <2>1. "send" \in Pc /\ "ok" \in Code /\ h[c].msg \in Message \cup {NULL}
    BY <1>1 DEF Pc, Busy, Code
  <2> QED BY <1>0, <2>1, AnswerBecomes, BecomesThread DEF PutAdd
<1>3. h[c].msg.key \in KeysIn(flight[srv[c]])
  <2>1. Insertion(c) \in flight[srv[c]]
    BY <1>0, <1>1 DEF Inserting
  <2>2. Insertion(c)[2].key = h[c].msg.key
    BY DEF Insertion
  <2> QED BY <2>1, <2>2 DEF KeysIn
<1> SUFFICES ASSUME NEW s \in Server, NEW k \in Key, Kept(s, k)
             PROVE  Kept(s, k)'
  BY DEF Stable
<1>4. ASSUME NEW d \in Client, Holds(d, s, k) PROVE Holds(d, s, k)' \/ Has(s, k)
  BY <1>1, <1>2, <1>3, <1>4 DEF Holds, Has
<1>5. ASSUME Has(s, k) PROVE Has(s, k)'
  <2>1. CASE UNCHANGED serverVars
    BY <1>5, <2>1 DEF Has, serverVars, overlaps
  <2>2. ASSUME NEW l \in Inserted(c), Settle(c, l) PROVE Has(s, k)'
    <3>1. l \in List /\ KeysOf(SlotList(c)) \subseteq KeysOf(l)
      BY <1>0, <1>1, InsertedKeeps
    <3>2. /\ SlotOf(c) \in Slot
          /\ \A q \in Server, i \in Slot :
               tbl'[q][i] = IF q = srv[c] /\ i = SlotOf(c) THEN l ELSE tbl[q][i]
      BY <1>0, <1>1, <2>2, <3>1, SlotStep DEF Settle
    <3>3. /\ flight'[s] = IF s = srv[c] THEN flight[s] \ InFlight(c) ELSE flight[s]
          /\ lost'[s] = IF s = srv[c] THEN (lost[s] \ KeysIn(InFlight(c)))
                                            \cup (KeysIn(InFlight(c)) \ KeysOf(l))
                        ELSE lost[s]
      BY <1>0, <2>2 DEF Settle, TypeOK
    <3>4. Hash[k] \in Slot
      BY TableAssumption DEF Slot
    <3>5. CASE s = srv[c] /\ k \in KeysIn(InFlight(c))
      <4>1. Hash[k] = SlotOf(c)
        BY <3>5 DEF KeysIn, InFlight
      <4>2. k \in KeysOf(tbl'[s][Hash[k]]) \/ k \in lost'[s]
        BY <3>2, <3>3, <3>4, <3>5, <4>1
      <4> QED BY <4>2 DEF Has
    <3>6. CASE ~(s = srv[c] /\ k \in KeysIn(InFlight(c)))
      <4>1. CASE k \in KeysOf(tbl[s][Hash[k]])
        <5>1. k \in KeysOf(tbl'[s][Hash[k]])
          BY <3>1, <3>2, <3>4, <4>1 DEF SlotList
        <5> QED BY <5>1 DEF Has
      <4>2. CASE k \in KeysIn(flight[s])
        <5>1. k \in KeysIn(flight'[s])
          BY <3>3, <3>6, <4>2 DEF KeysIn
        <5> QED BY <5>1 DEF Has
      <4>3. CASE k \in lost[s]
        BY <3>3, <3>6, <4>3 DEF Has
      <4>4. CASE wild[s]
        BY <1>1, <4>4 DEF Has
      <4> QED BY <1>5, <4>1, <4>2, <4>3, <4>4 DEF Has
    <3> QED BY <3>5, <3>6
  <2> QED BY <1>1, <2>1, <2>2
<1> QED BY <1>4, <1>5, KeptMeans DEF TypeInv

(* The begin of a list call loses no key: it spoils the server or moves    *)
(* nobody.                                                                 *)
LEMMA BeginStable ==
  ASSUME TypeInv, TypeInv', NEW c \in Client, Begin(c)
  PROVE  Stable(Server)
<1>0. TypeOK /\ Attached
  BY DEF TypeInv
<1>1. srv[c] \in Server /\ h[c].msg \in Message /\ srv' = srv /\ (Spoil(srv[c]) \/ Enters(c))
  BY <1>0, BeginStep DEF netVars
<1> SUFFICES ASSUME NEW s \in Server, NEW k \in Key, Kept(s, k)
             PROVE  Kept(s, k)'
  BY DEF Stable
<1>2. \A d \in Client : h'[d].pc = h[d].pc /\ h'[d].msg = h[d].msg
  BY <1>0, <1>1, SpoilThreads, EntersThreads
<1>3. ASSUME NEW d \in Client, Holds(d, s, k) PROVE Holds(d, s, k)'
  BY <1>1, <1>2, <1>3 DEF Holds
<1>4. ASSUME Has(s, k) PROVE Has(s, k)'
  <2>1. CASE Spoil(srv[c])
    BY <1>0, <1>1, <1>4, <2>1 DEF Has, Spoil, TypeOK
  <2>2. CASE Enters(c)
    <3>1. flight[s] \subseteq flight'[s] /\ UNCHANGED <<tbl, wild, lost>>
      BY <1>0, <1>1, <2>2, EntersThreads DEF Enters
    <3> QED BY <1>4, <3>1 DEF Has, KeysIn
  <2> QED BY <1>1, <2>1, <2>2
<1> QED BY <1>3, <1>4, KeptMeans DEF TypeInv

(* The end of a process loses no key of the others. *)
LEMMA DieStable ==
  ASSUME TypeInv, TypeInv', NEW s \in Server, Die(s)
  PROVE  Stable(Server \ {s})
<1>0. TypeOK /\ srv' = srv
  BY DEF TypeInv, Die
<1> SUFFICES ASSUME NEW r \in Server \ {s}, NEW k \in Key, Kept(r, k)
             PROVE  Kept(r, k)'
  BY DEF Stable
<1>1. Has(r, k) => Has(r, k)'
  BY <1>0 DEF Has, Die, TypeOK
<1>2. ASSUME NEW d \in Client, Holds(d, r, k) PROVE Holds(d, r, k)'
  <2>1. h'[d] = h[d]
    BY <1>2 DEF Die, Holds
  <2> QED BY <1>0, <1>2, <2>1 DEF Holds
<1> QED BY <1>1, <1>2, KeptMeans DEF TypeInv

(* A client whose thread and connection a step does not touch knows what   *)
(* it knew.                                                                *)
LEMMA StillKnows ==
  ASSUME TypeInv, NEW d \in Client, Knows(d), NEW S,
         srv[d] \in Server => srv[d] \in S, Stable(S),
         h'[d] = h[d], srv'[d] = srv[d], link'[d] = link[d], rep'[d] = rep[d]
  PROVE  Knows(d)'
BY KnownKeys DEF Knows, Stable, Busy, CallPc

LEMMA InitHeldInv == Init => HeldInv
  BY DEF Init, HeldInv, Knows, NoThread, Outside

(* The end of a process takes its threads and its connections with it.     *)
LEMMA DieHeldInv ==
  ASSUME TypeInv, TypeInv', HeldInv, NEW s \in Server, Die(s)
  PROVE  HeldInv'
<1>1. h \in [Client -> Thread] /\ link \in [Client -> LinkState]
  BY DEF TypeInv, TypeOK
<1>2. Stable(Server \ {s})
  BY DieStable
<1>3. SUFFICES ASSUME NEW d \in Client PROVE Knows(d)'
  BY DEF HeldInv
<1>4. CASE srv[d] = s
  <2>1. h'[d] = NoThread /\ link'[d] # "open"
    BY <1>1, <1>4 DEF Die
  <2> QED BY <2>1 DEF Knows, NoThread, Outside
<1>5. CASE srv[d] # s
  <2>1. h'[d] = h[d] /\ srv'[d] = srv[d] /\ link'[d] = link[d] /\ rep'[d] = rep[d]
    BY <1>1, <1>5 DEF Die
  <2> QED BY <1>2, <1>5, <2>1, StillKnows DEF HeldInv
<1> QED BY <1>4, <1>5

(* A step that touches one client only, and loses no key, has to be looked *)
(* at for that client.                                                     *)
LEMMA OneClient ==
  ASSUME TypeInv, HeldInv, NEW c \in Client, Stable(Server), Knows(c)',
         \A d \in Client : d # c =>
           h'[d] = h[d] /\ srv'[d] = srv[d] /\ link'[d] = link[d] /\ rep'[d] = rep[d]
  PROVE  HeldInv'
BY StillKnows DEF HeldInv

(* A handler whose connection stays as it was, or is no more, and that     *)
(* knows its new place.                                                    *)
LEMMA MovedOn ==
  ASSUME TypeInv, NEW c \in Client, Knows(c), Stable(Server),
         h'[c].met = {}, srv' = srv, rep'[c] = rep[c],
         link'[c] = "open" => link[c] = "open",
         h'[c].pc = "put_remove" \/ (h'[c].pc = "send" /\ h'[c].code = "ok") =>
           /\ srv[c] \in Server /\ h'[c].msg.key \in Key
           /\ Kept(srv[c], h'[c].msg.key)
  PROVE  Knows(c)'
BY KnownKeys DEF Knows, Stable

LEMMA QuietHeldInv ==
  ASSUME TypeInv, TypeInv', HeldInv, NEW c \in Client, Quiet(c)
  PROVE  HeldInv'
<1>0. TypeOK /\ Attached /\ Knows(c) /\ link \in [Client -> LinkState] /\ rep \in [Client -> Seq(Reply)]
  BY DEF TypeInv, HeldInv, TypeOK
<1>1. /\ UNCHANGED <<up, tbl, overlaps, srv, clientVars>>
      /\ \A d \in Client : d # c => link'[d] = link[d] /\ rep'[d] = rep[d]
  BY <1>0, QuietFrame
<1>2. /\ h'[c].met = {} /\ \A d \in Client : d # c => h'[d] = h[d]
  BY <1>0, MovedThread
<1>3. h[c].pc \in {"put_add", "post"} => srv[c] \in Server /\ wild[srv[c]]
  <2>1. h[c].pc \in {"put_add", "post"} => Misused(c)
    BY DEF Quiet, Accept, Receive, ReceiveEnd, ReceiveReset, PutGet, Refuse, SendReply,
           SendToClosed, InCall, HandlerStep
  <2> QED BY <1>0, <2>1, CallerOf DEF Misused, Busy, CallPc
<1>4. Stable(Server)
  BY <1>1, <1>2, <1>3, QuietStable
<1>5. h[c].msg \in Message \cup {NULL} /\ h[c].code \in Code
  BY <1>0 DEF TypeOK, Thread
<1>6. ASSUME NEW pc \in Pc, NEW m \in Message \cup {NULL}, NEW code \in Code,
             Becomes(c, pc, m, code), rep'[c] = rep[c],
             link'[c] = "open" => link[c] = "open",
             pc = "put_remove" \/ (pc = "send" /\ code = "ok") =>
               srv[c] \in Server /\ m \in Message /\ Kept(srv[c], m.key)
      PROVE  HeldInv'
  <2>1. h'[c].pc = pc /\ h'[c].msg = m /\ h'[c].code = code
    BY <1>0, <1>6, BecomesThread
  <2>2. m \in Message => m.key \in Key
    BY DEF Message
  <2>3. Knows(c)'
    BY <1>0, <1>1, <1>2, <1>4, <1>6, <2>1, <2>2, MovedOn
  <2> QED BY <1>1, <1>2, <1>4, <2>3, OneClient
<1>7. CASE Accept(c) \/ ReceiveEnd(c) \/ ReceiveReset(c)
  <2>1. PICK pc \in {"recv", "spin", "exit"} : Becomes(c, pc, h[c].msg, h[c].code)
    BY <1>0, <1>7, AnswerBecomes DEF Accept, ReceiveEnd, ReceiveReset
  <2>2. link' = link /\ rep' = rep
    BY <1>7 DEF Accept, ReceiveEnd, ReceiveReset
  <2>3. pc \in Pc /\ pc # "put_remove" /\ pc # "send"
    BY DEF Pc
  <2> QED BY <1>5, <1>6, <2>1, <2>2, <2>3
<1>8. CASE Receive(c)
  <2>0. PICK m : m = Head(req[c])
    OBVIOUS
  <2>1. PICK pc \in {"put_get", "del", "read"} : Becomes(c, pc, m, "error")
    BY <1>8, <2>0 DEF Receive, Becomes
  <2>2. m \in Message /\ link' = link /\ rep' = rep
    BY <1>0, <1>8, <2>0 DEF Receive, TypeOK
  <2>3. pc \in Pc /\ pc # "put_remove" /\ pc # "send" /\ "error" \in Code
    BY DEF Pc, Busy, CallPc, Code
  <2> QED BY <1>6, <2>1, <2>2, <2>3
<1>9. CASE PutGet(c)
  <2>1. PICK found \in BOOLEAN :
          /\ \/ found = (list_get(SlotList(c), h[c].msg.key) # NULL)
             \/ h[c].msg.key \in h[c].met
          /\ Goto(c, IF found THEN "put_remove" ELSE "put_add")
    BY <1>9 DEF PutGet
  <2>2. PICK pc : pc = (IF found THEN "put_remove" ELSE "put_add")
    OBVIOUS
  <2>3. Becomes(c, pc, h[c].msg, h[c].code) /\ link' = link /\ rep' = rep
    BY <1>0, <1>9, <2>1, <2>2, AnswerBecomes DEF PutGet
  <2>4. srv[c] \in Server /\ h[c].msg \in Message
    BY <1>0, <1>9, CallerOf DEF PutGet, InCall, HandlerStep, Busy, CallPc
  <2>5. pc = "put_remove" => Kept(srv[c], h[c].msg.key)
    <3>1. CASE h[c].msg.key \in h[c].met
      BY <1>0, <3>1 DEF Knows
    <3>2. CASE list_get(SlotList(c), h[c].msg.key) # NULL
      BY <3>2 DEF Kept, Held, SlotList, SlotOf, table_get
    <3> QED BY <2>1, <2>2, <3>1, <3>2
  <2>6. pc \in Pc /\ pc # "send"
    BY <2>2 DEF Pc, Busy, CallPc
  <2> QED BY <1>5, <1>6, <2>3, <2>4, <2>5, <2>6
<1>10. CASE Refuse(c)
  <2>1. PICK code \in {"same", "error"} : Becomes(c, "send", h[c].msg, code)
    <3>1. PICK code \in {"same", "error"} : Answer(c, code, "send")
      BY <1>10 DEF Refuse
    <3> QED BY <1>0, <3>1, AnswerBecomes
  <2>2. link' = link /\ rep' = rep /\ code # "ok" /\ code \in Code /\ "send" \in Pc
    BY <1>10 DEF Refuse, Code, Pc, Busy
  <2> QED BY <1>5, <1>6, <2>1, <2>2
<1>11. CASE Misused(c)
  <2>1. wild[srv[c]] /\ srv[c] \in Server /\ h[c].msg \in Message /\ link' = link /\ rep' = rep
    BY <1>0, <1>11, CallerOf DEF Misused, Busy, netVars
  <2>2. Kept(srv[c], h[c].msg.key)
    BY <2>1 DEF Kept
  <2>3. /\ "put_remove" \in Pc /\ "put_add" \in Pc /\ "send" \in Pc /\ "post" \in Pc
        /\ "ok" \in Code /\ "error" \in Code
    BY DEF Pc, Busy, CallPc, Code
  <2>4. \E pc \in Pc, code \in Code : Answer(c, code, pc)
    BY <1>5, <1>11, <2>3 DEF Misused, Goto, CallPc
  <2>5. PICK pc \in Pc, code \in Code : Becomes(c, pc, h[c].msg, code)
    BY <1>0, <2>4, AnswerBecomes
  <2> QED BY <1>6, <2>1, <2>2, <2>5
<1>12. CASE SendReply(c)
  <2> DEFINE r == [op |-> h[c].msg.op, key |-> h[c].msg.key,
                   code |-> h[c].code, id |-> h[c].msg.id]
  <2>1. /\ h[c].pc = "send" /\ link' = link /\ NextMessage(c)
        /\ rep' = [rep EXCEPT ![c] = Append(@, r)]
    BY <1>12 DEF SendReply, HandlerStep
  <2>2. r.code = "ok" => Kept(srv[c], r.key)
    BY <1>0, <2>1 DEF Knows
  <2>3. r.key \in Key /\ r.key = h[c].msg.key /\ srv[c] \in Server
    BY <2>1, KnownKeys DEF Busy
  <2> HIDE DEF r
  <2>4. \A i \in 1..Len(rep'[c]) :
          \/ i \in 1..Len(rep[c]) /\ rep'[c][i] = rep[c][i]
          \/ rep'[c][i] = r
    BY <1>0, <2>1
  <2>5. h'[c].pc = "recv"
    BY <1>0, <2>1, AnswerBecomes, BecomesThread DEF Pc, Code
  <2>6. Knows(c)'
    BY <1>0, <1>1, <1>2, <1>4, <2>1, <2>2, <2>3, <2>4, <2>5, KnownKeys DEF Knows, Stable
  <2> QED BY <1>1, <1>2, <1>4, <2>6, OneClient
<1>13. CASE SendToClosed(c) /\ ~Die(srv[c])
  <2>1. Becomes(c, "recv", NULL, "error") /\ rep' = rep
    BY <1>0, <1>13, AnswerBecomes DEF SendToClosed
  <2>2. link'[c] # "open"
    <3>1. /\ link[c] # "open"
          /\ link' \in {link, [link EXCEPT ![c] = IF @ = "clientRst"
                                               THEN "clientGone" ELSE @]}
      BY <1>13 DEF SendToClosed
    <3> QED BY <1>0, <3>1
  <2>3. "recv" \in Pc /\ "error" \in Code
    BY DEF Pc, Code
  <2> QED BY <1>6, <2>1, <2>2, <2>3
<1> QED BY <1>7, <1>8, <1>9, <1>10, <1>11, <1>12, <1>13 DEF Quiet

LEMMA ListEndHeldInv ==
  ASSUME TypeInv, TypeInv', HeldInv, NEW c \in Client, Removal(c) \/ PutAdd(c)
  PROVE  HeldInv'
<1>0. TypeOK /\ Attached /\ Knows(c)
  BY DEF TypeInv, HeldInv
<1>1. /\ UNCHANGED <<srv, link, rep>> /\ h[c].pc \in Busy
  BY <1>0, RemovalStep, PutAddStep DEF Busy, CallPc
<1>2. Stable(Server)
  BY RemovalStable, PutAddStable
<1>3. srv[c] \in Server /\ h[c].msg \in Message /\ h[c].code \in Code
  BY <1>0, <1>1, CallerOf DEF TypeOK, Thread
<1>4. \E pc \in {"put_add", "post", "send"}, code \in Code :
        /\ Becomes(c, pc, h[c].msg, code)
        /\ pc = "send" /\ code = "ok" => h[c].pc = "put_add"
  <2>1. CASE Removal(c)
    <3>1. \/ Goto(c, "put_add") \/ Answer(c, "ok", "post") \/ Answer(c, "error", "send")
      BY <1>0, <2>1, RemovalStep
    <3>2. "ok" \in Code /\ "error" \in Code
      BY DEF Code
    <3> QED BY <1>0, <1>3, <3>1, <3>2, AnswerBecomes
  <2>2. CASE PutAdd(c)
    <3>1. Answer(c, "ok", "send") /\ h[c].pc = "put_add" /\ "ok" \in Code
      BY <2>2 DEF PutAdd, InCall, HandlerStep, Code
    <3> QED BY <1>0, <3>1, AnswerBecomes
  <2> QED BY <2>1, <2>2
<1>5. PICK pc \in {"put_add", "post", "send"}, code \in Code :
        /\ Becomes(c, pc, h[c].msg, code)
        /\ pc = "send" /\ code = "ok" => h[c].pc = "put_add"
  BY <1>4
<1>6. /\ h'[c].pc = pc /\ h'[c].msg = h[c].msg /\ h'[c].code = code /\ h'[c].met = {}
      /\ \A d \in Client : d # c => h'[d] = h[d]
  <2>1. pc \in Pc /\ h[c].msg \in Message \cup {NULL}
    BY <1>3 DEF Pc, Busy, CallPc
  <2> QED BY <1>0, <1>5, <2>1, BecomesThread
<1>7. h[c].msg.key \in Key
  BY <1>3 DEF Message
<1>8. h[c].pc = "put_add" => Kept(srv[c], h[c].msg.key)
  BY <1>0, <1>3, <1>7, KeptMeans DEF Holds
<1>9. Knows(c)'
  BY <1>0, <1>1, <1>2, <1>3, <1>5, <1>6, <1>7, <1>8, MovedOn
<1> QED BY <1>1, <1>2, <1>6, <1>9, OneClient

LEMMA BeginHeldInv ==
  ASSUME TypeInv, TypeInv', HeldInv, NEW c \in Client, Begin(c)
  PROVE  HeldInv'
<1>0. TypeOK /\ Attached
  BY DEF TypeInv
<1>1. /\ srv[c] \in Server /\ h[c].msg \in Message
      /\ UNCHANGED <<srv, link, rep>>
      /\ Spoil(srv[c]) \/ Enters(c)
  BY <1>0, BeginStep DEF netVars
<1>2. \A d \in Client : h'[d].pc = h[d].pc /\ h'[d].msg = h[d].msg /\ h'[d].code = h[d].code
  BY <1>0, <1>1, SpoilThreads, EntersThreads
<1>3. Stable(Server)
  BY BeginStable
<1>4. SUFFICES ASSUME NEW d \in Client PROVE Knows(d)'
  BY DEF HeldInv
<1>5. ASSUME NEW k \in h'[d].met PROVE srv[d] \in Server /\ Kept(srv[d], k)'
  <2>1. CASE k \in h[d].met
    <3>1. srv[d] \in Server /\ Kept(srv[d], k)
      BY <2>1 DEF HeldInv, Knows
    <3>2. k \in Key
      BY <2>1, KnownKeys
    <3> QED BY <1>1, <1>3, <3>1, <3>2 DEF Stable
  <2>2. CASE k \notin h[d].met
    <3>1. Enters(c)
      <4>1. SUFFICES ASSUME Spoil(srv[c]) PROVE h'[d].met = {} \/ h'[d] = h[d]
        BY <1>1, <1>5, <2>2
      <4>2. Outside(h[d].pc, h[d].msg, h[d].code).met = {}
        BY DEF Outside
      <4> QED BY <4>1, <4>2 DEF Spoil
    <3>2. k \in KeysIn(flight'[srv[c]]) /\ srv[d] = srv[c]
      <4>1. d \in Mates(c) \cup {c}
        BY <1>5, <2>2, <3>1 DEF Enters
      <4>2. srv[d] = srv[c]
        BY <4>1 DEF Mates
      <4>3. CASE d = c
        <5>1. k \in KeysIn(InFlight(c))
          BY <1>5, <3>1, <4>3 DEF Enters, Calling
        <5>2. flight[srv[c]] \subseteq flight'[srv[c]]
          BY <1>0, <1>1, <3>1, EntersThreads
        <5> QED BY <4>2, <5>1, <5>2 DEF KeysIn, InFlight
      <4>4. CASE d # c
        <5> DEFINE new == IF h[c].pc = "put_add" THEN {Insertion(c)} ELSE {}
        <5>1. h'[d] = Calling(d, h[d].met \cup KeysIn(new))
          BY <3>1, <4>1, <4>4 DEF Enters
        <5>2. k \in KeysIn(new)
          BY <1>5, <2>2, <5>1 DEF Calling
        <5>3. flight'[srv[c]] = flight[srv[c]] \cup new
          BY <1>0, <1>1, <3>1 DEF Enters, TypeOK
        <5> QED BY <4>2, <5>2, <5>3 DEF KeysIn
      <4> QED BY <4>3, <4>4
    <3> QED BY <1>1, <3>2 DEF Kept, Held
  <2> QED BY <2>1, <2>2
<1> QED BY <1>1, <1>2, <1>3, <1>5, KnownKeys DEF HeldInv, Knows, Stable, Busy, CallPc

LEMMA ClientHeldInv ==
  ASSUME TypeInv, TypeInv', HeldInv, NEW c \in Client, ClientMove(c)
  PROVE  HeldInv'
<1>0. /\ TypeOK /\ Attached /\ Knows(c) /\ UNCHANGED serverVars
      /\ rep \in [Client -> Seq(Reply)] /\ link \in [Client -> LinkState]
  BY ClientFrame DEF TypeInv, HeldInv, TypeOK
<1>1. ASSUME NEW s \in Server, Connect(c, s) PROVE HeldInv'
  <2>1. h[c].pc = "none" /\ h'[c].pc = "backlog" /\ h'[c].met = {} /\ rep' = rep /\ rep[c] = <<>>
        /\ srv'[c] \in Server
        /\ \A d \in Client : d # c =>
             h'[d] = h[d] /\ srv'[d] = srv[d] /\ link'[d] = link[d]
    <3>1. Becomes(c, "backlog", NULL, "error") /\ "backlog" \in Pc /\ "error" \in Code
      BY <1>1 DEF Connect, Becomes, Pc, Code
    <3>2. h'[c].pc = "backlog" /\ h'[c].met = {} /\ \A d \in Client : d # c => h'[d] = h[d]
      BY <1>0, <3>1, BecomesThread
    <3> QED BY <1>0, <1>1, <3>2 DEF Connect, ClientStep, Attached, TypeOK
  <2>2. Stable(Server)
    BY <1>0, <2>1, QuietStable DEF serverVars
  <2>3. Knows(c)'
    BY <2>1 DEF Knows
  <2> QED BY <2>1, <2>2, <2>3, OneClient
<1>2. ASSUME ~\E s \in Server : Connect(c, s) PROVE HeldInv'
  <2>1. /\ h' = h /\ srv' = srv
        /\ \A d \in Client : d # c => link'[d] = link[d] /\ rep'[d] = rep[d]
    BY <1>0, <1>2, ClientFrame
  <2>2. Stable(Server)
    <3>1. \A s \in Server, k \in Key : /\ Has(s, k)' <=> Has(s, k)
                                      /\ \A d \in Client : Holds(d, s, k)' <=> Holds(d, s, k)
      BY <1>0, <2>1 DEF Has, Holds, serverVars, overlaps
    <3> QED BY <3>1, KeptMeans DEF Stable, TypeInv
  <2>3. /\ link'[c] = "open" => link[c] = "open"
        /\ \A i \in 1..Len(rep'[c]) : \E j \in 1..Len(rep[c]) : rep'[c][i] = rep[c][j]
    <3>1. CASE ReadReply(c)
      <4>1. rep[c] \in Seq(Reply) /\ rep[c] # <<>> /\ rep'[c] = Tail(rep[c]) /\ link' = link
        BY <1>0, <3>1 DEF ReadReply
      <4>2. /\ Len(rep'[c]) = Len(rep[c]) - 1 /\ Len(rep[c]) \in Nat
            /\ \A i \in 1..Len(rep'[c]) : rep'[c][i] = rep[c][i + 1]
        BY <4>1
      <4> QED BY <4>1, <4>2
    <3>2. CASE Quit(c)
      BY <1>0, <3>2 DEF Quit
    <3>3. CASE ~ReadReply(c) /\ ~Quit(c)
      <4>1. rep' = rep
        BY <1>2, <3>3 DEF ClientMove, Command, Send, SendToDead, Read, ReadReset, ReadEnd, Timeout,
                CallFails, ConnectRefused, netVars
      <4>2. link'[c] = "open" => link[c] = "open"
        BY <1>0, <1>2, <3>3 DEF ClientMove, Command, Send, SendToDead, Read, ReadReset, ReadEnd,
                Timeout, CallFails, ConnectRefused, netVars
      <4> QED BY <4>1, <4>2
    <3> QED BY <3>1, <3>2, <3>3
  <2>4. Knows(c)'
    BY <1>0, <2>1, <2>2, <2>3, KnownKeys, SMTT(40) DEF Knows, Stable, Busy, CallPc
  <2> QED BY <2>1, <2>2, <2>4, OneClient
<1> QED BY <1>1, <1>2

LEMMA NextHeldInv == TypeInv /\ HeldInv /\ [Next]_kvVars => HeldInv'
<1> SUFFICES ASSUME TypeInv, HeldInv, [Next]_kvVars PROVE HeldInv'
  OBVIOUS
<1>0. TypeInv'
  BY NextTypeInv
<1>1. ASSUME NEW s \in Server, Kill(s) \/ Collapse(s) PROVE HeldInv'
  BY <1>0, <1>1, DieHeldInv DEF Kill, Collapse
<1>2. ASSUME UNCHANGED <<tbl, overlaps, h, srv, link, rep>> PROVE HeldInv'
  <2>1. Stable(Server)
    <3>1. \A s \in Server, k \in Key : /\ Has(s, k)' <=> Has(s, k)
                                      /\ \A d \in Client : Holds(d, s, k)' <=> Holds(d, s, k)
      BY <1>2 DEF Has, Holds, overlaps
    <3> QED BY <1>0, <3>1, KeptMeans DEF Stable, TypeInv
  <2> QED BY <1>2, <2>1, StillKnows DEF HeldInv
<1>3. ASSUME NEW s \in Server, Start(s) PROVE HeldInv'
  BY <1>2, <1>3 DEF Start, netVars
<1>4. ASSUME NEW c \in Client, Handler(c) \/ Misused(c) PROVE HeldInv'
  BY <1>0, <1>4, HandlerCases, QuietHeldInv, ListEndHeldInv, BeginHeldInv, DieHeldInv DEF TypeInv
<1>5. ASSUME NEW c \in Client, ClientMove(c) PROVE HeldInv'
  BY <1>0, <1>5, ClientHeldInv
<1>6. CASE UNCHANGED kvVars
  BY <1>2, <1>6 DEF kvVars, serverVars, netVars
<1> QED BY <1>1, <1>3, <1>4, <1>5, <1>6 DEF Next, ClientMove

LEMMA SpecHeldInv == Spec => []HeldInv
<1>1. Init => TypeInv /\ HeldInv
  BY InitTypeInv, InitHeldInv
<1>2. TypeInv /\ HeldInv /\ [Next]_kvVars => TypeInv' /\ HeldInv'
  BY NextTypeInv, NextHeldInv
<1> QED BY <1>1, <1>2, PTL DEF Spec

(* A key that list_get found is still in the table when list_remove runs,  *)
(* in the window of another overwrite, or lost to an insertion that        *)
(* overlapped its own, unless memory may have been misused.                *)
THEOREM FoundKeysStay == Spec => []FoundKeyHeld
<1>1. HeldInv => FoundKeyHeld
  BY DEF HeldInv, Knows, FoundKeyHeld
<1> QED BY <1>1, SpecHeldInv, PTL

(* A key whose PUT was answered on an open connection leaves the table of  *)
(* the server only as AnsweredPutHeld says: lost to an insertion that      *)
(* overlapped its own, or by misused memory.                               *)
THEOREM AnsweredPutsStay == Spec => []AnsweredPutHeld
<1>1. TypeInv /\ HeldInv => AnsweredPutHeld
  <2> SUFFICES ASSUME TypeInv, HeldInv, NEW c \in Client, link[c] = "open",
                      NEW i \in DOMAIN rep[c], rep[c][i].code = "ok"
               PROVE  Kept(srv[c], rep[c][i].key)
    BY DEF AnsweredPutHeld
  <2>1. i \in 1..Len(rep[c])
    BY KnownKeys
  <2> QED BY <2>1 DEF HeldInv, Knows
<1> QED BY <1>1, SpecTypeInv, SpecHeldInv, PTL

-----------------------------------------------------------------------------
(* connected_clients *)

Uncounted == {"none", "backlog", "exit"}

Counted(s) == {c \in Client : srv[c] = s /\ h[c].pc \notin Uncounted}

LEMMA CountedFinite == \A s \in Server : IsFiniteSet(Counted(s))
<1>1. ASSUME NEW s \in Server PROVE IsFiniteSet(Counted(s))
  <2>1. Counted(s) \subseteq Client
    BY DEF Counted
  <2> QED BY <2>1, ServerAssumption, FS_Subset
<1> QED BY <1>1

(* A step that moves one thread, and not across the border between the     *)
(* places that count and those that do not.                                *)
LEMMA SameCount ==
  ASSUME ConnectedCountsThreads, connected' = connected, NEW c \in Client,
         \A d \in Client : d # c => h'[d] = h[d] /\ srv'[d] = srv[d],
         \/ h[c].pc \in Uncounted /\ h'[c].pc \in Uncounted
         \/ h[c].pc \notin Uncounted /\ h'[c].pc \notin Uncounted /\ srv'[c] = srv[c]
  PROVE  ConnectedCountsThreads'
<1>1. \A s \in Server : Counted(s)' = Counted(s)
  BY DEF Counted
<1> QED BY <1>1 DEF ConnectedCountsThreads, Counted, Uncounted

LEMMA DieCount ==
  ASSUME TypeInv, ConnectedCountsThreads, NEW s \in Server, Die(s)
  PROVE  ConnectedCountsThreads'
<1>1. connected \in [Server -> Int]
  BY DEF TypeInv, TypeOK
<1>2. Counted(s)' = {} /\ connected'[s] = 0
  BY <1>1 DEF Die, Counted, NoThread, Outside, Uncounted
<1>3. \A r \in Server : r # s => Counted(r)' = Counted(r) /\ connected'[r] = connected[r]
  BY <1>1 DEF Die, Counted
<1>4. ASSUME NEW r \in Server PROVE connected'[r] = Cardinality(Counted(r)')
  <2>1. CASE r = s
    BY <1>2, <2>1, FS_EmptySet
  <2>2. CASE r # s
    BY <1>3, <2>2 DEF ConnectedCountsThreads, Counted, Uncounted
  <2> QED BY <2>1, <2>2
<1> QED BY <1>4 DEF ConnectedCountsThreads, Counted, Uncounted

(* A thread that begins, or ends, is counted, or is not any more.          *)
LEMMA AcceptCount ==
  ASSUME TypeInv, ConnectedCountsThreads, NEW c \in Client,
         Accept(c) \/ ReceiveReset(c)
  PROVE  ConnectedCountsThreads'
<1>1. /\ TypeOK /\ connected \in [Server -> Int] /\ h[c] \in Thread
      /\ srv[c] \in Server /\ srv' = srv
  <2>1. h[c].pc # "none" /\ srv' = srv
    BY DEF Accept, ReceiveReset, HandlerStep
  <2> QED BY <2>1 DEF TypeInv, TypeOK, Attached
<1>2. /\ \A d \in Client : d # c => h'[d] = h[d]
      /\ h'[c].pc = IF Accept(c) THEN "recv" ELSE "exit"
      /\ h[c].pc = IF Accept(c) THEN "backlog" ELSE "recv"
      /\ connected' = [connected EXCEPT ![srv[c]] =
                         IF Accept(c) THEN @ + 1 ELSE @ - 1]
  <2>0. /\ "recv" \in Pc /\ "exit" \in Pc
        /\ h[c].msg \in Message \cup {NULL} /\ h[c].code \in Code
    BY <1>1 DEF Pc, Thread
  <2>1. CASE Accept(c)
    <3>1. Goto(c, "recv") /\ h[c].pc = "backlog"
          /\ connected' = [connected EXCEPT ![srv[c]] = @ + 1]
      BY <2>1 DEF Accept, HandlerStep
    <3>2. Becomes(c, "recv", h[c].msg, h[c].code)
      BY <1>1, <3>1, AnswerBecomes
    <3>3. h'[c].pc = "recv" /\ \A d \in Client : d # c => h'[d] = h[d]
      BY <1>1, <2>0, <3>2, BecomesThread
    <3> QED BY <2>1, <3>1, <3>3
  <2>2. CASE ~Accept(c)
    <3>1. Goto(c, "exit") /\ h[c].pc = "recv"
          /\ connected' = [connected EXCEPT ![srv[c]] = @ - 1]
      BY <2>2 DEF ReceiveReset, HandlerStep
    <3>2. Becomes(c, "exit", h[c].msg, h[c].code)
      BY <1>1, <3>1, AnswerBecomes
    <3>3. h'[c].pc = "exit" /\ \A d \in Client : d # c => h'[d] = h[d]
      BY <1>1, <2>0, <3>2, BecomesThread
    <3> QED BY <2>2, <3>1, <3>3
  <2> QED BY <2>1, <2>2
<1>3. \A r \in Server : r # srv[c] => Counted(r)' = Counted(r) /\ connected'[r] = connected[r]
  BY <1>1, <1>2 DEF Counted
<1>4. connected'[srv[c]] = Cardinality(Counted(srv[c])')
  <2>1. connected[srv[c]] = Cardinality(Counted(srv[c])) /\ IsFiniteSet(Counted(srv[c]))
    BY <1>1, CountedFinite DEF ConnectedCountsThreads, Counted, Uncounted
  <2>2. CASE Accept(c)
    <3>1. c \notin Counted(srv[c]) /\ Counted(srv[c])' = Counted(srv[c]) \cup {c}
      BY <1>1, <1>2, <2>2 DEF Counted, Uncounted
    <3>2. Cardinality(Counted(srv[c])') = Cardinality(Counted(srv[c])) + 1
      BY <2>1, <3>1, FS_AddElement
    <3>3. connected'[srv[c]] = connected[srv[c]] + 1
      BY <1>1, <1>2, <2>2
    <3> QED BY <2>1, <3>2, <3>3
  <2>3. CASE ~Accept(c)
    <3>1. c \in Counted(srv[c]) /\ Counted(srv[c])' = Counted(srv[c]) \ {c}
      BY <1>1, <1>2, <2>3 DEF Counted, Uncounted
    <3>2. Cardinality(Counted(srv[c])') = Cardinality(Counted(srv[c])) - 1
      BY <2>1, <3>1, FS_RemoveElement
    <3>3. connected'[srv[c]] = connected[srv[c]] - 1
      BY <1>1, <1>2, <2>3
    <3> QED BY <2>1, <3>2, <3>3
  <2> QED BY <2>2, <2>3
<1>5. ASSUME NEW r \in Server PROVE connected'[r] = Cardinality(Counted(r)')
  <2>1. connected[r] = Cardinality(Counted(r))
    BY DEF ConnectedCountsThreads, Counted, Uncounted
  <2> QED BY <1>1, <1>3, <1>4, <2>1
<1> QED BY <1>5 DEF ConnectedCountsThreads, Counted, Uncounted

(* The other steps of a handler. *)
LEMMA HandlerCount ==
  ASSUME TypeInv, ConnectedCountsThreads, NEW c \in Client, Handler(c) \/ Misused(c)
  PROVE  ConnectedCountsThreads'
<1>0. TypeOK /\ Attached
  BY DEF TypeInv
<1>1. CASE Accept(c) \/ ReceiveReset(c)
  BY <1>1, AcceptCount
<1>2. CASE (Quiet(c) \/ ListEnd(c)) /\ ~Accept(c) /\ ~ReceiveReset(c)
  <2>1. /\ h[c].pc \notin Uncounted /\ h'[c].pc \notin Uncounted
        /\ \A d \in Client : d # c => h'[d] = h[d]
    BY <1>0, <1>2, MovedThread DEF Uncounted
  <2>2. srv' = srv /\ connected' = connected
    <3>1. CASE ListEnd(c)
      BY <1>0, <3>1, PutAddStep, RemovalStep DEF ListEnd, Removal
    <3>2. CASE Quiet(c)
      BY <1>2, <3>2 DEF Quiet, Receive, ReceiveEnd, PutGet, Refuse, SendReply, SendToClosed,
         Misused, InCall, HandlerStep, serverVars, netVars
    <3> QED BY <1>2, <3>1, <3>2
  <2> QED BY <2>1, <2>2, SameCount
<1>3. CASE Begin(c)
  <2>1. srv' = srv /\ connected' = connected /\ \A d \in Client : h'[d].pc = h[d].pc
    BY <1>0, <1>3, BeginStep, SpoilThreads, EntersThreads DEF netVars
  <2>2. \A s \in Server : Counted(s)' = Counted(s)
    BY <2>1 DEF Counted
  <2> QED BY <2>1, <2>2 DEF ConnectedCountsThreads, Counted, Uncounted
<1>4. CASE srv[c] \in Server /\ Die(srv[c])
  BY <1>4, DieCount
<1>5. Quiet(c) \/ ListEnd(c) \/ Begin(c) \/ (srv[c] \in Server /\ Die(srv[c]))
  BY <1>0, HandlerCases, PutAddEnds DEF Removal, ListEnd
<1> QED BY <1>1, <1>2, <1>3, <1>4, <1>5

LEMMA ClientCount ==
  ASSUME TypeInv, ConnectedCountsThreads, NEW c \in Client, ClientMove(c)
  PROVE  ConnectedCountsThreads'
<1>0. TypeOK /\ Attached
  BY DEF TypeInv
<1>1. connected' = connected
  BY <1>0, ClientFrame DEF serverVars
<1>2. CASE h' = h /\ srv' = srv
  BY <1>1, <1>2 DEF ConnectedCountsThreads
<1>3. CASE ~(h' = h /\ srv' = srv)
  <2>1. /\ h[c].pc = "none" /\ h'[c].pc = "backlog"
        /\ \A d \in Client : d # c => h'[d] = h[d] /\ srv'[d] = srv[d]
    BY <1>0, <1>3, ClientFrame
  <2> QED BY <1>1, <2>1, SameCount DEF Uncounted
<1> QED BY <1>2, <1>3

(* connected_clients is the number of running handler threads, for any     *)
(* number of clients: the statistics never go below zero, however          *)
(* connections end.                                                        *)
THEOREM ConnectedIsCount == Spec => []ConnectedCountsThreads
<1>1. Init => ConnectedCountsThreads
  <2> SUFFICES ASSUME Init PROVE ConnectedCountsThreads
    OBVIOUS
  <2>1. \A s \in Server : Counted(s) = {} /\ connected[s] = 0
    BY DEF Init, Counted, Uncounted, NoThread, Outside
  <2> QED BY <2>1, FS_EmptySet DEF ConnectedCountsThreads, Counted, Uncounted
<1>2. TypeInv /\ ConnectedCountsThreads /\ [Next]_kvVars => ConnectedCountsThreads'
  <2> SUFFICES ASSUME TypeInv, ConnectedCountsThreads, [Next]_kvVars
               PROVE  ConnectedCountsThreads'
    OBVIOUS
  <2>1. CASE UNCHANGED <<h, srv, connected>>
    BY <2>1 DEF ConnectedCountsThreads
  <2>2. ASSUME NEW s \in Server, Kill(s) \/ Start(s) \/ Collapse(s)
        PROVE  ConnectedCountsThreads'
    BY <2>1, <2>2, DieCount DEF Kill, Start, Collapse, netVars
  <2> QED BY <2>1, <2>2, HandlerCount, ClientCount DEF Next, ClientMove, kvVars, serverVars, netVars
<1> QED BY <1>1, <1>2, SpecTypeInv, PTL DEF Spec

-----------------------------------------------------------------------------
(* Pipelining.  The three places of a connection hold consecutive numbers  *)
(* that end with n: rp the answers, id the request in the hands of the     *)
(* thread, if it is busy (b = 1), rq the requests that wait.  The lemmas   *)
(* are about sequences and numbers only; each is one movement of a number. *)

InOrder(rq, b, id, rp, n) ==
  /\ \A i \in 1..Len(rq) : rq[i].id = n - Len(rq) + i
  /\ b = 1 => id = n - Len(rq)
  /\ \A i \in 1..Len(rp) : rp[i].id = n - Len(rq) - b - Len(rp) + i

LEMMA AppendLast ==
  ASSUME NEW M, NEW q \in Seq(M), NEW m \in M
  PROVE  Append(q, m) # <<>> /\ Append(q, m)[Len(Append(q, m))] = m
<1>1. Len(Append(q, m)) = Len(q) + 1 /\ Len(q) \in Nat /\ Append(q, m)[Len(q) + 1] = m
  OBVIOUS
<1> QED BY <1>1

(* They are, one place after the other: *)
Numbers(rq, b, id, rp) ==
  [i \in DOMAIN rp |-> rp[i].id]
    \o (IF b = 1 THEN <<id>> ELSE <<>>)
    \o [i \in DOMAIN rq |-> rq[i].id]

(* The m numbers that end with n. *)
UpTo(n, m) == [i \in 1..m |-> n - m + i]

(* A message is taken from the requests. *)
LEMMA Taken ==
  ASSUME NEW M, NEW rq \in Seq(M), NEW R, NEW rp \in Seq(R), NEW n \in Nat, NEW id,
         InOrder(rq, 0, id, rp, n), rq # <<>>
  PROVE  InOrder(Tail(rq), 1, Head(rq).id, rp, n)
<1>1. /\ Len(rq) \in Nat /\ Len(rq) > 0 /\ Len(rp) \in Nat
      /\ Len(Tail(rq)) = Len(rq) - 1 /\ Head(rq) = rq[1]
      /\ \A i \in 1..Len(Tail(rq)) : Tail(rq)[i] = rq[i + 1]
  OBVIOUS
<1>2. \A i \in 1..Len(Tail(rq)) : i + 1 \in 1..Len(rq)
  BY <1>1
<1>3. \A i \in 1..Len(Tail(rq)) : Tail(rq)[i].id = n - Len(Tail(rq)) + i
  BY <1>1, <1>2 DEF InOrder
<1>4. Head(rq).id = n - Len(Tail(rq))
  BY <1>1 DEF InOrder
<1>5. \A i \in 1..Len(rp) : rp[i].id = n - Len(Tail(rq)) - 1 - Len(rp) + i
  BY <1>1 DEF InOrder
<1> QED BY <1>3, <1>4, <1>5 DEF InOrder

(* The answer to it is sent. *)
LEMMA Answered ==
  ASSUME NEW M, NEW rq \in Seq(M), NEW R, NEW rp \in Seq(R), NEW n \in Nat, NEW id, NEW id2,
         InOrder(rq, 1, id, rp, n), NEW r \in R, r.id = id
  PROVE  InOrder(rq, 0, id2, Append(rp, r), n)
<1>1. /\ Len(rq) \in Nat /\ Len(rp) \in Nat
      /\ Len(Append(rp, r)) = Len(rp) + 1
      /\ Append(rp, r)[Len(rp) + 1] = r
      /\ \A i \in 1..Len(rp) : Append(rp, r)[i] = rp[i]
  OBVIOUS
<1>2. id = n - Len(rq)
  BY DEF InOrder
<1>3. ASSUME NEW i \in 1..Len(Append(rp, r))
      PROVE  Append(rp, r)[i].id = n - Len(rq) - 0 - Len(Append(rp, r)) + i
  <2>1. CASE i = Len(rp) + 1
    BY <1>1, <1>2, <2>1
  <2>2. CASE i \in 1..Len(rp)
    BY <1>1, <2>2 DEF InOrder
  <2> QED BY <1>1, <2>1, <2>2
<1> QED BY <1>3 DEF InOrder

(* The next request is sent. *)
LEMMA Requested ==
  ASSUME NEW M, NEW rq \in Seq(M), NEW R, NEW rp \in Seq(R), NEW n \in Nat, NEW id,
         NEW b \in {0, 1}, InOrder(rq, b, id, rp, n), NEW r \in M, r.id = n + 1
  PROVE  InOrder(Append(rq, r), b, id, rp, n + 1)
<1>1. /\ Len(rq) \in Nat /\ Len(rp) \in Nat
      /\ Len(Append(rq, r)) = Len(rq) + 1
      /\ Append(rq, r)[Len(rq) + 1] = r
      /\ \A i \in 1..Len(rq) : Append(rq, r)[i] = rq[i]
  OBVIOUS
<1>2. ASSUME NEW i \in 1..Len(Append(rq, r))
      PROVE  Append(rq, r)[i].id = n + 1 - Len(Append(rq, r)) + i
  <2>1. CASE i = Len(rq) + 1
    BY <1>1, <2>1
  <2>2. CASE i \in 1..Len(rq)
    BY <1>1, <2>2 DEF InOrder
  <2> QED BY <1>1, <2>1, <2>2
<1>3. b = 1 => id = n + 1 - Len(Append(rq, r))
  BY <1>1 DEF InOrder
<1>4. \A i \in 1..Len(rp) : rp[i].id = n + 1 - Len(Append(rq, r)) - b - Len(rp) + i
  BY <1>1 DEF InOrder
<1> QED BY <1>2, <1>3, <1>4 DEF InOrder

(* An answer is read. *)
LEMMA Consumed ==
  ASSUME NEW M, NEW rq \in Seq(M), NEW R, NEW rp \in Seq(R), NEW n \in Nat, NEW id,
         NEW b \in {0, 1}, InOrder(rq, b, id, rp, n), rp # <<>>
  PROVE  InOrder(rq, b, id, Tail(rp), n)
<1>1. /\ Len(rq) \in Nat /\ Len(rp) \in Nat /\ Len(rp) > 0
      /\ Len(Tail(rp)) = Len(rp) - 1
      /\ \A i \in 1..Len(Tail(rp)) : Tail(rp)[i] = rp[i + 1]
  OBVIOUS
<1>2. \A i \in 1..Len(Tail(rp)) : i + 1 \in 1..Len(rp)
  BY <1>1
<1>3. \A i \in 1..Len(Tail(rp)) :
        Tail(rp)[i].id = n - Len(rq) - b - Len(Tail(rp)) + i
  BY <1>1, <1>2 DEF InOrder
<1> QED BY <1>3 DEF InOrder

(* The last request that waits is the last one sent. *)
LEMMA LastNumber ==
  ASSUME NEW M, NEW rq \in Seq(M), NEW rp, NEW n \in Nat, NEW b, NEW id,
         InOrder(rq, b, id, rp, n), rq # <<>>
  PROVE  rq[Len(rq)].id = n
<1>1. Len(rq) \in Nat /\ Len(rq) > 0
  OBVIOUS
<1>2. rq[Len(rq)].id = n - Len(rq) + Len(rq)
  BY <1>1 DEF InOrder
<1> QED BY <1>1, <1>2

(* Together they are an interval. *)
LEMMA Interval ==
  ASSUME NEW M, NEW rq \in Seq(M), NEW R, NEW rp \in Seq(R), NEW n \in Nat, NEW id,
         NEW b \in {0, 1}, InOrder(rq, b, id, rp, n)
  PROVE  LET m == Len(Numbers(rq, b, id, rp))
         IN  m = Len(rp) + b + Len(rq) /\ Numbers(rq, b, id, rp) = UpTo(n, m)
<1> DEFINE A == [i \in DOMAIN rp |-> rp[i].id]
           H == IF b = 1 THEN <<id>> ELSE <<>>
           Q == [i \in DOMAIN rq |-> rq[i].id]
           U == {A[i] : i \in DOMAIN A} \cup {id} \cup {Q[i] : i \in DOMAIN Q}
           l == Len(rp) + b + Len(rq)
           p == A \o H \o Q
<1>1. Len(rq) \in Nat /\ Len(rp) \in Nat /\ DOMAIN rq = 1..Len(rq) /\ DOMAIN rp = 1..Len(rp)
  OBVIOUS
<1>2. A \in Seq(U) /\ Len(A) = Len(rp)
  BY <1>1
<1>3. H \in Seq(U) /\ Len(H) = b /\ (b = 1 => H[1] = id)
  <2>1. CASE b = 0
    <3>1. H = <<>>
      BY <2>1
    <3> QED BY <2>1, <3>1
  <2>2. CASE b = 1
    <3>1. H = <<id>> /\ id \in U
      BY <2>2
    <3> HIDE DEF H, U
    <3> QED BY <2>2, <3>1
  <2> QED BY <2>1, <2>2
<1>4. Q \in Seq(U) /\ Len(Q) = Len(rq)
  BY <1>1
<1>5. \A i \in 1..Len(rp) : A[i] = n - l + i
  BY <1>1 DEF InOrder
<1>6. \A i \in 1..b : H[i] = n - l + Len(rp) + i
  <2>1. CASE b = 0
    BY <2>1
  <2>2. CASE b = 1
    <3>1. \A i \in 1..b : i = 1
      BY <2>2
    <3>2. H[1] = n - Len(rq)
      BY <1>3, <2>2 DEF InOrder
    <3> HIDE DEF H
    <3> QED BY <1>1, <2>2, <3>1, <3>2
  <2> QED BY <2>1, <2>2
<1>7. \A i \in 1..Len(rq) : Q[i] = n - l + Len(rp) + b + i
  BY <1>1 DEF InOrder
<1> HIDE DEF A, H, Q, U
<1>8. /\ A \o H \in Seq(U) /\ Len(A \o H) = Len(rp) + b
      /\ \A i \in 1..(Len(rp) + b) :
           (A \o H)[i] = IF i <= Len(rp) THEN A[i] ELSE H[i - Len(rp)]
  BY <1>1, <1>2, <1>3
<1>9. \A i \in 1..(Len(rp) + b) : (A \o H)[i] = n - l + i
  BY <1>1, <1>5, <1>6, <1>8
<1>10. /\ p \in Seq(U) /\ Len(p) = l
       /\ \A i \in 1..l :
            p[i] = IF i <= Len(rp) + b THEN (A \o H)[i] ELSE Q[i - (Len(rp) + b)]
  BY <1>1, <1>4, <1>8
<1>11. ASSUME NEW i \in 1..l PROVE p[i] = n - l + i
  <2>1. CASE i <= Len(rp) + b
    <3>1. i \in 1..(Len(rp) + b)
      BY <1>1, <2>1
    <3>2. p[i] = (A \o H)[i]
      <4> HIDE DEF p, l
      <4> QED BY <1>10, <2>1
    <3> HIDE DEF p, l
    <3> QED BY <1>9, <3>1, <3>2
  <2>2. CASE i > Len(rp) + b
    <3>1. i - (Len(rp) + b) \in 1..Len(rq) /\ p[i] = Q[i - (Len(rp) + b)]
      BY <1>1, <1>10, <2>2
    <3> QED BY <1>1, <1>7, <3>1
  <2>3. i \in Nat /\ Len(rp) + b \in Nat
    BY <1>1
  <2> HIDE DEF p, l
  <2> QED BY <2>1, <2>2, <2>3
<1>12. p = [i \in 1..l |-> n - l + i]
  <2>1. p = [i \in 1..l |-> p[i]]
    <3> HIDE DEF p, l
    <3>1. PICK k \in Nat : p \in [1..k -> U]
      BY <1>10, SeqDef
    <3>2. Len(p) = k
      BY <3>1
    <3> QED BY <1>10, <3>1, <3>2
  <2> HIDE DEF p, l
  <2> QED BY <1>11, <2>1
<1>13. Numbers(rq, b, id, rp) = p
  BY DEF Numbers, A, H, Q
<1> HIDE DEF p
<1> QED BY <1>10, <1>12, <1>13 DEF UpTo

-----------------------------------------------------------------------------
(* The invariant: every open connection holds the numbers of its client's  *)
(* requests in order, and a waiting client has one of them to come.        *)

Handled(c) == IF h[c].pc \in Busy THEN 1 ELSE 0

InPlace(c) ==
  /\ cl[c] = "new" => /\ sent[c] = 0 /\ req[c] = <<>> /\ rep[c] = <<>>
                      /\ link[c] = "none" /\ h[c].pc = "none"
  /\ link[c] = "open" =>
       /\ InOrder(req[c], Handled(c), h[c].msg.id, rep[c], sent[c])
       /\ cl[c] = "wait" => \/ req[c] # <<>>
                            \/ h[c].pc \in Busy
                            \/ rep[c] # <<>>

PipeInv == \A c \in Client : InPlace(c)

(* What InPlace speaks about has a type. *)
LEMMA PlaceTypes ==
  ASSUME TypeInv, NEW c \in Client
  PROVE  /\ sent[c] \in Nat /\ h \in [Client -> Thread] /\ h[c] \in Thread
         /\ req[c] \in Seq(Message) /\ rep[c] \in Seq(Reply)
         /\ Handled(c) \in {0, 1}
BY ServerAssumption DEF TypeInv, TypeOK, Handled

(* A step that touches one client only.                                    *)
LEMMA OnePlace ==
  ASSUME PipeInv, NEW c \in Client, InPlace(c)',
         \A d \in Client : d # c =>
           /\ h'[d] = h[d] /\ link'[d] = link[d] /\ req'[d] = req[d] /\ rep'[d] = rep[d]
           /\ cl'[d] = cl[d] /\ sent'[d] = sent[d]
  PROVE  PipeInv'
<1>1. ASSUME NEW d \in Client, d # c PROVE InPlace(d)'
  <2>1. InPlace(d)
    BY DEF PipeInv
  <2> QED BY <1>1, <2>1 DEF InPlace, Handled
<1> QED BY <1>1 DEF PipeInv

(* What the end of a process leaves open is another server's.              *)
LEMMA DiePipe ==
  ASSUME TypeInv, PipeInv, NEW s \in Server, Die(s), UNCHANGED clientVars
  PROVE  PipeInv'
<1>1. /\ h \in [Client -> Thread] /\ link \in [Client -> LinkState]
      /\ req \in [Client -> Seq(Message)]
  BY DEF TypeInv, TypeOK
<1>2. ASSUME NEW c \in Client PROVE InPlace(c)'
  <2>1. InPlace(c) /\ rep' = rep /\ cl' = cl /\ sent' = sent
    BY DEF PipeInv, Die, clientVars
  <2>2. CASE srv[c] = s
    <3>1. /\ link'[c] # "open" /\ req'[c] = <<>> /\ h'[c] = NoThread
          /\ link[c] = "none" => link'[c] = "none"
      BY <1>1, <2>2 DEF Die
    <3> QED BY <2>1, <3>1 DEF InPlace, NoThread, Outside
  <2>3. CASE srv[c] # s
    <3>1. link'[c] = link[c] /\ req'[c] = req[c] /\ h'[c] = h[c]
      BY <1>1, <2>3 DEF Die
    <3> QED BY <2>1, <3>1 DEF InPlace, Handled
  <2> QED BY <2>2, <2>3
<1> QED BY <1>2 DEF PipeInv

InPut == {"put_get", "put_remove", "put_add"}

(* The steps of a thread that keep its message. *)
LEMMA SameRequest ==
  ASSUME TypeOK, Attached, NEW c \in Client, Quiet(c) \/ ListEnd(c),
         ~Receive(c), ~SendReply(c), ~SendToClosed(c)
  PROVE  /\ UNCHANGED <<link, req, rep, srv, clientVars>>
         /\ \E pc \in Pc, code \in Code :
              /\ Becomes(c, pc, h[c].msg, code)
              /\ h[c].pc \in Busy <=> pc \in Busy
              /\ h[c].pc \in InPut => pc \in InPut \/ h[c].pc = "put_add"
<1>0. /\ h[c].msg \in Message \cup {NULL} /\ h[c].code \in Code
      /\ {"ok", "error", "same"} \subseteq Code
      /\ InPut \subseteq Busy /\ CallPc \subseteq Busy /\ Busy \subseteq Pc
      /\ {"recv", "spin", "exit"} \subseteq Pc \ Busy /\ "backlog" \notin Busy
      /\ {"read", "post", "send"} \subseteq Busy \ InPut /\ "del" \in Busy \ InPut
      /\ \A pc, code : /\ Answer(c, code, pc) => Becomes(c, pc, h[c].msg, code)
                       /\ Goto(c, pc) => Becomes(c, pc, h[c].msg, h[c].code)
  BY AnswerBecomes DEF TypeOK, Thread, Code, InPut, CallPc, Busy, Pc
<1>1. CASE Accept(c) \/ ReceiveEnd(c) \/ ReceiveReset(c)
  <2>1. /\ Goto(c, "recv") \/ Goto(c, "spin") \/ Goto(c, "exit")
        /\ h[c].pc \in {"backlog", "recv"}
        /\ UNCHANGED <<link, req, rep, srv, clientVars>>
    BY <1>1 DEF Accept, ReceiveEnd, ReceiveReset, HandlerStep
  <2> QED BY <1>0, <2>1
<1>2. CASE PutGet(c)
  <2>1. /\ Goto(c, "put_remove") \/ Goto(c, "put_add")
        /\ h[c].pc = "put_get"
        /\ UNCHANGED <<link, req, rep, srv, clientVars>>
    <3>1. PICK found \in BOOLEAN : Goto(c, IF found THEN "put_remove" ELSE "put_add")
      BY <1>2 DEF PutGet
    <3> QED BY <1>2, <3>1 DEF PutGet, InCall, HandlerStep
  <2> QED BY <1>0, <2>1 DEF InPut
<1>3. CASE Refuse(c)
  <2>1. /\ Answer(c, "same", "send") \/ Answer(c, "error", "send")
        /\ h[c].pc = "read"
        /\ UNCHANGED <<link, req, rep, srv, clientVars>>
    BY <1>3 DEF Refuse, HandlerStep
  <2> QED BY <1>0, <2>1
<1>4. CASE Misused(c)
  <2>1. /\ \/ h[c].pc \in InPut /\ (Goto(c, "put_remove") \/ Goto(c, "put_add"))
           \/ h[c].pc = "put_add" /\ (Answer(c, "ok", "send") \/ Answer(c, "error", "send"))
           \/ h[c].pc = "del" /\ (Answer(c, "ok", "post") \/ Answer(c, "error", "send"))
        /\ UNCHANGED <<link, req, rep, srv, clientVars>>
    BY <1>4 DEF Misused, CallPc, InPut, netVars
  <2> QED BY <1>0, <2>1 DEF InPut
<1>5. CASE ListEnd(c)
  <2>1. CASE PutRemove(c) \/ Delete(c)
    <3>1. Removal(c)
      BY <1>5, <2>1 DEF ListEnd, Removal
    <3>2. /\ \/ h[c].pc = "put_remove" /\ Goto(c, "put_add")
             \/ h[c].pc = "del" /\ (Answer(c, "ok", "post") \/ Answer(c, "error", "send"))
          /\ UNCHANGED <<link, req, rep, srv, clientVars>>
      BY <3>1, RemovalStep
    <3> QED BY <1>0, <3>2 DEF InPut
  <2>2. CASE PutAdd(c)
    <3>1. /\ Answer(c, "ok", "send") /\ h[c].pc = "put_add"
          /\ UNCHANGED <<link, req, rep, srv, clientVars>>
      BY <2>2 DEF PutAdd, InCall, HandlerStep
    <3> QED BY <1>0, <3>1 DEF InPut
  <2> QED BY <1>5, <2>1, <2>2 DEF ListEnd
<1> QED BY <1>1, <1>2, <1>3, <1>4, <1>5 DEF Quiet

LEMMA SameRequestPipe ==
  ASSUME TypeInv, PipeInv, NEW c \in Client, Quiet(c) \/ ListEnd(c),
         ~Receive(c), ~SendReply(c), ~SendToClosed(c)
  PROVE  PipeInv'
<1>0. TypeOK /\ Attached
  BY DEF TypeInv
<1>1. PICK pc \in Pc, code \in Code :
        /\ Becomes(c, pc, h[c].msg, code)
        /\ h[c].pc \in Busy <=> pc \in Busy
  BY <1>0, SameRequest
<1>2. /\ h'[c].pc = pc /\ h'[c].msg = h[c].msg
      /\ \A d \in Client : d # c => h'[d] = h[d]
  <2>1. h[c].msg \in Message \cup {NULL}
    BY <1>0 DEF TypeOK, Thread
  <2> QED BY <1>0, <1>1, <2>1, BecomesThread
<1>3. UNCHANGED <<link, req, rep, srv, clientVars>> /\ h[c].pc # "none"
  BY <1>0, SameRequest, MovedThread
<1>4. InPlace(c)'
  BY <1>1, <1>2, <1>3 DEF PipeInv, InPlace, Handled, clientVars
<1> QED BY <1>2, <1>3, <1>4, OnePlace DEF clientVars

(* The begin of a list call moves no message either. *)
LEMMA BeginPipe ==
  ASSUME TypeInv, PipeInv, NEW c \in Client, Begin(c)
  PROVE  PipeInv'
<1>0. TypeOK /\ Attached
  BY DEF TypeInv
<1>1. UNCHANGED <<netVars, clientVars>> /\ \A d \in Client : h'[d].pc = h[d].pc /\ h'[d].msg = h[d].msg
  BY <1>0, BeginStep, SpoilThreads, EntersThreads
<1>2. ASSUME NEW d \in Client PROVE InPlace(d)'
  <2>1. InPlace(d)
    BY DEF PipeInv
  <2> QED BY <1>1, <2>1 DEF InPlace, Handled, netVars, clientVars
<1> QED BY <1>2 DEF PipeInv

(* Where a thread stands that took a message, or goes for the next one.    *)
LEMMA TakenThread ==
  ASSUME TypeOK, NEW c \in Client, Receive(c)
  PROVE  /\ h'[c].pc \in Busy /\ h'[c].msg = Head(req[c])
         /\ Head(req[c]).op = "put" => h'[c].pc = "put_get"
         /\ \A d \in Client : d # c => h'[d] = h[d]
<1> DEFINE m == Head(req[c])
<1>1. PICK pc : /\ Becomes(c, pc, m, "error")
                /\ pc = CASE m.op = "put" -> "put_get"
                          [] m.op = "del" -> "del"
                          [] OTHER -> "read"
  BY DEF Receive, Becomes
<1>2. /\ m \in Message /\ pc \in Busy /\ pc \in Pc /\ "error" \in Code
      /\ m.op = "put" => pc = "put_get"
  BY <1>1 DEF Receive, TypeOK, Busy, CallPc, Pc, Code
<1> HIDE DEF m
<1>3. h'[c].pc = pc /\ h'[c].msg = m /\ \A d \in Client : d # c => h'[d] = h[d]
  BY <1>1, <1>2, BecomesThread
<1> QED BY <1>2, <1>3 DEF m

LEMMA NextThread ==
  ASSUME TypeOK, NEW c \in Client, NextMessage(c)
  PROVE  h'[c].pc = "recv" /\ \A d \in Client : d # c => h'[d] = h[d]
<1>1. Becomes(c, "recv", NULL, "error") /\ "recv" \in Pc /\ "error" \in Code
  BY AnswerBecomes DEF Pc, Code
<1> QED BY <1>1, BecomesThread

(* A step of a thread does not end the process unless it says so.          *)
LEMMA ClosedThenDown ==
  ASSUME TypeInv, NEW c \in Client, Quiet(c) \/ ListEnd(c)
  PROVE  ~Die(srv[c])
<1>1. h'[c].pc # "none"
  BY MovedThread DEF TypeInv
<1>2. Die(srv[c]) => h'[c] = NoThread
  BY DEF Die
<1> QED BY <1>1, <1>2 DEF NoThread, Outside

LEMMA ReceivePipe ==
  ASSUME TypeInv, PipeInv, NEW c \in Client, Receive(c)
  PROVE  PipeInv'
<1>1. /\ TypeOK /\ InPlace(c)
      /\ req \in [Client -> Seq(Message)] /\ rep[c] \in Seq(Reply) /\ sent[c] \in Nat
  BY PlaceTypes DEF TypeInv, TypeOK, PipeInv
<1>2. /\ h[c].pc = "recv" /\ req[c] # <<>> /\ req'[c] = Tail(req[c])
      /\ link' = link /\ rep' = rep /\ cl' = cl /\ sent' = sent
      /\ \A d \in Client : d # c => req'[d] = req[d]
  BY <1>1 DEF Receive, HandlerStep, clientVars
<1>3. /\ h'[c].pc \in Busy /\ h'[c].msg = Head(req[c])
      /\ \A d \in Client : d # c => h'[d] = h[d]
  BY <1>1, TakenThread
<1>4. Handled(c) = 0 /\ Handled(c)' = 1
  BY <1>2, <1>3 DEF Handled, Busy, CallPc
<1>5. InOrder(req[c], 0, h[c].msg.id, rep[c], sent[c])
      => InOrder(Tail(req[c]), 1, Head(req[c]).id, rep[c], sent[c])
  BY <1>1, <1>2, Taken
<1>6. InPlace(c)'
  BY <1>1, <1>2, <1>3, <1>4, <1>5 DEF InPlace
<1> QED BY <1>2, <1>3, <1>6, OnePlace

LEMMA SendReplyPipe ==
  ASSUME TypeInv, PipeInv, NEW c \in Client, SendReply(c)
  PROVE  PipeInv'
<1> DEFINE r == [op |-> h[c].msg.op, key |-> h[c].msg.key,
                 code |-> h[c].code, id |-> h[c].msg.id]
<1>1. /\ TypeOK /\ h[c] \in Thread /\ InPlace(c)
      /\ rep \in [Client -> Seq(Reply)] /\ req[c] \in Seq(Message) /\ sent[c] \in Nat
  BY PlaceTypes DEF TypeInv, TypeOK, PipeInv
<1>2. /\ h[c].pc = "send" /\ link[c] = "open" /\ NextMessage(c)
      /\ rep'[c] = Append(rep[c], r)
      /\ link' = link /\ req' = req /\ cl' = cl /\ sent' = sent
      /\ \A d \in Client : d # c => rep'[d] = rep[d]
  BY <1>1 DEF SendReply, HandlerStep, serverVars, clientVars
<1>3. h'[c].pc = "recv" /\ \A d \in Client : d # c => h'[d] = h[d]
  BY <1>1, <1>2, NextThread
<1>4. r \in Reply /\ r.id = h[c].msg.id
  <2>1. h[c].msg \in Message /\ h[c].code \in {"ok", "error", "same"}
    BY <1>1, <1>2 DEF TypeOK, Thread, Busy, Code
  <2> QED BY <2>1 DEF Message, Reply
<1> HIDE DEF r
<1>5. Handled(c) = 1 /\ Handled(c)' = 0
  BY <1>2, <1>3 DEF Handled, Busy, CallPc
<1>6. InOrder(req[c], 1, h[c].msg.id, rep[c], sent[c])
  BY <1>1, <1>2, <1>5 DEF InPlace
<1>7. InOrder(req[c], 0, h'[c].msg.id, Append(rep[c], r), sent[c])
  BY <1>1, <1>4, <1>6, Answered
<1>8. Append(rep[c], r) # <<>>
  BY <1>1, <1>4, AppendLast
<1>9. cl[c] # "new"
  BY <1>1, <1>2 DEF InPlace
<1>10. InPlace(c)'
  BY <1>2, <1>3, <1>5, <1>7, <1>8, <1>9 DEF InPlace
<1> QED BY <1>2, <1>3, <1>10, OnePlace

LEMMA SendToClosedPipe ==
  ASSUME TypeInv, PipeInv, NEW c \in Client, SendToClosed(c), ~Die(srv[c])
  PROVE  PipeInv'
<1>1. /\ TypeOK /\ InPlace(c) /\ link \in [Client -> LinkState]
  BY DEF TypeInv, TypeOK, PipeInv
<1>2. /\ NextMessage(c) /\ link[c] # "open" /\ h[c].pc = "send"
      /\ rep' = rep /\ req' = req /\ cl' = cl /\ sent' = sent
      /\ link' \in {link, [link EXCEPT ![c] = IF @ = "clientRst"
                                           THEN "clientGone" ELSE @]}
  BY DEF SendToClosed, HandlerStep, clientVars
<1>3. /\ link'[c] # "open" /\ cl[c] # "new"
      /\ \A d \in Client : d # c => link'[d] = link[d] /\ h'[d] = h[d]
  BY <1>1, <1>2, NextThread DEF InPlace
<1>4. InPlace(c)'
  BY <1>2, <1>3 DEF InPlace
<1> QED BY <1>2, <1>3, <1>4, OnePlace

LEMMA HandlerPipe ==
  ASSUME TypeInv, PipeInv, NEW c \in Client, Handler(c) \/ Misused(c)
  PROVE  PipeInv'
<1>1. CASE Quiet(c) \/ ListEnd(c)
  BY <1>1, SameRequestPipe, ReceivePipe, SendReplyPipe, SendToClosedPipe, ClosedThenDown
<1>2. CASE Begin(c)
  BY <1>2, BeginPipe
<1>3. CASE srv[c] \in Server /\ Die(srv[c]) /\ UNCHANGED clientVars
  BY <1>3, DiePipe
<1> QED BY <1>1, <1>2, <1>3, HandlerCases, PutAddEnds DEF TypeInv, Removal, ListEnd

LEMMA ClientPipe ==
  ASSUME TypeInv, PipeInv, NEW c \in Client, ClientMove(c)
  PROVE  PipeInv'
<1>1. /\ TypeOK /\ h[c] \in Thread /\ InPlace(c)
      /\ link \in [Client -> LinkState] /\ cl \in [Client -> ClientState]
      /\ req \in [Client -> Seq(Message)] /\ rep \in [Client -> Seq(Reply)]
      /\ sent \in [Client -> 0..MaxSent] /\ sent[c] \in Nat /\ MaxSent \in Nat
      /\ Handled(c) \in {0, 1}
  BY PlaceTypes, ServerAssumption DEF TypeInv, TypeOK, PipeInv
<1>2. CASE \E s \in Server : Connect(c, s)
  <2>1. /\ cl[c] = "new" /\ cl'[c] = "idle" /\ h'[c].pc = "backlog"
        /\ req' = req /\ rep' = rep /\ sent' = sent
        /\ \A d \in Client : d # c => h'[d] = h[d] /\ link'[d] = link[d] /\ cl'[d] = cl[d]
    <3>1. Becomes(c, "backlog", NULL, "error") /\ "backlog" \in Pc /\ "error" \in Code
      BY <1>2 DEF Connect, Becomes, Pc, Code
    <3>2. h'[c].pc = "backlog" /\ \A d \in Client : d # c => h'[d] = h[d]
      BY <1>1, <3>1, BecomesThread
    <3> QED BY <1>1, <1>2, <3>2 DEF Connect, ClientStep
  <2>2. sent[c] = 0 /\ req[c] = <<>> /\ rep[c] = <<>> /\ Handled(c)' = 0
    BY <1>1, <2>1 DEF InPlace, Handled, Busy, CallPc
  <2>3. InOrder(req[c], 0, h'[c].msg.id, rep[c], sent[c])
    BY <2>2 DEF InOrder
  <2>4. InPlace(c)'
    BY <2>1, <2>2, <2>3 DEF InPlace
  <2> QED BY <2>1, <2>4, OnePlace
<1>3. CASE Command(c)
  <2>1. PICK op \in Op, k \in Key, v \in Value : Send(c, op, k, v) \/ SendToDead(c, op, k, v)
    BY <1>3 DEF Command
  <2>2. CASE Send(c, op, k, v)
    <3> DEFINE r == Request(c, op, k, v)
    <3>1. /\ cl[c] = "idle" /\ cl'[c] = "wait" /\ sent[c] < MaxSent
          /\ sent'[c] = sent[c] + 1 /\ req'[c] = Append(req[c], r)
          /\ h' = h /\ rep' = rep /\ link' = link
          /\ \A d \in Client : d # c => cl'[d] = cl[d] /\ sent'[d] = sent[d] /\ req'[d] = req[d]
      BY <1>1, <2>2 DEF Send, ClientStep
    <3>2. r \in Message /\ r.id = sent[c] + 1
      BY <1>1, <3>1 DEF Request, Message
    <3> HIDE DEF r
    <3>3. InOrder(req[c], Handled(c), h[c].msg.id, rep[c], sent[c])
          => InOrder(Append(req[c], r), Handled(c), h[c].msg.id, rep[c], sent[c] + 1)
      BY <1>1, <3>2, Requested
    <3>4. Append(req[c], r) # <<>> /\ Handled(c)' = Handled(c)
      <4>1. Append(req[c], r) # <<>>
        <5>1. req[c] \in Seq(Message)
          BY <1>1
        <5> QED BY <3>2, <5>1, AppendLast
      <4> QED BY <3>1, <4>1 DEF Handled
    <3>5. InPlace(c)'
      BY <1>1, <3>1, <3>3, <3>4 DEF InPlace
    <3> QED BY <3>1, <3>5, OnePlace
  <2>3. CASE SendToDead(c, op, k, v)
    <3>1. /\ cl[c] = "idle" /\ cl'[c] # "new" /\ link'[c] # "open"
          /\ h' = h /\ rep' = rep /\ req' = req
          /\ \A d \in Client : d # c =>
               cl'[d] = cl[d] /\ sent'[d] = sent[d] /\ link'[d] = link[d]
      BY <1>1, <2>3 DEF SendToDead, Ends, ClientStep
    <3>2. InPlace(c)'
      BY <3>1 DEF InPlace
    <3> QED BY <3>1, <3>2, OnePlace
  <2> QED BY <2>1, <2>2, <2>3
<1>4. CASE ReadReply(c)
  <2>1. /\ cl'[c] = "idle" /\ rep[c] # <<>> /\ rep'[c] = Tail(rep[c])
        /\ h' = h /\ req' = req /\ link' = link /\ sent' = sent
        /\ \A d \in Client : d # c => cl'[d] = cl[d] /\ rep'[d] = rep[d]
    BY <1>1, <1>4 DEF ReadReply, ClientStep
  <2>2. InOrder(req[c], Handled(c), h[c].msg.id, rep[c], sent[c])
        => InOrder(req[c], Handled(c), h[c].msg.id, Tail(rep[c]), sent[c])
    BY <1>1, <2>1, Consumed
  <2>3. Handled(c)' = Handled(c)
    BY <2>1 DEF Handled
  <2>4. InPlace(c)'
    BY <1>1, <2>1, <2>2, <2>3 DEF InPlace
  <2> QED BY <2>1, <2>4, OnePlace
<1>5. CASE \/ \E s \in Server : ConnectRefused(c, s)
           \/ ReadReset(c) \/ ReadEnd(c) \/ Timeout(c)
  <2>1. /\ cl'[c] \in {"idle", "spin", "gone"}
        /\ h' = h /\ req' = req /\ rep' = rep /\ sent' = sent
        /\ link'[c] = "open" => link[c] = "open"
        /\ \A d \in Client : d # c => cl'[d] = cl[d] /\ link'[d] = link[d]
    BY <1>1, <1>5 DEF ConnectRefused, ReadReset, ReadEnd, Timeout, CallFails, ClientStep, netVars
  <2>2. InPlace(c)'
    BY <1>1, <2>1 DEF InPlace, Handled
  <2> QED BY <2>1, <2>2, OnePlace
<1>6. CASE Quit(c)
  <2>1. /\ cl'[c] = "gone" /\ link'[c] # "open"
        /\ h' = h /\ req' = req /\ sent' = sent
        /\ \A d \in Client : d # c => cl'[d] = cl[d] /\ link'[d] = link[d] /\ rep'[d] = rep[d]
    BY <1>1, <1>6 DEF Quit, Ends
  <2>2. InPlace(c)'
    BY <2>1 DEF InPlace
  <2> QED BY <2>1, <2>2, OnePlace
<1> QED BY <1>2, <1>3, <1>4, <1>5, <1>6 DEF ClientMove, Read

LEMMA InitPipe == Init => PipeInv
<1> SUFFICES ASSUME Init, NEW c \in Client PROVE InPlace(c)
  BY DEF PipeInv
<1> QED BY DEF Init, InPlace, NoThread, Outside

LEMMA NextPipe == TypeInv /\ PipeInv /\ [Next]_kvVars => PipeInv'
<1> SUFFICES ASSUME TypeInv, PipeInv, [Next]_kvVars PROVE PipeInv'
  OBVIOUS
<1>1. CASE UNCHANGED <<h, netVars, clientVars>>
  BY <1>1 DEF PipeInv, InPlace, Handled, netVars, clientVars
<1>2. ASSUME NEW s \in Server, Kill(s) \/ Start(s) \/ Collapse(s) PROVE PipeInv'
  BY <1>1, <1>2, DiePipe DEF Kill, Start, Collapse
<1> QED BY <1>1, <1>2, HandlerPipe, ClientPipe DEF Next, ClientMove, kvVars

LEMMA PendingNumbers ==
  \A c \in Client : Pending(c) = Numbers(req[c], Handled(c), h[c].msg.id, rep[c])
<1> SUFFICES ASSUME NEW c \in Client
             PROVE  Pending(c) = Numbers(req[c], Handled(c), h[c].msg.id, rep[c])
  OBVIOUS
<1>1. (Handled(c) = 1) = (h[c].pc \in Busy)
  BY DEF Handled
<1> QED BY <1>1 DEF Pending, Numbers

(* What the places hold, taken together, is what Pipeline says.            *)
LEMMA PlacesMakePipeline == TypeInv /\ PipeInv => Pipeline
<1> SUFFICES ASSUME TypeInv, PipeInv, NEW c \in Client, link[c] = "open"
             PROVE  LET n == Len(Pending(c))
                    IN  /\ Pending(c) = [i \in 1..n |-> sent[c] - n + i]
                        /\ cl[c] = "wait" => n > 0
  BY DEF Pipeline
<1>1. /\ InPlace(c) /\ sent[c] \in Nat /\ Handled(c) \in {0, 1}
      /\ req[c] \in Seq(Message) /\ rep[c] \in Seq(Reply)
  BY PlaceTypes DEF PipeInv
<1>2. InOrder(req[c], Handled(c), h[c].msg.id, rep[c], sent[c])
  BY <1>1 DEF InPlace
<1>3. Pending(c) = Numbers(req[c], Handled(c), h[c].msg.id, rep[c])
  BY PendingNumbers
<1>4. /\ Len(Pending(c)) = Len(rep[c]) + Handled(c) + Len(req[c])
      /\ Pending(c) = UpTo(sent[c], Len(Pending(c)))
  BY <1>1, <1>2, <1>3, Interval
<1>5. cl[c] = "wait" => Len(rep[c]) + Handled(c) + Len(req[c]) > 0
  <2>1. /\ Len(rep[c]) \in Nat /\ Len(req[c]) \in Nat
        /\ rep[c] # <<>> => Len(rep[c]) > 0
        /\ req[c] # <<>> => Len(req[c]) > 0
    BY <1>1
  <2>2. cl[c] = "wait" => Len(rep[c]) > 0 \/ Handled(c) = 1 \/ Len(req[c]) > 0
    BY <1>1, <2>1 DEF InPlace, Handled
  <2> QED BY <1>1, <2>1, <2>2
<1> QED BY <1>4, <1>5 DEF UpTo

(* While a connection is open its requests are answered in order and       *)
(* exactly once, for any number of clients, requests and time limits, and  *)
(* a client waits only for an answer that is to come.                      *)
THEOREM AnswersInOrder == Spec => []Pipeline
BY InitPipe, NextPipe, SpecTypeInv, PlacesMakePipeline, PTL DEF Spec

-----------------------------------------------------------------------------
(* The last PUT of a client.  Until it is in the table it is the last of   *)
(* the waiting requests, or in the hands of the thread inside table_put.   *)

LastPlace(c) ==
  /\ cl[c] = "new" => cur[c] = NULL
  /\ link[c] = "open" /\ cur[c] # NULL /\ cur[c].op = "put" =>
       \/ req[c] # <<>> /\ req[c][Len(req[c])] = cur[c]
       \/ req[c] = <<>> /\ h[c].pc \in InPut /\ h[c].msg = cur[c]
       \/ Kept(srv[c], cur[c].key)

LastInv == \A c \in Client : LastPlace(c)

LEMMA StaysKept ==
  ASSUME TypeInv, HeldInv, NEW c \in Client, Stable(Server), link[c] = "open",
         cur[c] # NULL, Kept(srv[c], cur[c].key), srv'[c] = srv[c], cur'[c] = cur[c]
  PROVE  Kept(srv[c], cur[c].key)'
<1>1. cur[c].key \in Key /\ srv[c] \in Server
  BY DEF TypeInv, TypeOK, Message, HeldInv, Knows
<1> QED BY <1>1 DEF Stable

(* A client whose connection a step does not touch, or only ends, and      *)
(* whose thread stays where it is.                                         *)
LEMMA StillLast ==
  ASSUME TypeInv, HeldInv, NEW c \in Client, LastPlace(c), NEW S, Stable(S),
         srv[c] \in Server => srv[c] \in S,
         h'[c].pc = h[c].pc, h'[c].msg = h[c].msg,
         srv'[c] = srv[c], req'[c] = req[c], cl'[c] = "new" => cl[c] = "new",
         link'[c] = "open" => link[c] = "open" /\ cur'[c] = cur[c],
         cur'[c] = cur[c] \/ cl'[c] # "new"
  PROVE  LastPlace(c)'
<1>1. /\ cur[c] # NULL => cur[c].key \in Key
      /\ link[c] = "open" => srv[c] \in Server
  BY DEF TypeInv, TypeOK, Message, HeldInv, Knows
<1> QED BY <1>1 DEF LastPlace, Stable

LEMMA DieLast ==
  ASSUME TypeInv, TypeInv', HeldInv, LastInv, NEW s \in Server, Die(s), UNCHANGED clientVars
  PROVE  LastInv'
<1>1. h \in [Client -> Thread] /\ link \in [Client -> LinkState] /\ req \in [Client -> Seq(Message)]
  BY DEF TypeInv, TypeOK
<1>2. ASSUME NEW c \in Client PROVE LastPlace(c)'
  <2>1. LastPlace(c) /\ cl' = cl /\ cur' = cur /\ srv' = srv
    BY DEF LastInv, Die, clientVars
  <2>2. CASE srv[c] = s
    <3>1. link'[c] # "open"
      BY <1>1, <2>2 DEF Die
    <3> QED BY <2>1, <3>1 DEF LastPlace
  <2>3. CASE srv[c] # s
    <3>1. h'[c] = h[c] /\ req'[c] = req[c] /\ link'[c] = link[c]
      BY <1>1, <2>3 DEF Die
    <3> QED BY <2>1, <2>3, <3>1, StillLast, DieStable
  <2> QED BY <2>2, <2>3
<1> QED BY <1>2 DEF LastInv

(* A step of one thread, or of one client, that loses no key.              *)
LEMMA OneLast ==
  ASSUME TypeInv, HeldInv, LastInv, Stable(Server), NEW c \in Client, LastPlace(c)',
         \A d \in Client : d # c =>
           /\ h'[d] = h[d] /\ srv'[d] = srv[d] /\ link'[d] = link[d]
           /\ req'[d] = req[d] /\ cl'[d] = cl[d] /\ cur'[d] = cur[d]
  PROVE  LastInv'
<1>1. ASSUME NEW d \in Client, d # c PROVE LastPlace(d)'
  <2>1. LastPlace(d)
    BY DEF LastInv
  <2> QED BY <1>1, <2>1, StillLast
<1> QED BY <1>1 DEF LastInv

(* What remains of a sequence ends as it did. *)
LEMMA LastOfTail ==
  ASSUME NEW M, NEW q \in Seq(M), q # <<>>
  PROVE  \/ Tail(q) = <<>> /\ Head(q) = q[Len(q)]
         \/ Tail(q) # <<>> /\ Tail(q)[Len(Tail(q))] = q[Len(q)]
<1>1. /\ Len(q) \in Nat /\ Len(q) > 0 /\ Len(Tail(q)) = Len(q) - 1 /\ Head(q) = q[1]
      /\ Tail(q) \in Seq(M)
      /\ \A i \in 1..Len(Tail(q)) : Tail(q)[i] = q[i + 1]
  OBVIOUS
<1>2. CASE Len(q) = 1
  <2>1. Len(Tail(q)) = 0
    BY <1>1, <1>2
  <2>2. Tail(q) = <<>>
    BY <1>1, <2>1, EmptySeq
  <2> QED BY <1>1, <1>2, <2>2
<1>3. CASE Len(q) # 1
  <2>1. Len(Tail(q)) \in 1..Len(Tail(q)) /\ Len(Tail(q)) + 1 = Len(q)
    BY <1>1, <1>3
  <2>2. Tail(q)[Len(Tail(q))] = q[Len(Tail(q)) + 1]
    BY <1>1, <2>1
  <2>3. Tail(q) # <<>>
    <3>1. Len(Tail(q)) # 0
      BY <1>1, <2>1
    <3> QED BY <3>1, EmptySeq
  <2> QED BY <2>1, <2>2, <2>3
<1> QED BY <1>2, <1>3

(* The steps of a thread lose no key, as long as the process lasts.        *)
LEMMA HandlerStable ==
  ASSUME TypeInv, TypeInv', NEW c \in Client, Quiet(c) \/ ListEnd(c)
  PROVE  Stable(Server)
<1>1. CASE ListEnd(c)
  BY <1>1, RemovalStable, PutAddStable DEF ListEnd, Removal
<1>2. CASE Quiet(c)
  <2>1. TypeOK /\ Attached
    BY DEF TypeInv
  <2>2. UNCHANGED <<tbl, overlaps, srv>> /\ \A d \in Client : d # c => h'[d] = h[d]
    BY <1>2, <2>1, QuietFrame, MovedThread
  <2>3. h[c].pc \in {"put_add", "post"} => srv[c] \in Server /\ wild[srv[c]]
    <3>1. h[c].pc \in {"put_add", "post"} => Misused(c)
      BY <1>2 DEF Quiet, Accept, Receive, ReceiveEnd, ReceiveReset, PutGet, Refuse, SendReply,
             SendToClosed, InCall, HandlerStep
    <3> QED BY <2>1, <3>1, CallerOf DEF Misused, Busy, CallPc
  <2> QED BY <2>2, <2>3, QuietStable
<1> QED BY <1>1, <1>2

(* Before list_add ends, its key is kept by the thread that runs it.       *)
LEMMA SameRequestLast ==
  ASSUME TypeInv, TypeInv', HeldInv, LastInv, NEW c \in Client, Quiet(c) \/ ListEnd(c),
         ~Receive(c), ~SendReply(c), ~SendToClosed(c)
  PROVE  LastInv'
<1>0. TypeOK /\ Attached
  BY DEF TypeInv
<1>1. PICK pc \in Pc, code \in Code :
        /\ Becomes(c, pc, h[c].msg, code)
        /\ h[c].pc \in InPut => pc \in InPut \/ h[c].pc = "put_add"
  BY <1>0, SameRequest
<1>2. /\ h'[c].pc = pc /\ h'[c].msg = h[c].msg
      /\ \A d \in Client : d # c => h'[d] = h[d]
  <2>1. h[c].msg \in Message \cup {NULL}
    BY <1>0 DEF TypeOK, Thread
  <2> QED BY <1>0, <1>1, <2>1, BecomesThread
<1>3. UNCHANGED <<link, req, rep, srv, clientVars>>
  BY <1>0, SameRequest
<1>4. Stable(Server)
  BY HandlerStable
<1>5. /\ LastPlace(c) /\ (link[c] = "open" => srv[c] \in Server)
      /\ cur[c] # NULL => cur[c].key \in Key
  BY <1>0 DEF LastInv, HeldInv, Knows, TypeOK, Message
<1>6. ASSUME h[c].pc = "put_add", h[c].msg = cur[c], cur[c] # NULL, link[c] = "open"
      PROVE  Kept(srv[c], cur[c].key)
  <2>1. Holds(c, srv[c], cur[c].key)
    BY <1>6 DEF Holds
  <2> QED BY <1>0, <1>5, <1>6, <2>1, KeptMeans
<1>7. LastPlace(c)'
  <2>1. UNCHANGED <<link, req, srv, cl, cur>>
    BY <1>3 DEF clientVars
  <2>2. SUFFICES ASSUME link[c] = "open", cur[c] # NULL, cur[c].op = "put"
                 PROVE  \/ req[c] # <<>> /\ req[c][Len(req[c])] = cur[c]
                        \/ req[c] = <<>> /\ h'[c].pc \in InPut /\ h'[c].msg = cur[c]
                        \/ Kept(srv[c], cur[c].key)'
    BY <1>5, <2>1 DEF LastPlace
  <2>3. Kept(srv[c], cur[c].key) => Kept(srv[c], cur[c].key)'
    BY <1>4, <2>1, <2>2, StaysKept
  <2>4. CASE req[c] = <<>> /\ h[c].pc \in InPut /\ h[c].msg = cur[c]
    <3>1. pc \in InPut \/ Kept(srv[c], cur[c].key)
      BY <1>1, <1>6, <2>2, <2>4
    <3> QED BY <1>2, <2>3, <2>4, <3>1
  <2> QED BY <1>5, <2>2, <2>3, <2>4 DEF LastPlace
<1> QED BY <1>2, <1>3, <1>4, <1>7, OneLast DEF clientVars

LEMMA HandlerLast ==
  ASSUME TypeInv, TypeInv', HeldInv, LastInv, NEW c \in Client, Handler(c) \/ Misused(c)
  PROVE  LastInv'
<1>0. TypeOK /\ Attached
  BY DEF TypeInv
<1>1. /\ LastPlace(c) /\ (link[c] = "open" => srv[c] \in Server)
      /\ req \in [Client -> Seq(Message)] /\ link \in [Client -> LinkState]
      /\ cur[c] # NULL => cur[c].key \in Key
  BY <1>0 DEF TypeOK, LastInv, HeldInv, Knows, Message
<1>2. CASE srv[c] \in Server /\ Die(srv[c]) /\ UNCHANGED clientVars
  BY <1>2, DieLast
<1>3. CASE Begin(c)
  <2>1. UNCHANGED <<netVars, clientVars>> /\ \A d \in Client : h'[d].pc = h[d].pc /\ h'[d].msg = h[d].msg
    BY <1>0, <1>3, BeginStep, SpoilThreads, EntersThreads
  <2>2. Stable(Server)
    BY <1>3, BeginStable
  <2> QED BY <2>1, <2>2, StillLast DEF LastInv, netVars, clientVars
<1>4. CASE Receive(c)
  <2>1. /\ h[c].pc = "recv" /\ req[c] # <<>> /\ req'[c] = Tail(req[c])
        /\ UNCHANGED <<link, srv, clientVars>>
        /\ \A d \in Client : d # c => req'[d] = req[d]
    BY <1>1, <1>4 DEF Receive, HandlerStep
  <2>2. /\ h'[c].msg = Head(req[c])
        /\ Head(req[c]).op = "put" => h'[c].pc = "put_get"
        /\ \A d \in Client : d # c => h'[d] = h[d]
    BY <1>0, <1>4, TakenThread
  <2>3. \/ req'[c] = <<>> /\ h'[c].msg = req[c][Len(req[c])]
        \/ req'[c] # <<>> /\ req'[c][Len(req'[c])] = req[c][Len(req[c])]
    BY <1>1, <2>1, <2>2, LastOfTail
  <2>4. Stable(Server)
    BY <1>4, HandlerStable DEF Quiet
  <2>5. LastPlace(c)'
    <3>1. link' = link /\ srv' = srv /\ cl' = cl /\ cur' = cur
      BY <2>1 DEF clientVars
    <3>2. SUFFICES ASSUME link[c] = "open", cur[c] # NULL, cur[c].op = "put"
                   PROVE  \/ req'[c] # <<>> /\ req'[c][Len(req'[c])] = cur[c]
                          \/ req'[c] = <<>> /\ h'[c].pc \in InPut /\ h'[c].msg = cur[c]
                          \/ Kept(srv[c], cur[c].key)'
      BY <1>1, <3>1 DEF LastPlace
    <3>3. CASE Kept(srv[c], cur[c].key)
      BY <2>4, <3>1, <3>2, <3>3, StaysKept
    <3>4. CASE req[c][Len(req[c])] = cur[c]
      BY <2>1, <2>2, <2>3, <3>2, <3>4 DEF InPut
    <3> QED BY <1>1, <2>1, <3>2, <3>3, <3>4 DEF LastPlace, InPut
  <2> QED BY <2>1, <2>2, <2>4, <2>5, OneLast DEF clientVars
<1>5. CASE SendReply(c) \/ (SendToClosed(c) /\ ~Die(srv[c]))
  <2>1. /\ NextMessage(c) /\ h[c].pc = "send" /\ UNCHANGED <<req, srv, clientVars>>
        /\ \/ link' = link
           \/ link' = [link EXCEPT ![c] = IF @ = "clientRst" THEN "clientGone" ELSE @]
    BY <1>5 DEF SendReply, SendToClosed, HandlerStep
  <2>2. \A d \in Client : d # c => h'[d] = h[d] /\ link'[d] = link[d]
    BY <1>0, <1>1, <2>1, NextThread
  <2>3. link'[c] = "open" => link[c] = "open"
    BY <1>1, <2>1
  <2>4. Stable(Server)
    BY <1>5, HandlerStable DEF Quiet
  <2>5. LastPlace(c)'
    <3>1. req' = req /\ srv' = srv /\ cl' = cl /\ cur' = cur
      BY <2>1 DEF clientVars
    <3>2. link[c] = "open" /\ cur[c] # NULL /\ Kept(srv[c], cur[c].key) => Kept(srv[c], cur[c].key)'
      BY <2>4, <3>1, StaysKept
    <3>3. h[c].pc \notin InPut
      BY <2>1 DEF InPut
    <3> QED BY <1>1, <2>3, <3>1, <3>2, <3>3 DEF LastPlace
  <2> QED BY <2>1, <2>2, <2>4, <2>5, OneLast DEF clientVars
<1>6. CASE (Quiet(c) \/ ListEnd(c)) /\ ~Receive(c) /\ ~SendReply(c) /\ ~SendToClosed(c)
  BY <1>6, SameRequestLast
<1>7. Quiet(c) \/ ListEnd(c) => ~Die(srv[c])
  BY ClosedThenDown
<1> QED BY <1>0, <1>2, <1>3, <1>4, <1>5, <1>6, <1>7, HandlerCases, PutAddEnds DEF Removal, ListEnd

(* So do those of a client. *)
LEMMA ClientStable ==
  ASSUME TypeInv, TypeInv', NEW c \in Client, ClientMove(c)
  PROVE  Stable(Server)
<1>0. TypeOK /\ Attached
  BY DEF TypeInv
<1>1. UNCHANGED <<tbl, overlaps>>
  BY <1>0, ClientFrame DEF serverVars
<1>2. CASE /\ h[c].pc = "none"
           /\ \A d \in Client : d # c => h'[d] = h[d] /\ srv'[d] = srv[d]
  BY <1>1, <1>2, QuietStable
<1>3. CASE h' = h /\ srv' = srv
  <2> SUFFICES ASSUME NEW s \in Server, NEW k \in Key, Kept(s, k)
               PROVE  Kept(s, k)'
    BY DEF Stable
  <2>1. Has(s, k)' <=> Has(s, k)
    BY <1>1 DEF Has, overlaps
  <2>2. \A d \in Client : Holds(d, s, k)' <=> Holds(d, s, k)
    BY <1>3 DEF Holds
  <2> QED BY <2>1, <2>2, KeptMeans DEF TypeInv
<1>4. \/ h' = h /\ srv' = srv
      \/ /\ h[c].pc = "none"
         /\ \A d \in Client : d # c => h'[d] = h[d] /\ srv'[d] = srv[d]
  BY <1>0, ClientFrame
<1> QED BY <1>2, <1>3, <1>4

LEMMA ClientLast ==
  ASSUME TypeInv, TypeInv', HeldInv, PipeInv, LastInv, NEW c \in Client, ClientMove(c)
  PROVE  LastInv'
<1>1. /\ TypeOK /\ Attached /\ LastPlace(c) /\ InPlace(c)
      /\ link \in [Client -> LinkState] /\ cl \in [Client -> ClientState]
      /\ req \in [Client -> Seq(Message)] /\ srv \in [Client -> Server \cup {NONE}]
      /\ cur \in [Client -> Message \cup {NULL}]
      /\ sent \in [Client -> 0..MaxSent] /\ sent[c] \in Nat /\ MaxSent \in Nat
  BY ServerAssumption, SMTT(40) DEF TypeInv, TypeOK, LastInv, PipeInv
<1>0. Stable(Server)
  BY ClientStable
<1>2. ASSUME NEW s \in Server, Connect(c, s) PROVE LastInv'
  <2>1. /\ cl[c] = "new" /\ cl'[c] = "idle" /\ req' = req /\ cur' = cur
        /\ \A d \in Client : d # c => srv'[d] = srv[d] /\ link'[d] = link[d] /\ cl'[d] = cl[d]
    BY <1>1, <1>2 DEF Connect, ClientStep
  <2>2. \A d \in Client : d # c => h'[d] = h[d]
    BY <1>1, <1>2, ClientFrame DEF ClientMove
  <2>3. LastPlace(c)'
    BY <1>1, <2>1 DEF LastPlace
  <2> QED BY <1>0, <2>1, <2>2, <2>3, OneLast
<1>3. ASSUME NEW op \in Op, NEW k \in Key, NEW v \in Value, Send(c, op, k, v) PROVE LastInv'
  <2> DEFINE r == Request(c, op, k, v)
  <2>1. /\ cl'[c] = "wait" /\ cur'[c] = r /\ req'[c] = Append(req[c], r)
        /\ sent[c] < MaxSent /\ h' = h /\ srv' = srv /\ link' = link
        /\ \A d \in Client : d # c => cl'[d] = cl[d] /\ cur'[d] = cur[d] /\ req'[d] = req[d]
    BY <1>1, <1>3 DEF Send, ClientStep
  <2>2. r \in Message
    BY <1>1, <2>1 DEF Request, Message
  <2> HIDE DEF r
  <2>3. Append(req[c], r) # <<>> /\ Append(req[c], r)[Len(Append(req[c], r))] = r
    BY <1>1, <2>2, AppendLast
  <2>4. LastPlace(c)'
    BY <2>1, <2>3 DEF LastPlace
  <2> QED BY <1>0, <2>1, <2>4, OneLast
<1>4. ASSUME NEW op \in Op, NEW k \in Key, NEW v \in Value, SendToDead(c, op, k, v) PROVE LastInv'
  <2>1. /\ cl[c] = "idle" /\ cl'[c] # "new" /\ link'[c] # "open"
        /\ h' = h /\ srv' = srv /\ req' = req
        /\ \A d \in Client : d # c =>
             cl'[d] = cl[d] /\ cur'[d] = cur[d] /\ link'[d] = link[d]
    BY <1>1, <1>4 DEF SendToDead, Ends, ClientStep
  <2>2. LastPlace(c)'
    BY <2>1 DEF LastPlace
  <2> QED BY <1>0, <2>1, <2>2, OneLast
<1>5. CASE Quit(c)
  <2>1. /\ cl'[c] = "gone" /\ link'[c] # "open" /\ h' = h /\ srv' = srv /\ req' = req
        /\ \A d \in Client : d # c =>
             cl'[d] = cl[d] /\ cur'[d] = cur[d] /\ link'[d] = link[d]
    BY <1>1, <1>5 DEF Quit, Ends
  <2>2. LastPlace(c)'
    BY <2>1 DEF LastPlace
  <2> QED BY <1>0, <2>1, <2>2, OneLast
<1>6. CASE \/ \E s \in Server : ConnectRefused(c, s)
           \/ Read(c) \/ Timeout(c)
  <2>1. /\ cl'[c] \in {"idle", "spin", "gone"}
        /\ h' = h /\ srv' = srv /\ req' = req /\ cur' = cur
        /\ link'[c] = "open" => link[c] = "open"
        /\ \A d \in Client : d # c => cl'[d] = cl[d] /\ link'[d] = link[d]
    BY <1>1, <1>6 DEF ConnectRefused, Read, ReadReply, ReadReset, ReadEnd, Timeout,
                      CallFails, ClientStep, netVars
  <2>2. LastPlace(c)'
    BY <1>0, <1>1, <2>1, StillLast
  <2> QED BY <1>0, <2>1, <2>2, OneLast
<1> QED BY <1>2, <1>3, <1>4, <1>5, <1>6 DEF ClientMove, Command

LEMMA InitLast == Init => LastInv
  BY DEF Init, LastInv, LastPlace

LEMMA NextLast == TypeInv /\ HeldInv /\ PipeInv /\ LastInv /\ [Next]_kvVars => LastInv'
<1> SUFFICES ASSUME TypeInv, HeldInv, PipeInv, LastInv, [Next]_kvVars PROVE LastInv'
  OBVIOUS
<1>0. TypeInv'
  BY NextTypeInv
<1>1. CASE UNCHANGED <<tbl, overlaps, h, netVars, clientVars>>
  BY <1>1 DEF LastInv, LastPlace, Kept, Held, At, overlaps, netVars, clientVars
<1>2. ASSUME NEW s \in Server, Kill(s) \/ Start(s) \/ Collapse(s) PROVE LastInv'
  BY <1>0, <1>1, <1>2, DieLast DEF Kill, Start, Collapse
<1> QED BY <1>0, <1>1, <1>2, HandlerLast, ClientLast DEF Next, ClientMove, kvVars, serverVars

(* While a request is on the connection its number is among the pending    *)
(* ones, as is the last number sent.                                       *)
LEMMA LastIsPending ==
  ASSUME TypeInv, PipeInv, Pipeline, NEW c \in Client, link[c] = "open",
         NEW m \in Message,
         \/ req[c] # <<>> /\ req[c][Len(req[c])] = m
         \/ req[c] = <<>> /\ h[c].pc \in Busy /\ h[c].msg = m
  PROVE  \E i \in DOMAIN Pending(c) : Pending(c)[i] = m.id
<1>1. /\ sent[c] \in Nat /\ req[c] \in Seq(Message) /\ rep[c] \in Seq(Reply)
      /\ Handled(c) \in {0, 1}
      /\ InOrder(req[c], Handled(c), h[c].msg.id, rep[c], sent[c])
  BY PlaceTypes DEF PipeInv, InPlace
<1>2. m.id = sent[c] /\ Len(req[c]) + Handled(c) > 0
  <2>1. CASE req[c] # <<>>
    <3>1. Len(req[c]) \in Nat /\ Len(req[c]) > 0
      BY <1>1, <2>1, EmptySeq
    <3>2. req[c][Len(req[c])].id = sent[c]
      BY <1>1, <2>1, LastNumber
    <3> QED BY <1>1, <2>1, <3>1, <3>2
  <2>2. CASE req[c] = <<>>
    <3>1. Len(req[c]) = 0 /\ Handled(c) = 1
      BY <2>2, EmptySeq DEF Handled
    <3> QED BY <1>1, <2>2, <3>1 DEF InOrder
  <2> QED BY <2>1, <2>2
<1>3. Len(Pending(c)) = Len(rep[c]) + Handled(c) + Len(req[c])
  BY <1>1, PendingNumbers, Interval
<1>4. Pending(c) = UpTo(sent[c], Len(Pending(c)))
  BY <1>1, PendingNumbers, Interval
<1>5. Len(Pending(c)) \in Nat /\ Len(Pending(c)) > 0
  BY <1>1, <1>2, <1>3
<1>6. /\ Len(Pending(c)) \in DOMAIN Pending(c)
      /\ Pending(c)[Len(Pending(c))] = sent[c] - Len(Pending(c)) + Len(Pending(c))
  <2> DEFINE n == Len(Pending(c))
  <2>1. n \in DOMAIN UpTo(sent[c], n) /\ UpTo(sent[c], n)[n] = sent[c] - n + n
    <3> HIDE DEF n
    <3> QED BY <1>5 DEF UpTo, n
  <2> QED BY <1>4, <2>1
<1>7. sent[c] - Len(Pending(c)) + Len(Pending(c)) = sent[c]
  BY <1>1, <1>5
<1> QED BY <1>2, <1>6, <1>7

(* A PUT that is the last request of a client and is not under way any     *)
(* more is lost, while the connection lasts, only as an answered one is,   *)
(* whatever the calls of the client have returned.                         *)
THEOREM LastPutsStay == Spec => []LastPutHeld
<1>1. TypeInv /\ PipeInv /\ Pipeline /\ LastInv => LastPutHeld
  <2> SUFFICES ASSUME TypeInv, PipeInv, Pipeline, LastInv, NEW c \in Client,
                      link[c] = "open", cur[c] # NULL, cur[c].op = "put",
                      \A i \in DOMAIN Pending(c) : Pending(c)[i] # cur[c].id
               PROVE  Kept(srv[c], cur[c].key)
    BY DEF LastPutHeld
  <2>1. cur[c] \in Message /\ LastPlace(c)
    BY DEF TypeInv, TypeOK, LastInv
  <2>2. /\ ~(req[c] # <<>> /\ req[c][Len(req[c])] = cur[c])
        /\ ~(req[c] = <<>> /\ h[c].pc \in Busy /\ h[c].msg = cur[c])
    BY <2>1, LastIsPending
  <2> QED BY <2>1, <2>2 DEF LastPlace, InPut, Busy, CallPc
<1> QED BY <1>1, InitLast, NextLast, InitPipe, NextPipe, AnswersInOrder, SpecTypeInv, SpecHeldInv,
           PTL DEF Spec
=============================================================================
