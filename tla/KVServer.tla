------------------------------- MODULE KVServer -------------------------------
(***************************************************************************)
(* The server processes and the clients connected to them: the accept loop *)
(* and the handler threads of source/server_network.c, invoke() of         *)
(* source/server_skeleton.c, the remote table of source/client_stub.c and  *)
(* source/client_network.c, and the command loop of client_hashtable.c.    *)
(*                                                                         *)
(* The handler threads of a server share its table and take no lock: they  *)
(* interleave between the list calls of table_put and overlap inside them. *)
(* A list call (list_get, list_remove, list_add) has a first step, Begin,  *)
(* and a last one, with the effect that the calls it met allow:            *)
(*  - none: that of module TableOps;                                       *)
(*  - insertions, none of which frees memory: some of the new keys may be  *)
(*    left out and the counter may be wrong, but nothing else is lost      *)
(*    (module SharedList, which has the loads and stores, shows this);     *)
(*  - a call that frees memory next to any other one: the other one may    *)
(*    follow a pointer into memory that is free or in use for something    *)
(*    else.  From then on the list calls of the server may go on in any    *)
(*    way, never return, or end the process.  That misused memory garbles  *)
(*    other data of the process than its lists is left out.                *)
(*                                                                         *)
(* The flag is_tail is 0 and next_server_path is empty in every server of  *)
(* the program as built (module Membership shows why).  So every operation *)
(* that only reads the table is refused, and replicate_to_successor ends   *)
(* in its "no successor" branch, which changes nothing.                    *)
(***************************************************************************)
EXTENDS TableOps

CONSTANTS
  Server,   \* server processes
  Client,   \* client processes, each of which connects at most once
  Op,       \* the commands the users give
  MaxSent,  \* bound: requests a client sends
  Killable, \* the servers that users stop
  NONE      \* no server, no result

ReadOp  == {"get", "size", "gettable", "stats"}  \* refused with OP_ERROR
WriteOp == {"put", "del"}

ASSUME ServerAssumption ==
  /\ Op \subseteq WriteOp \cup ReadOp \cup {"getkeys"}
  /\ MaxSent \in Nat
  /\ IsFiniteSet(Client)
  /\ Killable \subseteq Server
  /\ NONE \notin Server

VARIABLES
  up,         \* is the process of a server running
  tbl,        \* server->table of each server
  connected,  \* statistics->connected_clients of each server
  flight,     \* its list_adds that run, and those that ended while one ran
              \* that they overlapped: pairs of the client and the message
  wild,       \* a call that frees memory overlapped another one
  raced,      \* slots whose list was changed by insertions that overlapped
  lost,       \* keys that such an insertion has left out
  h,          \* the handler thread of each client's connection
  srv,        \* the server at the other end of a client's socket
  link,       \* the state of that connection
  req, rep,   \* the bytes on their way to the server and to the client
  cl,         \* where the client program is
  cur,        \* the request of the client's current rtable_ call
  sent,       \* number of requests the client has sent
  res         \* what the client's last rtable_ call returned

overlaps   == <<flight, wild, raced, lost>>
serverVars == <<up, tbl, connected, overlaps>>
netVars    == <<srv, link, req, rep>>
clientVars == <<cl, cur, sent, res>>
kvVars     == <<serverVars, h, netVars, clientVars>>

(* Messages.  A request carries its number, which the protocol does not    *)
(* have: it lets properties say which request a reply answers.             *)
Message == [op : Op, key : Key, value : Value, id : 1..MaxSent]
(* "ok": the opcode of the request plus one; "error": OP_ERROR; "same": the *)
(* request itself, unchanged.                                              *)
Reply == [op : Op, key : Key, code : {"ok", "error", "same"}, id : 1..MaxSent]

(* A handler thread: its program counter, the message it holds, the opcode *)
(* of the answer, and whether it is inside the list call that pc names;    *)
(* if so, met has the keys of the insertions that overlapped this call.    *)
(* pc: "none" no thread; "backlog" the connection waits for accept;        *)
(* "recv" in network_receive; "spin" in read_all at the end of the stream; *)
(* "exit" thread ended; the others are inside invoke and handle_client.    *)
CallPc == {"put_get", "put_remove", "put_add", "del"}
Busy == CallPc \cup {"read", "post", "send"}
Pc   == {"none", "backlog", "recv", "spin", "exit"} \cup Busy
Code     == {"ok", "error", "same"}
Outside(pc, m, code) ==
  [pc |-> pc, msg |-> m, code |-> code, inside |-> FALSE, met |-> {}]
NoThread == Outside("none", NULL, "error")
Thread   == [pc : Pc, msg : Message \cup {NULL}, code : Code,
             inside : BOOLEAN, met : SUBSET Key]

(* "serverFin", "clientFin": that end closed its socket; "serverRst",      *)
(* "clientRst": it closed with unread bytes, which resets the connection;  *)
(* "serverGone", "clientGone": a call of the other end has reported the    *)
(* reset.  From then on its reads return 0 and a write raises SIGPIPE.     *)
LinkState == {"none", "open", "serverFin", "serverRst", "serverGone",
              "clientFin", "clientRst", "clientGone"}

Init ==
  /\ up = [s \in Server |-> FALSE]
  /\ tbl = [s \in Server |-> table_create]
  /\ connected = [s \in Server |-> 0]
  /\ flight = [s \in Server |-> {}]
  /\ wild = [s \in Server |-> FALSE]
  /\ raced = [s \in Server |-> {}]
  /\ lost = [s \in Server |-> {}]
  /\ h = [c \in Client |-> NoThread]
  /\ srv = [c \in Client |-> NONE]
  /\ link = [c \in Client |-> "none"]
  /\ req = [c \in Client |-> <<>>]
  /\ rep = [c \in Client |-> <<>>]
  /\ cl = [c \in Client |-> "new"]
  /\ cur = [c \in Client |-> NULL]
  /\ sent = [c \in Client |-> 0]
  /\ res = [c \in Client |-> NONE]

-----------------------------------------------------------------------------
(* The process of a server. *)

(* The process ends: its table, its threads and its sockets are gone.  The *)
(* kernel resets a connection that was not accepted or holds an unread     *)
(* request and closes the others in order; replies already sent arrive.    *)
Die(s) ==
  LET mine == {c \in Client : srv[c] = s}
      end(c) == IF h[c].pc = "backlog" \/ req[c] # <<>>
                THEN "serverRst" ELSE "serverFin"
  IN  /\ up' = [up EXCEPT ![s] = FALSE]
      /\ tbl' = [tbl EXCEPT ![s] = table_create]
      /\ connected' = [connected EXCEPT ![s] = 0]
      /\ flight' = [flight EXCEPT ![s] = {}]
      /\ wild' = [wild EXCEPT ![s] = FALSE]
      /\ raced' = [raced EXCEPT ![s] = {}]
      /\ lost' = [lost EXCEPT ![s] = {}]
      /\ h' = [c \in Client |-> IF c \in mine THEN NoThread ELSE h[c]]
      /\ req' = [c \in Client |-> IF c \in mine THEN <<>> ELSE req[c]]
      /\ link' = [c \in Client |-> IF c \in mine /\ link[c] = "open"
                                   THEN end(c) ELSE link[c]]
      /\ UNCHANGED <<srv, rep>>

(* The user stops the server. *)
Kill(s) ==
  /\ s \in Killable
  /\ up[s]
  /\ Die(s)
  /\ UNCHANGED clientVars

(* main: a new process starts with an empty table.  There is no transfer   *)
(* of state from another server.                                           *)
Start(s) ==
  /\ ~up[s]
  /\ up' = [up EXCEPT ![s] = TRUE]
  /\ UNCHANGED <<tbl, connected, overlaps, h, netVars, clientVars>>

-----------------------------------------------------------------------------
(* The handler thread of client c. *)

(* invoke sets the opcode of the answer and goes on.                       *)
Answer(c, code, pc) ==
  h' = [h EXCEPT ![c] = Outside(pc, @.msg, code)]

Goto(c, pc) == Answer(c, h[c].code, pc)

HandlerStep(c, pc) == h[c].pc = pc /\ UNCHANGED <<srv, clientVars>>

(* accept, pthread_create and the first lines of handle_client. *)
Accept(c) ==
  /\ HandlerStep(c, "backlog")
  /\ connected' = [connected EXCEPT ![srv[c]] = @ + 1]
  /\ Goto(c, "recv")
  /\ UNCHANGED <<up, tbl, overlaps, link, req, rep>>

(* Mutant: the message stays in the stream. *)
ReceiveAgain(c) ==
  /\ HandlerStep(c, "recv")
  /\ req[c] # <<>>
  /\ LET m  == Head(req[c])
         pc == CASE m.op = "put" -> "put_get"
                 [] m.op = "del" -> "del"
                 [] OTHER -> "read"
     IN  h' = [h EXCEPT ![c] = Outside(pc, m, "error")]
  /\ UNCHANGED <<serverVars, link, req, rep>>

(* network_receive returns a message and invoke branches on its opcode. *)
Receive(c) ==
  /\ HandlerStep(c, "recv")
  /\ req[c] # <<>>
  /\ LET m  == Head(req[c])
         pc == CASE m.op = "put" -> "put_get"
                 [] m.op = "del" -> "del"
                 [] OTHER -> "read"
     IN  h' = [h EXCEPT ![c] = Outside(pc, m, "error")]
  /\ req' = [req EXCEPT ![c] = Tail(@)]
  /\ UNCHANGED <<serverVars, link, rep>>

(* Mutant: the end of the stream is taken for a message. *)
ReceiveEmpty(c) ==
  /\ HandlerStep(c, "recv")
  /\ req[c] = <<>>
  /\ link[c] \in {"clientFin", "clientGone"}
  /\ Goto(c, "read")
  /\ UNCHANGED <<serverVars, link, req, rep>>

(* The client is gone: read returns 0, which read_all does not take for an *)
(* end, and calls read again for ever.                                     *)
ReceiveEnd(c) ==
  /\ HandlerStep(c, "recv")
  /\ req[c] = <<>>
  /\ link[c] \in {"clientFin", "clientGone"}
  /\ Goto(c, "spin")
  /\ UNCHANGED <<serverVars, link, req, rep>>

(* Mutant: the counter is not decremented. *)
ReceiveResetUncounted(c) ==
  /\ HandlerStep(c, "recv")
  /\ req[c] = <<>>
  /\ link[c] = "clientRst"
  /\ Goto(c, "exit")
  /\ UNCHANGED <<serverVars, link, req, rep>>

(* The client reset the connection: read returns -1, the thread ends.      *)
ReceiveReset(c) ==
  /\ HandlerStep(c, "recv")
  /\ req[c] = <<>>
  /\ link[c] = "clientRst"
  /\ Goto(c, "exit")
  /\ connected' = [connected EXCEPT ![srv[c]] = @ - 1]
  /\ UNCHANGED <<up, tbl, overlaps, link, req, rep>>

(* The list in the slot of the key of the message that c's handler holds,  *)
(* and the other handlers that are inside a call on that list.             *)
SlotOf(c)   == Hash[h[c].msg.key]
SlotList(c) == tbl[srv[c]][SlotOf(c)]

Mates(c) ==
  {d \in Client \ {c} : srv[d] = srv[c] /\ h[d].inside /\ SlotOf(d) = SlotOf(c)}

SetSlot(c, l) ==
  tbl' = [tbl EXCEPT ![srv[c]] = SlotSet(@, h[c].msg.key, l)]

(* A list_add of the handler, and those on its list that are in flight.    *)
Insertion(c) == <<c, h[c].msg>>
KeysIn(fl)   == {f[2].key : f \in fl}
InFlight(c)  == {f \in flight[srv[c]] : Hash[f[2].key] = SlotOf(c)}

(* The handler inside its list call, which has met these new keys.         *)
Calling(c, met) ==
  [pc |-> h[c].pc, msg |-> h[c].msg, code |-> h[c].code, inside |-> TRUE, met |-> met]

(* The call removes a node, or replaces an entry, that is or may be there. *)
Frees(c, fl) ==
  /\ h[c].pc # "put_get"
  /\ h[c].msg.key \in KeysOf(SlotList(c)) \cup KeysIn(fl \ {Insertion(c)})

(* Memory of the server may be misused from now on.  Its lists mean        *)
(* nothing any more: the model forgets them.                               *)
Spoil(s) ==
  /\ wild' = [wild EXCEPT ![s] = TRUE]
  /\ tbl' = [tbl EXCEPT ![s] = table_create]
  /\ flight' = [flight EXCEPT ![s] = {}]
  /\ raced' = [raced EXCEPT ![s] = {}]
  /\ lost' = [lost EXCEPT ![s] = {}]
  /\ h' = [c \in Client |->
             IF srv[c] = s THEN Outside(h[c].pc, h[c].msg, h[c].code) ELSE h[c]]

(* The handler begins the list call that it has come to.                   *)
Begin(c) ==
  LET s   == srv[c]
      new == IF h[c].pc = "put_add" THEN {Insertion(c)} ELSE {}
  IN  /\ h[c].pc \in CallPc /\ ~h[c].inside
      /\ ~wild[s]
      /\ IF /\ Mates(c) # {}
            /\ \E d \in Mates(c) \cup {c} : Frees(d, InFlight(c) \cup new)
         THEN Spoil(s)
         ELSE /\ flight' = [flight EXCEPT ![s] = @ \cup new]
              /\ h' = [d \in Client |->
                   IF d = c THEN Calling(c, KeysIn(InFlight(c)))
                   ELSE IF d \in Mates(c) THEN Calling(d, h[d].met \cup KeysIn(new))
                   ELSE h[d]]
              /\ UNCHANGED <<tbl, wild, raced, lost>>
      /\ UNCHANGED <<up, connected, netVars, clientVars>>

(* The call that ends. *)
InCall(c, pc) == HandlerStep(c, pc) /\ h[c].inside

(* table_put, first call: list_get.  It may miss, or find, a key that was  *)
(* inserted meanwhile.                                                     *)
PutGet(c) ==
  /\ InCall(c, "put_get")
  /\ \E found \in BOOLEAN :
       /\ \/ found = (list_get(SlotList(c), h[c].msg.key) # NULL)
          \/ h[c].msg.key \in h[c].met
       /\ Goto(c, IF found THEN "put_remove" ELSE "put_add")
  /\ UNCHANGED <<serverVars, link, req, rep>>

(* Mutant: the first node is unlinked when no node has the key. *)
RemovedFirst(c) == {list_remove_first(SlotList(c), h[c].msg.key)}

(* How list_remove may end.  For an absent key: the list may have been     *)
(* empty when it read the first node, if all it holds was inserted since.  *)
Removed(c) ==
  LET l      == SlotList(c)
      absent == {ret \in {1, SEGV} :
                   IF ret = 1 THEN l.head # <<>> \/ h[c].met # {}
                   ELSE KeysOf(l) \subseteq h[c].met}
  IN  IF h[c].msg.key \in KeysOf(l) THEN {list_remove(l, h[c].msg.key)}
      ELSE {[list |-> l, ret |-> ret] : ret \in absent}

(* Mutant: table_put returns after the removal. *)
PutRemoveReturns(c) ==
  /\ InCall(c, "put_remove")
  /\ \E r \in Removed(c) :
       IF r.ret = SEGV
       THEN Die(srv[c])
       ELSE /\ SetSlot(c, r.list)
            /\ Answer(c, "ok", "send")
            /\ UNCHANGED <<up, connected, overlaps, link, req, rep>>

(* table_put, the key was found: list_remove.  Its result is not looked    *)
(* at, but it does not return when another thread has emptied the list.    *)
PutRemove(c) ==
  /\ InCall(c, "put_remove")
  /\ \E r \in Removed(c) :
       IF r.ret = SEGV
       THEN Die(srv[c])
       ELSE /\ SetSlot(c, r.list)
            /\ Goto(c, "put_add")
            /\ UNCHANGED <<up, connected, overlaps, link, req, rep>>

(* The lists that list_add may leave, when no other one runs on the list.  *)
Inserted(c) ==
  LET entry(f) == [key |-> f[2].key, value |-> f[2].value]
  IN  IF InFlight(c) = {Insertion(c)}
      THEN {list_add(SlotList(c), entry(Insertion(c))).list}
      ELSE Overlapped(SlotList(c), {entry(f) : f \in InFlight(c)})

(* The insertions in flight have all ended with this list.                 *)
Settle(c, l) ==
  LET s == srv[c]
  IN  /\ SetSlot(c, l)
      /\ flight' = [flight EXCEPT ![s] = @ \ InFlight(c)]
      /\ raced' = [raced EXCEPT ![s] =
           IF InFlight(c) = {Insertion(c)} THEN @ ELSE @ \cup {SlotOf(c)}]
      /\ lost' = [lost EXCEPT ![s] =
           (@ \ KeysIn(InFlight(c))) \cup (KeysIn(InFlight(c)) \ KeysOf(l))]
      /\ UNCHANGED <<up, connected, wild>>

(* Mutant: no answer is sent. *)
PutAddSilent(c) ==
  /\ InCall(c, "put_add")
  /\ IF \E d \in Mates(c) : h[d].pc = "put_add"
     THEN UNCHANGED serverVars
     ELSE \E l \in Inserted(c) : Settle(c, l)
  /\ Answer(c, "ok", "recv")
  /\ UNCHANGED <<link, req, rep>>

(* table_put, last call: list_add; then invoke sets the answer, and        *)
(* neither call of replicate_to_successor finds a successor.               *)
PutAdd(c) ==
  /\ InCall(c, "put_add")
  /\ IF \E d \in Mates(c) : h[d].pc = "put_add"
     THEN UNCHANGED serverVars
     ELSE \E l \in Inserted(c) : Settle(c, l)
  /\ Answer(c, "ok", "send")
  /\ UNCHANGED <<link, req, rep>>

(* table_remove. *)
Delete(c) ==
  /\ InCall(c, "del")
  /\ \E r \in Removed(c) :
       IF r.ret = SEGV
       THEN Die(srv[c])
       ELSE /\ SetSlot(c, r.list)
            /\ IF r.ret = 0 THEN Answer(c, "ok", "post")
                            ELSE Answer(c, "error", "send")
            /\ UNCHANGED <<up, connected, overlaps, link, req, rep>>

(* A list call returns on a server whose memory was misused: with any      *)
(* result, or with none, for nothing obliges it to.                        *)
Misused(c) ==
  /\ h[c].pc \in CallPc /\ wild[srv[c]]
  /\ CASE h[c].pc = "put_get"    -> \E pc \in {"put_remove", "put_add"} : Goto(c, pc)
       [] h[c].pc = "put_remove" -> Goto(c, "put_add")
       [] h[c].pc = "put_add"    -> \E code \in {"ok", "error"} : Answer(c, code, "send")
       [] h[c].pc = "del"        -> Answer(c, "ok", "post") \/ Answer(c, "error", "send")
  /\ UNCHANGED <<serverVars, netVars, clientVars>>

(* The process ends because its memory was misused.                        *)
Collapse(s) ==
  /\ wild[s]
  /\ Die(s)
  /\ UNCHANGED clientVars

(* handle_client after a removal: msg->entry is NULL in a DEL, and the     *)
(* arguments of replicate_to_successor read it.                            *)
PostDelete(c) ==
  /\ HandlerStep(c, "post")
  /\ Die(srv[c])

(* GET, SIZE, GETTABLE and STATS away from the tail: OP_ERROR.  GETKEYS    *)
(* has no such branch and the request goes back as it came.                *)
Refuse(c) ==
  /\ HandlerStep(c, "read")
  /\ Answer(c, IF h[c].msg.op = "getkeys" THEN "same" ELSE "error", "send")
  /\ UNCHANGED <<serverVars, link, req, rep>>

(* The loop of handle_client goes round.                                   *)
NextMessage(c) == h' = [h EXCEPT ![c] = Outside("recv", NULL, "error")]

(* network_send to a client that is there. *)
SendReply(c) ==
  /\ HandlerStep(c, "send")
  /\ link[c] = "open"
  /\ rep' = [rep EXCEPT ![c] =
               Append(@, [op |-> h[c].msg.op, key |-> h[c].msg.key,
                          code |-> h[c].code, id |-> h[c].msg.id])]
  /\ NextMessage(c)
  /\ UNCHANGED <<serverVars, link, req>>

(* Mutant: the thread ends when its answer cannot be sent. *)
SendToClosedEnds(c) ==
  /\ HandlerStep(c, "send")
  /\ link[c] \in {"clientFin", "clientRst", "clientGone"}
  /\ Goto(c, "exit")
  /\ connected' = [connected EXCEPT ![srv[c]] = @ - 1]
  /\ UNCHANGED <<up, tbl, overlaps, link, req, rep>>

(* network_send to a client that is gone; no result of a write is looked   *)
(* at.  After an orderly close the first write makes the peer reset the    *)
(* connection: the reset arrives after the second write or turns it into   *)
(* SIGPIPE.  After a reset a write reports it, unless the reset is still   *)
(* on its way.  Once it is reported, SIGPIPE.                              *)
SendToClosed(c) ==
  /\ HandlerStep(c, "send")
  /\ \/ /\ link[c] \in {"clientFin", "clientRst"}
        /\ NextMessage(c)
        /\ link' \in {link, [link EXCEPT ![c] = IF @ = "clientRst"
                                               THEN "clientGone" ELSE @]}
        /\ UNCHANGED <<serverVars, req, rep>>
     \/ /\ link[c] \in {"clientFin", "clientGone"}
        /\ Die(srv[c])

(* Every step of a handler but the one that looks at is_tail, and but those *)
(* that misused memory makes.                                              *)
Serve(c) ==
  \/ Accept(c)
  \/ Receive(c)
  \/ ReceiveEnd(c)
  \/ ReceiveReset(c)
  \/ Begin(c)
  \/ PutGet(c)
  \/ PutRemove(c)
  \/ PutAdd(c)
  \/ Delete(c)
  \/ PostDelete(c)
  \/ SendReply(c)
  \/ SendToClosed(c)

Handler(c) == Serve(c) \/ Refuse(c)

-----------------------------------------------------------------------------
(* The client program.  "new" before rtable_connect; "idle" at the prompt; *)
(* "wait" in network_send_receive; "spin" in read_all at the end of the    *)
(* stream; "gone" after it ended.                                          *)

ClientState == {"new", "idle", "wait", "spin", "gone"}

ClientStep(c, state) == cl[c] = state /\ UNCHANGED serverVars

(* network_connect: the kernel of the server accepts the connection.       *)
Connect(c, s) ==
  /\ ClientStep(c, "new")
  /\ up[s]
  /\ cl' = [cl EXCEPT ![c] = "idle"]
  /\ srv' = [srv EXCEPT ![c] = s]
  /\ link' = [link EXCEPT ![c] = "open"]
  /\ h' = [h EXCEPT ![c] = Outside("backlog", NULL, "error")]
  /\ UNCHANGED <<req, rep, cur, sent, res>>

(* Nobody listens at the address: main returns -1. *)
ConnectRefused(c, s) ==
  /\ ClientStep(c, "new")
  /\ ~up[s]
  /\ cl' = [cl EXCEPT ![c] = "gone"]
  /\ UNCHANGED <<h, netVars, cur, sent, res>>

Request(c, op, k, v) == [op |-> op, key |-> k, value |-> v, id |-> sent[c] + 1]

(* The program ends, and its variables with it.                            *)
Ends(c) ==
  /\ cl' = [cl EXCEPT ![c] = "gone"]
  /\ cur' = [cur EXCEPT ![c] = NULL]
  /\ res' = [res EXCEPT ![c] = NONE]

(* network_send_receive up to its reads. *)
Send(c, op, k, v) ==
  /\ ClientStep(c, "idle")
  /\ sent[c] < MaxSent
  /\ link[c] = "open"
  /\ cl' = [cl EXCEPT ![c] = "wait"]
  /\ cur' = [cur EXCEPT ![c] = Request(c, op, k, v)]
  /\ sent' = [sent EXCEPT ![c] = @ + 1]
  /\ req' = [req EXCEPT ![c] = Append(@, Request(c, op, k, v))]
  /\ UNCHANGED <<h, srv, link, rep, res>>

(* The server is gone.  After an orderly close the first write succeeds    *)
(* and provokes a reset, which turns the second into SIGPIPE or comes too  *)
(* late; after a reset the writes fail, unless it is still on its way, and *)
(* once it has been reported a write is SIGPIPE.                           *)
SendToDead(c, op, k, v) ==
  /\ ClientStep(c, "idle")
  /\ sent[c] < MaxSent
  /\ sent' = [sent EXCEPT ![c] = @ + 1]
  /\ \/ /\ link[c] \in {"serverFin", "serverRst"}
        /\ cl' = [cl EXCEPT ![c] = "wait"]
        /\ cur' = [cur EXCEPT ![c] = Request(c, op, k, v)]
        /\ UNCHANGED <<link, res>>
     \/ /\ link[c] = "serverRst"
        /\ link' = [link EXCEPT ![c] = "serverGone"]
        /\ cur' = [cur EXCEPT ![c] = Request(c, op, k, v)]
        /\ res' = [res EXCEPT ![c] = "fail"]
        /\ UNCHANGED cl
     \/ /\ link[c] \in {"serverFin", "serverGone"}
        /\ Ends(c)
        /\ UNCHANGED link
  /\ UNCHANGED <<h, srv, req, rep>>

(* The reads return a message; the stub compares its opcode with the one   *)
(* it expects, and nothing else.                                           *)
ReadReply(c) ==
  /\ ClientStep(c, "wait")
  /\ rep[c] # <<>>
  /\ LET m == Head(rep[c])
     IN  res' = [res EXCEPT ![c] =
                   IF m.code = "ok" /\ m.op = cur[c].op THEN "ok" ELSE "fail"]
  /\ rep' = [rep EXCEPT ![c] = Tail(@)]
  /\ cl' = [cl EXCEPT ![c] = "idle"]
  /\ UNCHANGED <<h, srv, link, req, cur, sent>>

(* read returns -1 and the call fails.  The socket stays in use.           *)
CallFails(c) ==
  /\ ClientStep(c, "wait")
  /\ rep[c] = <<>>
  /\ cl' = [cl EXCEPT ![c] = "idle"]
  /\ res' = [res EXCEPT ![c] = "fail"]
  /\ UNCHANGED <<h, srv, req, rep, cur, sent>>

(* SO_RCVTIMEO: five seconds without a byte. *)
Timeout(c) ==
  /\ link[c] = "open"
  /\ CallFails(c)
  /\ UNCHANGED link

ReadReset(c) ==
  /\ link[c] = "serverRst"
  /\ CallFails(c)
  /\ link' = [link EXCEPT ![c] = "serverGone"]

(* The server closed the connection: read returns 0 and read_all calls it  *)
(* again for ever; the time limit does not apply to a read that returns.   *)
ReadEnd(c) ==
  /\ ClientStep(c, "wait")
  /\ rep[c] = <<>>
  /\ link[c] = "serverFin"
  /\ cl' = [cl EXCEPT ![c] = "spin"]
  /\ UNCHANGED <<h, netVars, cur, sent, res>>

(* The command quit, or the user ends the program.  The kernel resets a    *)
(* connection with unread replies and closes the others in order.          *)
Quit(c) ==
  /\ cl[c] \in {"idle", "wait", "spin"}
  /\ Ends(c)
  /\ link' = [link EXCEPT ![c] = IF @ # "open" THEN @
                                 ELSE IF rep[c] # <<>> THEN "clientRst"
                                 ELSE "clientFin"]
  /\ rep' = [rep EXCEPT ![c] = <<>>]
  /\ UNCHANGED <<serverVars, h, srv, req, sent>>

Command(c) ==
  \E op \in Op, k \in Key, v \in Value : Send(c, op, k, v) \/ SendToDead(c, op, k, v)

Read(c) == ReadReply(c) \/ ReadReset(c) \/ ReadEnd(c)

-----------------------------------------------------------------------------

Next ==
  \/ \E s \in Server : Kill(s) \/ Start(s) \/ Collapse(s)
  \/ \E c \in Client, s \in Server : Connect(c, s) \/ ConnectRefused(c, s)
  \/ \E c \in Client : Handler(c) \/ Misused(c) \/ Command(c) \/ Read(c) \/ Timeout(c) \/ Quit(c)

(* Running threads are scheduled: the handlers of a server and the reads   *)
(* of a client make progress.  Nothing is assumed of users, time limits    *)
(* and failures.                                                           *)
Fairness == \A c \in Client : WF_kvVars(Handler(c)) /\ WF_kvVars(Read(c))

Spec == Init /\ [][Next]_kvVars /\ Fairness

-----------------------------------------------------------------------------
(* Invariants. *)

(* Type invariant; a handler inside invoke has a message.                  *)
TypeOK ==
  /\ up \in [Server -> BOOLEAN]
  /\ tbl \in [Server -> TableType]
  /\ connected \in [Server -> Int]
  /\ flight \in [Server -> SUBSET (Client \X Message)]
  /\ wild \in [Server -> BOOLEAN]
  /\ raced \in [Server -> SUBSET Slot] /\ lost \in [Server -> SUBSET Key]
  /\ h \in [Client -> Thread]
  /\ \A c \in Client : h[c].pc \in Busy => h[c].msg \in Message
  /\ srv \in [Client -> Server \cup {NONE}]
  /\ link \in [Client -> LinkState]
  /\ req \in [Client -> Seq(Message)]
  /\ rep \in [Client -> Seq(Reply)]
  /\ cl \in [Client -> ClientState]
  /\ cur \in [Client -> Message \cup {NULL}]
  /\ sent \in [Client -> 0..MaxSent]
  /\ res \in [Client -> {NONE, "ok", "fail"}]

(* However the list calls of the handler threads interleave or overlap,    *)
(* every slot of every server stays sorted, without a repeated key and     *)
(* with a counter equal to the length of its chain, until insertions into  *)
(* that slot overlap or memory may have been misused.  Calls that overlap  *)
(* on other slots, lookups, and removals that find nothing leave it alone. *)
WellFormed ==
  \A s \in Server, i \in Slot :
    ~wild[s] /\ i \notin raced[s] => WellFormedList(tbl[s][i], i)

(* The handlers of a server that have a message of this operation and key  *)
(* and are at this place.                                                  *)
At(s, pc, k) == {c \in Client : srv[c] = s /\ h[c].pc = pc /\ h[c].msg.key = k}

(* A server holds a key, or a thread is between the removal of the key and *)
(* the end of its insertion in table_put, or the server is about to go     *)
(* down because the key was deleted.                                       *)
Held(s, k) ==
  \/ table_get(tbl[s], k) # NULL
  \/ At(s, "put_add", k) # {} \/ k \in KeysIn(flight[s])
  \/ At(s, "post", k) # {}

(* The server holds the key, or an insertion that overlapped the one of    *)
(* the key has left it out, or memory may have been misused.               *)
Kept(s, k) == Held(s, k) \/ k \in lost[s] \/ wild[s]

(* The requests of c on an open connection that are not answered or whose  *)
(* answer is not read, oldest first.                                       *)
Pending(c) ==
  LET answers == [i \in DOMAIN rep[c] |-> rep[c][i].id]
      handled == IF h[c].pc \in Busy THEN <<h[c].msg.id>> ELSE <<>>
      asked   == [i \in DOMAIN req[c] |-> req[c][i].id]
  IN  answers \o handled \o asked

(* A key that list_get found is still there when list_remove runs, unless  *)
(* another thread unlinked it in between and is about to put it back or to *)
(* take the server down, or it was being inserted when it was found and    *)
(* its insertion was lost, or memory may have been misused.                *)
FoundKeyHeld ==
  \A c \in Client : h[c].pc = "put_remove" => Kept(srv[c], h[c].msg.key)

(* A key whose PUT was answered, on a connection that is still open, stays *)
(* in the table of the server, up to the window of an overwrite and the    *)
(* crash that follows a removal.  There are two ways to lose it: its       *)
(* insertion overlapped another one into the same list, or some call       *)
(* overlapped one that frees memory of that list.  An insertion that ended *)
(* by itself cannot be lost to later ones, however they overlap.           *)
AnsweredPutHeld ==
  \A c \in Client : link[c] = "open" =>
    \A i \in DOMAIN rep[c] :
      rep[c][i].op = "put" /\ rep[c][i].code = "ok" => Kept(srv[c], rep[c][i].key)

(* The same of the last request of a client, once it is not under way any  *)
(* more.  That rtable_put returned 0 shows less (OkPutWasStored).          *)
LastPutHeld ==
  \A c \in Client :
    /\ link[c] = "open"
    /\ cur[c] # NULL /\ cur[c].op = "put"
    /\ \A i \in DOMAIN Pending(c) : Pending(c)[i] # cur[c].id
    => Kept(srv[c], cur[c].key)

(* Pipelining.  While a connection is open its requests are answered in    *)
(* order, each one once, and none is skipped, whatever the client does     *)
(* after a time limit; and a client waits only while it has an answer to   *)
(* come.                                                                   *)
Pipeline ==
  \A c \in Client : link[c] = "open" =>
    LET n == Len(Pending(c))
    IN  /\ Pending(c) = [i \in 1..n |-> sent[c] - n + i]
        /\ cl[c] = "wait" => n > 0

(* connected_clients is the number of handler threads that run, those that *)
(* turn for ever after their client left included; a connection that waits *)
(* for accept has no thread and is not counted.                            *)
ConnectedCountsThreads ==
  \A s \in Server :
    connected[s] =
      Cardinality({c \in Client : srv[c] = s /\ h[c].pc \notin {"none", "backlog", "exit"}})

-----------------------------------------------------------------------------
(* Liveness. *)

(* The wait of an rtable_ call ends without the time limit: the call       *)
(* returns or the program ends, because the thread of the server is never  *)
(* blocked and answers every request it takes, and the reset that its end  *)
(* causes ends the wait too.  The exceptions are a server that closed the  *)
(* connection in order without an answer, which is where read_all never    *)
(* returns to the client, and a server whose memory may have been misused. *)
WaitsEnd ==
  \A c \in Client :
    cl[c] = "wait" ~> \/ cl[c] \in {"idle", "gone"}
                      \/ link[c] = "serverFin" /\ rep[c] = <<>>
                      \/ srv[c] # NONE /\ wild[srv[c]]

(* Every request that reaches a server is taken and handled to its end,    *)
(* also when the client left meanwhile, unless the server goes down or its *)
(* memory may have been misused.                                           *)
RequestsHandled ==
  \A c \in Client, i \in 1..MaxSent :
    (\E j \in DOMAIN req[c] : req[c][j].id = i)
      ~> \/ /\ \A j \in DOMAIN req[c] : req[c][j].id # i
            /\ h[c].pc \notin Busy
         \/ wild[srv[c]]

-----------------------------------------------------------------------------
(* Statements of the documentation that the code does not keep. *)

(* README: shared state is protected by mutexes.  table_put gives up no    *)
(* lock because it takes none: of two PUTs of one key the second can find  *)
(* the list that the first has emptied, and list_remove reads its first    *)
(* node.  No overlap is needed for it.                                     *)
PutNeverCrashes ==
  \A c \in Client :
    h[c].pc = "put_remove" /\ ~wild[srv[c]] /\ InFlight(c) = {} =>
      SlotList(c).head # <<>>

(* client_stub.h: rtable_del returns 0 when it has removed the key.  The   *)
(* server that removed it goes down before it answers.                     *)
DelIsAnswered ==
  [][\A c \in Client :
       h[c].pc = "post" /\ srv[c] \notin Killable /\ ~wild[srv[c]] =>
         up'[srv[c]]]_kvVars

(* client_stub.h: rtable_put returns 0 when the entry was added.  The      *)
(* answer that arrives after the time limit of one request is taken for    *)
(* that of the next.                                                       *)
OkPutWasStored ==
  \A c \in Client :
    /\ cl[c] = "idle" /\ link[c] = "open"
    /\ cur[c] # NULL /\ cur[c].op = "put" /\ res[c] = "ok"
    => Kept(srv[c], cur[c].key)
=============================================================================
