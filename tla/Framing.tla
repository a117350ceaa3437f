------------------------------- MODULE Framing --------------------------------
(***************************************************************************)
(* One connection at the grain of bytes: write_all and read_all of         *)
(* source/message.c, the framing of network_receive and network_send       *)
(* (source/server_network.c) and of network_send_receive                   *)
(* (source/client_network.c) with its time limits.  A message is its size  *)
(* and then its body; a write moves as many bytes as the socket has room   *)
(* for, a read as many as have arrived.  Both processes stay up: module    *)
(* KVServer is about the ends of connections, and takes messages whole.    *)
(***************************************************************************)
EXTENDS Integers, SequencesExt

CONSTANTS
  MaxSent,   \* bound: calls of the client
  SizeLen,   \* bytes of the size
  BodyLen,   \* bytes of a body on the way to the client, to the server
  Capacity,  \* bytes a socket takes that the other end has not read
  Garbage    \* sizes that other bytes may be taken for

ASSUME FramingAssumption ==
  /\ MaxSent \in Nat
  /\ SizeLen \in Nat \ {0} /\ Capacity \in Nat \ {0}
  /\ BodyLen \in [{"client", "server"} -> Nat \ {0}]
  /\ Garbage \subseteq Nat

VARIABLES
  stream,  \* the bytes on their way to each end
  out,     \* what each end has still to write
  in,      \* what each end has read of a message
  need,    \* up to which length it reads
  pc,      \* where each end is
  sent,    \* calls made so far
  got,     \* the last answer that a call returned
  torn     \* directions in which the client left in the middle of a message

fvars == <<stream, out, in, need, pc, sent, got, torn>>

Side == {"client", "server"}
Peer(x) == IF x = "client" THEN "server" ELSE "client"

(* A byte is named by its message and its place in it.                     *)
Bytes(i, n) == [j \in 1..n |-> <<i, j>>]

(* The message i to an end x: the size, then the body.                     *)
Packed(i, x) == Bytes(i, SizeLen + BodyLen[x])

Init ==
  /\ stream = [x \in Side |-> <<>>]
  /\ out = [x \in Side |-> <<>>]
  /\ in = [x \in Side |-> <<>>]
  /\ need = [x \in Side |-> SizeLen]
  /\ pc = [x \in Side |-> IF x = "client" THEN "idle" ELSE "size"]
  /\ sent = 0
  /\ got = 0
  /\ torn = {}

At(x, p) == pc[x] = p

Goto(x, p) == pc' = [pc EXCEPT ![x] = p]

(* An end begins to read a message: first its size.                        *)
AwaitMessage(x) ==
  /\ in' = [in EXCEPT ![x] = <<>>]
  /\ need' = [need EXCEPT ![x] = SizeLen]

-----------------------------------------------------------------------------
(* message.c *)

Room(x) == Capacity - Len(stream[Peer(x)])

(* Mutant: what a write did not take is not written again.                 *)
write_once(x) ==
  /\ At(x, "write")
  /\ \E n \in 1..Min({Len(out[x]), Room(x)}) :
       stream' = [stream EXCEPT ![Peer(x)] = @ \o SubSeq(out[x], 1, n)]
  /\ out' = [out EXCEPT ![x] = <<>>]
  /\ Goto(x, "size")
  /\ AwaitMessage(x)
  /\ UNCHANGED <<sent, got, torn>>

(* write moves some bytes; write_all goes on until none is left.           *)
write_all(x) ==
  /\ At(x, "write")
  /\ \E n \in 1..Min({Len(out[x]), Room(x)}) :
       /\ stream' = [stream EXCEPT ![Peer(x)] = @ \o SubSeq(out[x], 1, n)]
       /\ out' = [out EXCEPT ![x] = SubSeq(@, n + 1, Len(@))]
       /\ IF n < Len(out[x])
          THEN UNCHANGED <<pc, in, need>>
          ELSE Goto(x, "size") /\ AwaitMessage(x)
  /\ UNCHANGED <<sent, got, torn>>

(* Mutant: every read asks for the whole length again.                     *)
read_whole(x) ==
  /\ pc[x] \in {"size", "body"} /\ Len(in[x]) < need[x]
  /\ \E n \in 1..Min({need[x], Len(stream[x])}) :
       /\ in' = [in EXCEPT ![x] = @ \o SubSeq(stream[x], 1, n)]
       /\ stream' = [stream EXCEPT ![x] = SubSeq(@, n + 1, Len(@))]
  /\ UNCHANGED <<out, need, pc, sent, got, torn>>

(* read moves some bytes; read_all goes on until it has as many as asked.  *)
read_all(x) ==
  /\ pc[x] \in {"size", "body"} /\ Len(in[x]) < need[x]
  /\ \E n \in 1..Min({need[x] - Len(in[x]), Len(stream[x])}) :
       /\ in' = [in EXCEPT ![x] = @ \o SubSeq(stream[x], 1, n)]
       /\ stream' = [stream EXCEPT ![x] = SubSeq(@, n + 1, Len(@))]
  /\ UNCHANGED <<out, need, pc, sent, got, torn>>

-----------------------------------------------------------------------------
(* network_receive, and the second half of network_send_receive.           *)

(* What was read is what the other end wrote as one message.               *)
Genuine(x) == \E i \in 1..MaxSent : in[x] = Bytes(i, Len(in[x]))

(* The call fails: the client is back at its prompt; the server leaves its *)
(* loop and closes the connection.                                         *)
Fails(x) == Goto(x, IF x = "client" THEN "idle" ELSE "exit")

(* The size is there: a buffer is allocated, or not if it is absurd.       *)
Size(x) ==
  /\ At(x, "size") /\ Len(in[x]) = SizeLen
  /\ \/ /\ Genuine(x)
        /\ Goto(x, "body")
        /\ need' = [need EXCEPT ![x] = SizeLen + BodyLen[x]]
     \/ /\ ~Genuine(x)
        /\ Goto(x, "body")
        /\ \E n \in Garbage : need' = [need EXCEPT ![x] = SizeLen + n]
     \/ /\ ~Genuine(x)
        /\ Fails(x)
        /\ UNCHANGED need
  /\ UNCHANGED <<stream, out, in, sent, got, torn>>

(* The body is there and is unpacked: other bytes may make a message too.  *)
Unpack(x) ==
  /\ At(x, "body") /\ Len(in[x]) = need[x]
  /\ \/ /\ Genuine(x) /\ Len(in[x]) = SizeLen + BodyLen[x]
        /\ Goto(x, IF x = "client" THEN "idle" ELSE "invoke")
        /\ got' = IF x = "client" THEN in[x][1][1] ELSE got
     \/ /\ ~(Genuine(x) /\ Len(in[x]) = SizeLen + BodyLen[x])
        /\ Fails(x) \/ Goto(x, IF x = "client" THEN "idle" ELSE "invoke")
        /\ UNCHANGED got
  /\ UNCHANGED <<stream, out, in, need, sent, torn>>

-----------------------------------------------------------------------------
(* The client *)

(* network_send_receive: the request is packed.                            *)
Call ==
  /\ At("client", "idle") /\ sent < MaxSent
  /\ sent' = sent + 1
  /\ out' = [out EXCEPT !["client"] = Packed(sent + 1, "server")]
  /\ Goto("client", "write")
  /\ AwaitMessage("client")
  /\ UNCHANGED <<stream, got, torn>>

Starved(x) == pc[x] \in {"size", "body"} /\ Len(in[x]) < need[x] /\ stream[x] = <<>>

Blocked ==
  \/ At("client", "write") /\ Room("client") = 0
  \/ Starved("client") /\ ~At("server", "exit")

(* Mutant: the time limit for writes is not set.                           *)
LimitOnReads ==
  /\ Blocked /\ ~At("client", "write")
  /\ Goto("client", "idle")
  /\ torn' = torn \cup {x \in {"client"} : in["client"] # <<>>}
  /\ UNCHANGED <<stream, out, in, need, sent, got>>

(* SO_SNDTIMEO and SO_RCVTIMEO: five seconds without a byte, and the call  *)
(* fails.  The socket stays open for the next one.                         *)
Limit ==
  /\ Blocked
  /\ Goto("client", "idle")
  /\ torn' = torn \cup
       (IF At("client", "write")
        THEN {x \in {"server"} : out["client"] # Packed(sent, "server")}
        ELSE {x \in {"client"} : in["client"] # <<>>})
  /\ UNCHANGED <<stream, out, in, need, sent, got>>

(* The server closed the connection and everything was read: read_all      *)
(* turns for ever.                                                         *)
ReadEnd ==
  /\ Starved("client") /\ At("server", "exit")
  /\ Goto("client", "spin")
  /\ UNCHANGED <<stream, out, in, need, sent, got, torn>>

(* The server *)

(* invoke, and network_send packs the answer.                              *)
Reply ==
  /\ At("server", "invoke")
  /\ out' = [out EXCEPT !["server"] = Packed(in["server"][1][1], "client")]
  /\ in' = [in EXCEPT !["server"] = <<>>]
  /\ Goto("server", "write")
  /\ UNCHANGED <<stream, need, sent, got, torn>>

Transfer(x) == write_all(x) \/ read_all(x) \/ Size(x) \/ Unpack(x)

Next == Call \/ Limit \/ ReadEnd \/ Reply \/ \E x \in Side : Transfer(x)

(* The threads are scheduled and the time limits strike.                   *)
Fairness ==
  /\ \A x \in Side : WF_fvars(Transfer(x))
  /\ WF_fvars(Limit) /\ WF_fvars(ReadEnd) /\ WF_fvars(Reply)

Spec == Init /\ [][Next]_fvars /\ Fairness

-----------------------------------------------------------------------------
(* Properties. *)

(* Type invariant: no end reads past its buffer.                           *)
TypeOK ==
  /\ pc \in [Side -> {"idle", "write", "size", "body", "invoke", "exit", "spin"}]
  /\ sent \in 0..MaxSent /\ got \in 0..MaxSent
  /\ torn \subseteq Side
  /\ \A x \in Side : Len(in[x]) <= need[x] /\ Len(stream[x]) <= Capacity

(* The messages of which there is a byte in s.                             *)
Messages(s) == {s[i][1] : i \in DOMAIN s}

(* What an end has read of a message, and has yet to write of one.         *)
Reading(x) == IF pc[x] \in {"size", "body"} THEN in[x] ELSE <<>>
Writing(x) == IF At(x, "write") THEN out[x] ELSE <<>>

W == INSTANCE Wire WITH
  requests  <- Messages(Reading("server") \o stream["server"]),
  held      <- IF At("server", "invoke") THEN in["server"][1][1] ELSE 0,
  answers   <- Messages(Reading("client") \o stream["client"] \o Writing("server")),
  delivered <- got,
  torn      <- torn # {}

(* However writes and reads split the messages and whenever time limits    *)
(* strike, each end takes the bytes for the messages the other sent, whole *)
(* and in order, as long as no limit strikes inside a message.             *)
ImplementsWire == W!Spec

(* Every call of the client returns, also when both ends are blocked in a  *)
(* write that the other does not read and when the client misreads what    *)
(* arrives.  Not so once the server was left with half a request: it may   *)
(* take it for the end and close, and read_all does not notice.            *)
CallsEnd ==
  ~At("client", "idle") ~> (At("client", "idle") \/ "server" \in torn)
===============================================================================
