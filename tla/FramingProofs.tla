----------------------------- MODULE FramingProofs -----------------------------
(***************************************************************************)
(* Theorems of module Framing: types, and that the bytes of a connection   *)
(* implement the whole messages of module Wire.                            *)
(***************************************************************************)
EXTENDS Framing, SequenceTheorems, TLAPS

(* Every byte is one that an end wrote: it has a message and a place.      *)
Byte == (1..MaxSent) \X (Nat \ {0})

Length(x) == SizeLen + BodyLen[x]

Typed ==
  /\ stream \in [Side -> Seq(Byte)]
  /\ out \in [Side -> Seq(Byte)]
  /\ in \in [Side -> Seq(Byte)]
  /\ need \in [Side -> Nat \ {0}]
  /\ pc \in [Side -> {"idle", "write", "size", "body", "invoke", "exit", "spin"}]
  /\ sent \in 0..MaxSent /\ got \in 0..MaxSent
  /\ torn \subseteq Side
  /\ \A x \in Side : Len(in[x]) <= need[x] /\ Len(stream[x]) <= Capacity
  /\ At("server", "invoke") => in["server"] # <<>>
  /\ pc["client"] # "invoke" /\ pc["server"] # "idle"
  /\ At("client", "write") => sent # 0

(* What an end x has not taken yet: what it has read of a message, what is *)
(* under way to it, and what its peer has still to write.                  *)
Arrived(x) == Reading(x) \o stream[x]
Flow(x) == Arrived(x) \o Writing(Peer(x))

(* A sequence of whole messages of n bytes, each with a greater number     *)
(* than the one before: around each byte is all of its message, no message *)
(* is there twice, and greater numbers are behind lesser ones.             *)
Framed(s, n) ==
  /\ \A k \in DOMAIN s : s[k][2] \in 1..n
  /\ \A k \in DOMAIN s : \A q \in 1..n :
       /\ k - s[k][2] + q \in DOMAIN s
       /\ s[k - s[k][2] + q] = <<s[k][1], q>>
  /\ \A j, k \in DOMAIN s : s[j][1] = s[k][1] => j - s[j][2] = k - s[k][2]
  /\ \A j, k \in DOMAIN s : s[j][1] < s[k][1] => j < k

(* The number of the request that the handler works on.                    *)
Held == IF At("server", "invoke") THEN in["server"][1][1] ELSE 0

(* As long as no direction is torn: both ends know where messages begin... *)
InStep ==
  /\ \A x \in Side : Framed(Flow(x), Length(x))
  /\ pc["client"] # "spin" /\ pc["server"] # "exit"
  /\ \A x \in Side : At(x, "size") => need[x] = SizeLen
  /\ \A x \in Side : At(x, "body") => need[x] = Length(x)

(* ...the client has still to write an end of its last request...          *)
Rest ==
  At("client", "write") =>
    /\ Len(out["client"]) \in 1..Length("server")
    /\ \A i \in 1..Len(out["client"]) :
         out["client"][i] = <<sent, Length("server") - Len(out["client"]) + i>>

(* ...and the numbers tell the order: what the client took, the answers on *)
(* their way, the request at the handler, the requests on their way.       *)
InOrder ==
  /\ \A a \in Messages(Flow("client")) : got < a /\ a <= sent
  /\ \A r \in Messages(Flow("server")) : got < r /\ r <= sent
  /\ \A a \in Messages(Flow("client")), r \in Messages(Flow("server")) : a < r
  /\ got <= sent
  /\ At("server", "invoke") =>
       /\ got < Held /\ Held <= sent
       /\ \A a \in Messages(Flow("client")) : a < Held
       /\ \A r \in Messages(Flow("server")) : Held < r

Whole == torn = {} => InStep /\ Rest /\ InOrder

IInv == Typed /\ Whole

-----------------------------------------------------------------------------
(* Sequences of bytes. *)

LEMMA MinOfTwo ==
  ASSUME NEW a \in Nat, NEW b \in Nat, NEW k \in 1..Min({a, b})
  PROVE  k \in 1..a /\ k \in 1..b
<1>1. \E x \in {a, b} : \A y \in {a, b} : x <= y
  OBVIOUS
<1>2. Min({a, b}) \in {a, b} /\ \A y \in {a, b} : Min({a, b}) <= y
  BY <1>1 DEF Min
<1> QED
  BY <1>2

(* A sequence is cut behind its first n elements.                          *)
LEMMA Cut ==
  ASSUME NEW S, NEW s \in Seq(S), NEW n \in 1..Len(s)
  PROVE  /\ SubSeq(s, 1, n) \in Seq(S) /\ Len(SubSeq(s, 1, n)) = n
         /\ SubSeq(s, n + 1, Len(s)) \in Seq(S)
         /\ Len(SubSeq(s, n + 1, Len(s))) = Len(s) - n
         /\ \A i \in 1..n : SubSeq(s, 1, n)[i] = s[i]
         /\ \A i \in 1..(Len(s) - n) : SubSeq(s, n + 1, Len(s))[i] = s[n + i]
         /\ SubSeq(s, 1, n) \o SubSeq(s, n + 1, Len(s)) = s
<1>0. Len(s) \in Nat /\ \A i \in 1..Len(s) : s[i] \in S
  BY LenProperties, ElementOfSeq
<1>1. \A i \in 1..n : s[i] \in S
  BY <1>0
<1>2. \A i \in (n + 1)..Len(s) : s[i] \in S
  BY <1>0
<1>3. /\ SubSeq(s, 1, n) \in Seq(S) /\ Len(SubSeq(s, 1, n)) = n
      /\ \A i \in 1..n : SubSeq(s, 1, n)[i] = s[i]
  BY <1>0, <1>1
<1>4. /\ SubSeq(s, n + 1, Len(s)) \in Seq(S)
      /\ Len(SubSeq(s, n + 1, Len(s))) = Len(s) - n
      /\ \A i \in 1..(Len(s) - n) : SubSeq(s, n + 1, Len(s))[i] = s[n + i]
  BY <1>0, <1>2
<1>5. SubSeq(s, 1, n) \o SubSeq(s, n + 1, Len(s)) = SubSeq(s, 1, Len(s))
  <2>1. 1 \in 1..(Len(s) + 1) /\ n \in (1 - 1)..Len(s) /\ Len(s) \in n..Len(s)
    BY <1>0
  <2> QED
    BY <2>1, ConcatAdjacentSubSeq, Zenon
<1>6. SubSeq(s, 1, Len(s)) = s
  BY SubSeqFull
<1> QED
  BY <1>3, <1>4, <1>5, <1>6

LEMMA JoinedElements ==
  ASSUME NEW S, NEW a \in Seq(S), NEW b \in Seq(S)
  PROVE  /\ a \o b \in Seq(S)
         /\ Len(a) \in Nat /\ Len(b) \in Nat /\ Len(a \o b) = Len(a) + Len(b)
         /\ DOMAIN a = 1..Len(a) /\ DOMAIN b = 1..Len(b)
         /\ DOMAIN (a \o b) = 1..(Len(a) + Len(b))
         /\ \A i \in 1..Len(a) : (a \o b)[i] = a[i]
         /\ \A i \in 1..Len(b) : (a \o b)[Len(a) + i] = b[i]
<1>1. Len(a) \in Nat /\ Len(b) \in Nat /\ DOMAIN a = 1..Len(a) /\ DOMAIN b = 1..Len(b)
  BY LenProperties
<1>2. /\ a \o b \in Seq(S)
      /\ Len(a \o b) = Len(a) + Len(b)
      /\ \A i \in 1 .. Len(a) + Len(b) : (a \o b)[i] =
                     IF i <= Len(a) THEN a[i] ELSE b[i - Len(a)]
  BY ConcatProperties
<1>3. DOMAIN (a \o b) = 1..(Len(a) + Len(b))
  BY <1>2, LenProperties
<1>4. \A i \in 1..Len(a) : (a \o b)[i] = a[i]
  BY <1>1, <1>2
<1>5. ASSUME NEW i \in 1..Len(b)
      PROVE  (a \o b)[Len(a) + i] = b[i]
  <2>1. Len(a) + i \in 1..(Len(a) + Len(b)) /\ ~(Len(a) + i <= Len(a)) /\ (Len(a) + i) - Len(a) = i
    BY <1>1
  <2> QED
    BY <1>2, <2>1
<1> QED
  BY <1>1, <1>2, <1>3, <1>4, <1>5

(* The same, of bytes and as one formula, to be instantiated.             *)
LEMMA BytesJoined ==
  \A a, b \in Seq(Byte) :
     /\ a \o b \in Seq(Byte)
     /\ Len(a) \in Nat /\ Len(b) \in Nat /\ Len(a \o b) = Len(a) + Len(b)
     /\ DOMAIN a = 1..Len(a) /\ DOMAIN b = 1..Len(b)
     /\ DOMAIN (a \o b) = 1..(Len(a) + Len(b))
     /\ \A i \in 1..Len(a) : (a \o b)[i] = a[i]
     /\ \A i \in 1..Len(b) : (a \o b)[Len(a) + i] = b[i]
BY JoinedElements

LEMMA MessagesOfJoined ==
  ASSUME NEW S, NEW a \in Seq(S), NEW b \in Seq(S)
  PROVE  Messages(a \o b) = Messages(a) \cup Messages(b)
<1> DEFINE c == a \o b
<1>1. /\ Len(a) \in Nat /\ Len(b) \in Nat
      /\ DOMAIN a = 1..Len(a) /\ DOMAIN b = 1..Len(b) /\ DOMAIN c = 1..(Len(a) + Len(b))
      /\ \A i \in 1..Len(a) : c[i] = a[i]
      /\ \A i \in 1..Len(b) : c[Len(a) + i] = b[i]
  BY JoinedElements
<1> HIDE DEF c
<1>2. ASSUME NEW i \in DOMAIN c
      PROVE  c[i][1] \in Messages(a) \cup Messages(b)
  <2>1. CASE i \in 1..Len(a)
    BY <1>1, <2>1 DEF Messages
  <2>2. CASE i \notin 1..Len(a)
    <3>1. i - Len(a) \in 1..Len(b) /\ Len(a) + (i - Len(a)) = i
      BY <1>1, <2>2
    <3>2. c[i] = b[i - Len(a)]
      BY <1>1, <3>1
    <3> QED
      BY <1>1, <3>1, <3>2 DEF Messages
  <2> QED
    BY <2>1, <2>2
<1>3. ASSUME NEW i \in DOMAIN a
      PROVE  a[i][1] \in Messages(c)
  <2>1. i \in DOMAIN c /\ c[i] = a[i]
    BY <1>1
  <2> QED
    BY <2>1 DEF Messages
<1>4. ASSUME NEW i \in DOMAIN b
      PROVE  b[i][1] \in Messages(c)
  <2>1. Len(a) + i \in DOMAIN c /\ c[Len(a) + i] = b[i]
    BY <1>1
  <2> QED
    BY <2>1 DEF Messages
<1>5. Messages(c) \subseteq Messages(a) \cup Messages(b)
  BY <1>2 DEF Messages
<1>6. Messages(a) \subseteq Messages(c) /\ Messages(b) \subseteq Messages(c)
  BY <1>3, <1>4 DEF Messages
<1> QED
  BY <1>5, <1>6 DEF c

LEMMA MessagesOfNothing == Messages(<<>>) = {}
BY DEF Messages

LEMMA BytesOfMessage ==
  ASSUME NEW i \in 1..MaxSent, NEW n \in Nat
  PROVE  /\ Bytes(i, n) \in Seq(Byte) /\ Len(Bytes(i, n)) = n
         /\ \A j \in 1..n : Bytes(i, n)[j] = <<i, j>>
         /\ n # 0 => Messages(Bytes(i, n)) = {i}
<1>1. \A j \in 1..n : <<i, j>> \in Byte
  BY FramingAssumption DEF Byte
<1>2. Bytes(i, n) \in [1..n -> Byte]
  BY <1>1 DEF Bytes
<1>3. Bytes(i, n) \in Seq(Byte) /\ Len(Bytes(i, n)) = n
  BY <1>2, SeqDef
<1>4. \A j \in 1..n : Bytes(i, n)[j] = <<i, j>>
  BY DEF Bytes
<1>5. DOMAIN Bytes(i, n) = 1..n
  BY DEF Bytes
<1>6. ASSUME n # 0
      PROVE  Messages(Bytes(i, n)) = {i}
  <2>1. 1 \in 1..n
    BY <1>6
  <2>2. \A j \in 1..n : Bytes(i, n)[j][1] = i
    BY <1>4
  <2> QED
    BY <1>5, <2>1, <2>2 DEF Messages
<1> QED
  BY <1>3, <1>4, <1>6

-----------------------------------------------------------------------------
(* Sequences of whole messages. *)

LEMMA NothingIsFramed == ASSUME NEW n PROVE Framed(<<>>, n)
BY DEF Framed

(* What framing says of one byte, and of two.                              *)
LEMMA FramedPlace ==
  ASSUME NEW s, NEW n, Framed(s, n), NEW k \in DOMAIN s
  PROVE  s[k][2] \in 1..n
BY Zenon DEF Framed

LEMMA FramedAround ==
  ASSUME NEW s, NEW n, Framed(s, n), NEW k \in DOMAIN s, NEW q \in 1..n
  PROVE  /\ k - s[k][2] + q \in DOMAIN s
         /\ s[k - s[k][2] + q] = <<s[k][1], q>>
BY Zenon DEF Framed

LEMMA FramedOnce ==
  ASSUME NEW s, NEW n, Framed(s, n), NEW j \in DOMAIN s, NEW k \in DOMAIN s,
         s[j][1] = s[k][1]
  PROVE  j - s[j][2] = k - s[k][2]
BY Zenon DEF Framed

LEMMA FramedRises ==
  ASSUME NEW s, NEW n, Framed(s, n), NEW j \in DOMAIN s, NEW k \in DOMAIN s,
         s[j][1] < s[k][1]
  PROVE  j < k
BY Zenon DEF Framed

(* The first message.                                                      *)
LEMMA FramedFirst ==
  ASSUME NEW s \in Seq(Byte), NEW n \in Nat \ {0}, Framed(s, n), s # <<>>
  PROVE  /\ n <= Len(s)
         /\ \A q \in 1..n : s[q] = <<s[1][1], q>>
         /\ s[1][1] \in 1..MaxSent
         /\ \A k \in 1..Len(s) : k > n => s[k][1] > s[1][1]
<1>1. Len(s) \in Nat /\ DOMAIN s = 1..Len(s) /\ \A k \in 1..Len(s) : s[k] \in Byte
  BY LenProperties, ElementOfSeq
<1>2. 1 \in 1..Len(s)
  BY <1>1, EmptySeq
<1>3. \A k \in 1..Len(s) : s[k][1] \in 1..MaxSent /\ s[k][1] \in Nat /\ s[k][2] \in 1..n
  <2>1. \A k \in 1..Len(s) : s[k][1] \in 1..MaxSent /\ s[k][1] \in Nat
    BY <1>1, FramingAssumption DEF Byte
  <2>2. \A k \in 1..Len(s) : s[k][2] \in 1..n
    BY <1>1, FramedPlace
  <2> QED
    BY <2>1, <2>2
<1>4. \A q \in 1..n : /\ 1 - s[1][2] + q \in 1..Len(s)
                      /\ s[1 - s[1][2] + q] = <<s[1][1], q>>
  BY <1>1, <1>2, FramedAround
<1>5. s[1][2] = 1
  <2>1. 1 \in 1..n
    OBVIOUS
  <2>2. 1 - s[1][2] + 1 \in 1..Len(s)
    BY <1>4, <2>1
  <2> QED
    BY <1>1, <1>2, <1>3, <2>2
<1>6. \A q \in 1..n : q \in 1..Len(s) /\ s[q] = <<s[1][1], q>>
  <2> TAKE q \in 1..n
  <2>1. 1 - 1 + q = q
    OBVIOUS
  <2> QED
    BY <1>4, <1>5, <2>1
<1>7. n <= Len(s)
  BY <1>6, <1>1
<1>8. ASSUME NEW k \in 1..Len(s), k > n
      PROVE  s[k][1] > s[1][1]
  <2>1. ~(s[k][1] < s[1][1])
    <3>1. s[k][1] < s[1][1] => k < 1
      BY <1>1, <1>2, FramedRises
    <3> QED
      BY <1>1, <3>1
  <2>2. s[k][1] # s[1][1]
    <3>1. s[k][1] = s[1][1] => k - s[k][2] = 1 - s[1][2]
      BY <1>1, <1>2, FramedOnce
    <3> QED
      BY <1>1, <1>3, <1>5, <1>8, <3>1
  <2> QED
    BY <1>2, <1>3, <2>1, <2>2
<1> QED
  BY <1>2, <1>3, <1>6, <1>7, <1>8

(* What was read of a message is a beginning of it.                        *)
LEMMA FramedStart ==
  ASSUME NEW a \in Seq(Byte), NEW t \in Seq(Byte), NEW n \in Nat \ {0}, Framed(a \o t, n),
         a # <<>>, Len(a) <= n
  PROVE  /\ a[1][1] \in 1..MaxSent
         /\ a = Bytes(a[1][1], Len(a))
<1> DEFINE c == a \o t
<1>1. /\ c \in Seq(Byte) /\ Len(a) \in Nat /\ Len(t) \in Nat
      /\ Len(c) = Len(a) + Len(t)
      /\ \A i \in 1..Len(a) : c[i] = a[i]
  BY JoinedElements
<1>2. Framed(c, n)
  OBVIOUS
<1> HIDE DEF c
<1>3. Len(a) \in Nat \ {0}
  BY EmptySeq
<1>4. c # <<>>
  BY <1>1, <1>3
<1>5. c[1][1] \in 1..MaxSent /\ \A q \in 1..n : c[q] = <<c[1][1], q>>
  BY <1>1, <1>2, <1>4, FramedFirst
<1>6. c[1] = a[1]
  BY <1>1, <1>3
<1>7. \A q \in 1..Len(a) : a[q] = <<a[1][1], q>>
  BY <1>1, <1>5, <1>6
<1>8. Bytes(a[1][1], Len(a)) \in Seq(Byte) /\ Len(Bytes(a[1][1], Len(a))) = Len(a)
      /\ \A q \in 1..Len(a) : Bytes(a[1][1], Len(a))[q] = <<a[1][1], q>>
  BY <1>1, <1>5, <1>6, BytesOfMessage
<1>9. a = Bytes(a[1][1], Len(a))
  BY <1>7, <1>8, SeqEqual
<1> QED
  BY <1>5, <1>6, <1>9

(* The first message is taken.                                             *)
LEMMA FramedRest ==
  ASSUME NEW a \in Seq(Byte), NEW t \in Seq(Byte), NEW n \in Nat \ {0}, Framed(a \o t, n),
         Len(a) = n
  PROVE  /\ Framed(t, n)
         /\ \A k \in Messages(t) : a[1][1] < k
         /\ Messages(a) = {a[1][1]}
<1> DEFINE c == a \o t
<1>1. /\ c \in Seq(Byte) /\ Len(t) \in Nat /\ DOMAIN t = 1..Len(t)
      /\ DOMAIN c = 1..(n + Len(t)) /\ Len(c) = n + Len(t)
      /\ \A i \in 1..n : c[i] = a[i]
      /\ \A i \in 1..Len(t) : c[n + i] = t[i]
  <2>1. /\ a \o t \in Seq(Byte) /\ Len(t) \in Nat /\ DOMAIN t = 1..Len(t)
        /\ Len(a \o t) = Len(a) + Len(t) /\ DOMAIN (a \o t) = 1..(Len(a) + Len(t))
        /\ \A i \in 1..Len(a) : (a \o t)[i] = a[i]
        /\ \A i \in 1..Len(t) : (a \o t)[Len(a) + i] = t[i]
    BY BytesJoined, Zenon
  <2> QED
    BY <2>1, Zenon
<1>2. Framed(c, n)
  OBVIOUS
<1> HIDE DEF c
<1>3. c # <<>>
  BY <1>1
<1>4. /\ \A q \in 1..n : c[q] = <<c[1][1], q>>
      /\ \A k \in 1..Len(c) : k > n => c[k][1] > c[1][1]
  BY <1>1, <1>2, <1>3, FramedFirst
<1>5. c[1] = a[1]
  BY <1>1
<1>6. \A k \in 1..Len(t) : t[k][1] > a[1][1] /\ n + k \in DOMAIN c /\ t[k] = c[n + k]
  BY <1>1, <1>4, <1>5
<1>7. \A k \in Messages(t) : a[1][1] < k
  BY <1>1, <1>6 DEF Messages
<1>8. Messages(a) = {a[1][1]}
  <2>1. a = Bytes(a[1][1], n) /\ a[1][1] \in 1..MaxSent
    <3>1. a # <<>>
      BY EmptySeq
    <3> QED
      BY <3>1, FramedStart
  <2> QED
    BY <2>1, BytesOfMessage
<1>9. Framed(t, n)
  <2>1. \A k \in 1..Len(t) : t[k] \in Byte /\ t[k][2] \in Nat \ {0}
    BY ElementOfSeq DEF Byte
  <2>2. \A k \in 1..Len(t) : t[k][2] \in 1..n
    BY <1>2, <1>6, FramedPlace
  <2>3. ASSUME NEW k \in 1..Len(t), NEW q \in 1..n
        PROVE  /\ k - t[k][2] + q \in 1..Len(t)
               /\ t[k - t[k][2] + q] = <<t[k][1], q>>
    <3> DEFINE j == (n + k) - t[k][2] + q
    <3>1. j \in 1..(n + Len(t)) /\ c[j] = <<t[k][1], q>>
      <4>1. n + k \in DOMAIN c /\ c[n + k] = t[k]
        BY <1>6
      <4>2. /\ (n + k) - c[n + k][2] + q \in DOMAIN c
            /\ c[(n + k) - c[n + k][2] + q] = <<c[n + k][1], q>>
        BY <1>2, <4>1, FramedAround
      <4> QED
        BY <1>1, <4>1, <4>2
    <3>2. j > n
      <4>1. SUFFICES ASSUME j <= n PROVE FALSE
        BY <1>1, <2>2, <3>1
      <4>2. j \in 1..n
        BY <4>1, <3>1
      <4>3. c[j] = <<c[1][1], j>>
        BY <1>4, <4>2
      <4>4. t[k][1] = a[1][1]
        BY <3>1, <4>3, <1>5
      <4> QED
        BY <4>4, <1>6, <1>1, <2>1, ElementOfSeq, FramingAssumption DEF Byte
    <3>3. j = n + (k - t[k][2] + q)
      BY <1>1, <2>2
    <3>4. k - t[k][2] + q \in 1..Len(t)
      <4>1. \A x, y, N \in Int : y <= n + N /\ y > n /\ y = n + x => x \in 1..N
        OBVIOUS
      <4>2. j \in Int /\ k - t[k][2] + q \in Int /\ Len(t) \in Int /\ j <= n + Len(t)
        BY <1>1, <2>2, <3>1
      <4> HIDE DEF j
      <4> QED
        BY <4>1, <4>2, <3>2, <3>3, Zenon
    <3>5. c[n + (k - t[k][2] + q)] = t[k - t[k][2] + q]
      BY <1>1, <3>4
    <3> QED
      BY <3>1, <3>3, <3>4, <3>5
  <2>4. ASSUME NEW j \in 1..Len(t), NEW k \in 1..Len(t), t[j][1] = t[k][1]
        PROVE  j - t[j][2] = k - t[k][2]
    <3>1. /\ n + j \in DOMAIN c /\ c[n + j] = t[j]
          /\ n + k \in DOMAIN c /\ c[n + k] = t[k]
      BY <1>6
    <3>2. c[n + j][1] = c[n + k][1]
      BY <2>4, <3>1
    <3>3. (n + j) - c[n + j][2] = (n + k) - c[n + k][2]
      BY <1>2, <3>1, <3>2, FramedOnce
    <3>4. (n + j) - t[j][2] = (n + k) - t[k][2]
      BY <3>1, <3>3
    <3>5. t[j][2] \in Int /\ t[k][2] \in Int
      BY <2>2
    <3>6. \A x, y \in Int : (n + j) - x = (n + k) - y => j - x = k - y
      OBVIOUS
    <3> QED
      BY <3>4, <3>5, <3>6, Zenon
  <2>5. ASSUME NEW j \in 1..Len(t), NEW k \in 1..Len(t), t[j][1] < t[k][1]
        PROVE  j < k
    <3>1. /\ n + j \in DOMAIN c /\ c[n + j] = t[j]
          /\ n + k \in DOMAIN c /\ c[n + k] = t[k]
      BY <1>6
    <3>2. n + j < n + k
      BY <1>2, <2>5, <3>1, FramedRises
    <3> QED
      BY <1>1, <3>2
  <2> QED
    BY <1>1, <2>2, <2>3, <2>4, <2>5 DEF Framed
<1> QED
  BY <1>7, <1>8, <1>9

(* A message is added.                                                     *)
LEMMA FramedMore ==
  ASSUME NEW s \in Seq(Byte), NEW n \in Nat \ {0}, Framed(s, n),
         NEW i \in 1..MaxSent, \A k \in Messages(s) : k < i
  PROVE  Framed(s \o Bytes(i, n), n)
<1> DEFINE b == Bytes(i, n)
<1> DEFINE c == s \o b
<1>1. b \in Seq(Byte) /\ Len(b) = n /\ \A j \in 1..n : b[j] = <<i, j>>
  BY BytesOfMessage
<1> HIDE DEF b
<1>2. /\ Len(s) \in Nat /\ DOMAIN s = 1..Len(s) /\ DOMAIN c = 1..(Len(s) + n)
      /\ \A k \in 1..Len(s) : c[k] = s[k]
      /\ \A k \in 1..n : c[Len(s) + k] = b[k]
  <2>1. b \in Seq(Byte) /\ Len(b) = n
    BY <1>1
  <2>2. /\ s \o b \in Seq(Byte)
        /\ Len(s) \in Nat /\ Len(b) \in Nat /\ Len(s \o b) = Len(s) + Len(b)
        /\ DOMAIN s = 1..Len(s) /\ DOMAIN b = 1..Len(b)
        /\ DOMAIN (s \o b) = 1..(Len(s) + Len(b))
        /\ \A k \in 1..Len(s) : (s \o b)[k] = s[k]
        /\ \A k \in 1..Len(b) : (s \o b)[Len(s) + k] = b[k]
    <3> HIDE DEF c
    <3> QED
      BY <2>1, BytesJoined, Zenon
  <2> QED
    BY <2>1, <2>2
<1> HIDE DEF c
<1>3. \A k \in 1..Len(s) : s[k][2] \in 1..n /\ s[k][1] < i
  BY <1>2, FramedPlace DEF Messages
<1>4. \A k \in DOMAIN c :
        \/ k \in 1..Len(s) /\ c[k] = s[k]
        \/ k \in (Len(s) + 1)..(Len(s) + n) /\ c[k] = <<i, k - Len(s)>>
  <2> TAKE k \in DOMAIN c
  <2>1. CASE k \in 1..Len(s)
    BY <1>2, <2>1
  <2>2. CASE k \notin 1..Len(s)
    <3>1. k - Len(s) \in 1..n /\ Len(s) + (k - Len(s)) = k /\ k \in (Len(s) + 1)..(Len(s) + n)
      BY <1>2, <2>2
    <3> QED
      BY <1>1, <1>2, <3>1
  <2> QED
    BY <2>1, <2>2
<1>5. \A k \in DOMAIN c : c[k][2] \in 1..n
  BY <1>2, <1>3, <1>4
<1>6. ASSUME NEW k \in DOMAIN c, NEW q \in 1..n
      PROVE  /\ k - c[k][2] + q \in DOMAIN c
             /\ c[k - c[k][2] + q] = <<c[k][1], q>>
  <2>1. CASE k \in 1..Len(s) /\ c[k] = s[k]
    <3>1. k - s[k][2] + q \in 1..Len(s) /\ s[k - s[k][2] + q] = <<s[k][1], q>>
      <4>1. k \in DOMAIN s
        BY <1>2, <2>1
      <4>2. k - s[k][2] + q \in DOMAIN s /\ s[k - s[k][2] + q] = <<s[k][1], q>>
        BY <4>1, FramedAround
      <4> QED
        BY <1>2, <4>2
    <3> QED
      BY <1>2, <2>1, <3>1
  <2>2. CASE k \in (Len(s) + 1)..(Len(s) + n) /\ c[k] = <<i, k - Len(s)>>
    <3>1. c[k][2] = k - Len(s) /\ c[k][1] = i
      BY <2>2
    <3>2. k - c[k][2] + q = Len(s) + q
      BY <1>2, <2>2, <3>1
    <3>3. Len(s) + q \in DOMAIN c /\ c[Len(s) + q] = <<i, q>>
      BY <1>1, <1>2
    <3> QED
      BY <3>1, <3>2, <3>3
  <2> QED
    BY <1>4, <2>1, <2>2
<1>7. ASSUME NEW j \in DOMAIN c, NEW k \in DOMAIN c
      PROVE  /\ c[j][1] = c[k][1] => j - c[j][2] = k - c[k][2]
             /\ c[j][1] < c[k][1] => j < k
  <2>1. CASE (j \in 1..Len(s) /\ c[j] = s[j]) /\ (k \in 1..Len(s) /\ c[k] = s[k])
    <3>1. /\ s[j][1] = s[k][1] => j - s[j][2] = k - s[k][2]
          /\ s[j][1] < s[k][1] => j < k
      BY <1>2, <2>1, FramedOnce, FramedRises
    <3> QED
      BY <2>1, <3>1
  <2>2. CASE /\ j \in 1..Len(s) /\ c[j] = s[j]
             /\ k \in (Len(s) + 1)..(Len(s) + n) /\ c[k] = <<i, k - Len(s)>>
    BY <1>2, <1>3, <2>2
  <2>3. CASE /\ k \in 1..Len(s) /\ c[k] = s[k]
             /\ j \in (Len(s) + 1)..(Len(s) + n) /\ c[j] = <<i, j - Len(s)>>
    <3>1. s[k] \in Byte
      BY <2>3, ElementOfSeq
    <3>2. s[k][1] \in Nat
      BY <3>1, FramingAssumption DEF Byte
    <3>3. c[k][1] \in Nat /\ c[k][1] < i /\ c[j][1] = i
      BY <1>3, <2>3, <3>2
    <3>4. ~(c[j][1] = c[k][1]) /\ ~(c[j][1] < c[k][1])
      BY <3>3
    <3> QED
      BY <3>4, Zenon
  <2>4. CASE /\ j \in (Len(s) + 1)..(Len(s) + n) /\ c[j] = <<i, j - Len(s)>>
             /\ k \in (Len(s) + 1)..(Len(s) + n) /\ c[k] = <<i, k - Len(s)>>
    BY <1>2, <2>4, FramingAssumption
  <2> QED
    BY <1>4, <2>1, <2>2, <2>3, <2>4
<1>8. Framed(c, n)
  BY <1>5, <1>6, <1>7 DEF Framed
<1> QED
  BY <1>8 DEF b, c

(* The last message was never written.                                     *)
LEMMA FramedLess ==
  ASSUME NEW s \in Seq(Byte), NEW n \in Nat \ {0}, NEW i \in 1..MaxSent,
         Framed(s \o Bytes(i, n), n)
  PROVE  /\ Framed(s, n)
         /\ i \notin Messages(s)
<1> DEFINE b == Bytes(i, n)
<1> DEFINE c == s \o b
<1>1. b \in Seq(Byte) /\ Len(b) = n /\ \A j \in 1..n : b[j] = <<i, j>>
  BY BytesOfMessage
<1>2. Framed(c, n)
  OBVIOUS
<1> HIDE DEF b
<1>3. /\ Len(s) \in Nat /\ DOMAIN s = 1..Len(s) /\ DOMAIN c = 1..(Len(s) + n)
      /\ \A k \in 1..Len(s) : c[k] = s[k]
      /\ \A k \in 1..n : c[Len(s) + k] = b[k]
  <2>1. b \in Seq(Byte) /\ Len(b) = n
    BY <1>1
  <2>2. /\ s \o b \in Seq(Byte)
        /\ Len(s) \in Nat /\ Len(b) \in Nat /\ Len(s \o b) = Len(s) + Len(b)
        /\ DOMAIN s = 1..Len(s) /\ DOMAIN b = 1..Len(b)
        /\ DOMAIN (s \o b) = 1..(Len(s) + Len(b))
        /\ \A k \in 1..Len(s) : (s \o b)[k] = s[k]
        /\ \A k \in 1..Len(b) : (s \o b)[Len(s) + k] = b[k]
    <3> HIDE DEF c
    <3>1. \A d \in Seq(Byte) :
            /\ s \o d \in Seq(Byte)
            /\ Len(s) \in Nat /\ Len(d) \in Nat /\ Len(s \o d) = Len(s) + Len(d)
            /\ DOMAIN s = 1..Len(s) /\ DOMAIN d = 1..Len(d)
            /\ DOMAIN (s \o d) = 1..(Len(s) + Len(d))
            /\ \A k \in 1..Len(s) : (s \o d)[k] = s[k]
            /\ \A k \in 1..Len(d) : (s \o d)[Len(s) + k] = d[k]
      BY JoinedElements
    <3> QED
      BY <2>1, <3>1, Zenon
  <2> QED
    BY <2>1, <2>2
<1> HIDE DEF c
<1>4. \A k \in 1..Len(s) : k \in DOMAIN c /\ c[k] = s[k] /\ s[k][2] \in 1..n
  <2> TAKE k \in 1..Len(s)
  <2>1. k \in DOMAIN c /\ c[k] = s[k]
    BY <1>3
  <2>2. c[k][2] \in 1..n
    BY <1>2, <2>1, FramedPlace
  <2> QED
    BY <2>1, <2>2
<1>5. Len(s) + 1 \in DOMAIN c /\ c[Len(s) + 1] = <<i, 1>>
  BY <1>1, <1>3
<1>6. ASSUME NEW k \in 1..Len(s)
      PROVE  s[k][1] # i
  <2>1. s[k][1] = i => k - s[k][2] = (Len(s) + 1) - 1
    <3>1. k \in DOMAIN c /\ c[k] = s[k]
      BY <1>4
    <3>2. c[k][1] = c[Len(s) + 1][1] => k - c[k][2] = (Len(s) + 1) - c[Len(s) + 1][2]
      BY <1>2, <1>5, <3>1, FramedOnce
    <3> QED
      BY <1>5, <3>1, <3>2
  <2> QED
    BY <1>3, <1>4, <2>1
<1>7. ASSUME NEW k \in 1..Len(s), NEW q \in 1..n
      PROVE  /\ k - s[k][2] + q \in 1..Len(s)
             /\ s[k - s[k][2] + q] = <<s[k][1], q>>
  <2> DEFINE j == k - s[k][2] + q
  <2>1. j \in 1..(Len(s) + n) /\ c[j] = <<s[k][1], q>>
    <3>1. k \in DOMAIN c /\ c[k] = s[k]
      BY <1>4
    <3>2. k - c[k][2] + q \in DOMAIN c /\ c[k - c[k][2] + q] = <<c[k][1], q>>
      BY <1>2, <3>1, FramedAround, SMTT(30)
    <3> QED
      BY <1>3, <3>1, <3>2
  <2>2. j <= Len(s)
    <3>1. SUFFICES ASSUME j > Len(s) PROVE FALSE
      BY <1>3, <2>1
    <3>2. j - Len(s) \in 1..n /\ Len(s) + (j - Len(s)) = j
      BY <1>3, <2>1, <3>1
    <3>3. c[j] = <<i, j - Len(s)>>
      BY <1>1, <1>3, <3>2
    <3>4. s[k][1] = i
      BY <2>1, <3>3
    <3> QED
      BY <1>6, <3>4
  <2>3. j \in 1..Len(s)
    BY <1>3, <2>1, <2>2
  <2> HIDE DEF j
  <2>4. c[j] = s[j]
    BY <1>4, <2>3
  <2>5. s[j] = <<s[k][1], q>>
    BY <2>1, <2>4
  <2> QED
    BY <2>3, <2>5 DEF j
<1>8. Framed(s, n)
  <2>1. \A j, k \in 1..Len(s) : /\ s[j][1] = s[k][1] => j - s[j][2] = k - s[k][2]
                                /\ s[j][1] < s[k][1] => j < k
    <3> TAKE j, k \in 1..Len(s)
    <3>1. j \in DOMAIN c /\ k \in DOMAIN c /\ c[j] = s[j] /\ c[k] = s[k]
      BY <1>4
    <3>2. /\ c[j][1] = c[k][1] => j - c[j][2] = k - c[k][2]
          /\ c[j][1] < c[k][1] => j < k
      BY <1>2, <3>1, FramedOnce, FramedRises
    <3> QED
      BY <3>1, <3>2
  <2> QED
    BY <1>3, <1>4, <1>7, <2>1 DEF Framed
<1>9. i \notin Messages(s)
  BY <1>3, <1>6 DEF Messages
<1> QED
  BY <1>8, <1>9

(* A part of a message is still to be written: of that message there is a  *)
(* byte on its way already.                                                *)
LEMMA BegunBefore ==
  ASSUME NEW s \in Seq(Byte), NEW b \in Seq(Byte), NEW n \in Nat \ {0},
         Framed(s \o b, n), b # <<>>, b[1][2] # 1
  PROVE  b[1][1] \in Messages(s)
<1> DEFINE c == s \o b
<1>1. /\ Len(s) \in Nat /\ DOMAIN s = 1..Len(s) /\ DOMAIN c = 1..(Len(s) + Len(b))
      /\ Len(b) \in Nat
      /\ \A k \in 1..Len(s) : c[k] = s[k]
      /\ \A k \in 1..Len(b) : c[Len(s) + k] = b[k]
  BY JoinedElements
<1>2. Framed(c, n)
  OBVIOUS
<1> HIDE DEF c
<1>3. 1 \in 1..Len(b)
  BY <1>1, EmptySeq
<1>4. Len(s) + 1 \in DOMAIN c /\ c[Len(s) + 1] = b[1]
  BY <1>1, <1>3
<1>5. b[1][2] \in 1..n
  BY <1>2, <1>4, FramedPlace
<1> DEFINE k == (Len(s) + 1) - b[1][2] + 1
<1>6. k \in DOMAIN c /\ c[k] = <<b[1][1], 1>>
  <2>1. 1 \in 1..n
    OBVIOUS
  <2>2. /\ (Len(s) + 1) - c[Len(s) + 1][2] + 1 \in DOMAIN c
        /\ c[(Len(s) + 1) - c[Len(s) + 1][2] + 1] = <<c[Len(s) + 1][1], 1>>
    BY <1>2, <1>4, <2>1, FramedAround
  <2> QED
    BY <1>4, <2>2
<1>7. k \in 1..Len(s)
  BY <1>1, <1>5, <1>6
<1>8. s[k][1] = b[1][1]
  BY <1>1, <1>6, <1>7
<1> QED
  BY <1>1, <1>7, <1>8 DEF Messages

-----------------------------------------------------------------------------
(* Types. *)

LEMMA PeerIsSide == \A x \in Side : Peer(x) \in Side /\ Peer(Peer(x)) = x /\ Peer(x) # x
BY DEF Side, Peer

LEMMA LengthIsPositive ==
  \A x \in Side : Length(x) \in Nat \ {0} /\ SizeLen < Length(x) /\ SizeLen \in Nat \ {0}
BY FramingAssumption DEF Side, Length

LEMMA TypedInit == Init => Typed
<1> SUFFICES ASSUME Init PROVE Typed
  OBVIOUS
<1>1. <<>> \in Seq(Byte) /\ Len(<<>>) = 0
  OBVIOUS
<1>2. SizeLen \in Nat \ {0} /\ Capacity \in Nat \ {0} /\ MaxSent \in Nat
  BY FramingAssumption
<1>3. stream \in [Side -> Seq(Byte)] /\ out \in [Side -> Seq(Byte)] /\ in \in [Side -> Seq(Byte)]
  BY <1>1 DEF Init
<1>4. need \in [Side -> Nat \ {0}]
  BY <1>2 DEF Init
<1>5. pc \in [Side -> {"idle", "write", "size", "body", "invoke", "exit", "spin"}]
  BY DEF Init
<1>6. sent \in 0..MaxSent /\ got \in 0..MaxSent /\ torn \subseteq Side
  BY <1>2 DEF Init
<1>7. \A x \in Side : Len(in[x]) <= need[x] /\ Len(stream[x]) <= Capacity
  BY <1>1, <1>2 DEF Init
<1>8. /\ At("server", "invoke") => in["server"] # <<>>
      /\ pc["client"] # "invoke" /\ pc["server"] # "idle"
      /\ At("client", "write") => sent # 0
  BY DEF Init, Side, At
<1> QED
  BY <1>3, <1>4, <1>5, <1>6, <1>7, <1>8 DEF Typed

(* write_all puts a beginning of what is left into the socket.             *)
LEMMA WriteMoves ==
  ASSUME Typed, NEW x \in Side, write_all(x)
  PROVE  \E c, d \in Seq(Byte) :
           /\ out[x] = c \o d /\ c # <<>>
           /\ Len(c) \in 1..Len(out[x]) /\ Len(d) = Len(out[x]) - Len(c)
           /\ \A i \in 1..Len(d) : d[i] = out[x][Len(c) + i]
           /\ Len(stream[Peer(x)] \o c) <= Capacity
           /\ stream' = [stream EXCEPT ![Peer(x)] = @ \o c]
           /\ out' = [out EXCEPT ![x] = d]
           /\ d # <<>> => pc' = pc /\ in' = in /\ need' = need
           /\ d = <<>> => Goto(x, "size") /\ AwaitMessage(x)
<1>1. out[x] \in Seq(Byte) /\ Len(out[x]) \in Nat
  BY LenProperties DEF Typed
<1>2. Peer(x) \in Side
  BY PeerIsSide
<1>3. stream[Peer(x)] \in Seq(Byte) /\ Len(stream[Peer(x)]) \in Nat
      /\ Len(stream[Peer(x)]) <= Capacity
  BY <1>2, LenProperties DEF Typed
<1>4. Room(x) \in Nat
  BY <1>3, FramingAssumption DEF Room
<1>5. PICK n \in 1..Min({Len(out[x]), Room(x)}) :
        /\ stream' = [stream EXCEPT ![Peer(x)] = @ \o SubSeq(out[x], 1, n)]
        /\ out' = [out EXCEPT ![x] = SubSeq(@, n + 1, Len(@))]
        /\ IF n < Len(out[x])
           THEN UNCHANGED <<pc, in, need>>
           ELSE Goto(x, "size") /\ AwaitMessage(x)
  BY DEF write_all
<1>6. n \in 1..Len(out[x]) /\ n \in 1..Room(x)
  BY <1>1, <1>4, MinOfTwo
<1> DEFINE c == SubSeq(out[x], 1, n)
           d == SubSeq(out[x], n + 1, Len(out[x]))
<1>7. /\ c \in Seq(Byte) /\ Len(c) = n
      /\ d \in Seq(Byte) /\ Len(d) = Len(out[x]) - n
      /\ \A i \in 1..(Len(out[x]) - n) : d[i] = out[x][n + i]
      /\ c \o d = out[x]
  BY <1>1, <1>6, Cut
<1>8. out' = [out EXCEPT ![x] = d]
  BY <1>5
<1>9. stream' = [stream EXCEPT ![Peer(x)] = @ \o c]
  BY <1>5
<1> HIDE DEF c, d
<1>10. Len(stream[Peer(x)] \o c) = Len(stream[Peer(x)]) + n
  BY <1>3, <1>7, ConcatProperties
<1>11. Len(stream[Peer(x)] \o c) <= Capacity
  BY <1>3, <1>6, <1>10, FramingAssumption DEF Room
<1>12. d = <<>> <=> n = Len(out[x])
  BY <1>1, <1>6, <1>7, EmptySeq
<1>13. c # <<>>
  BY <1>6, <1>7
<1>14. /\ d # <<>> => pc' = pc /\ in' = in /\ need' = need
       /\ d = <<>> => Goto(x, "size") /\ AwaitMessage(x)
  BY <1>1, <1>5, <1>6, <1>12
<1> QED
  BY <1>6, <1>7, <1>8, <1>9, <1>11, <1>13, <1>14

(* read_all takes a beginning of what has arrived.                         *)
LEMMA ReadMoves ==
  ASSUME Typed, NEW x \in Side, read_all(x)
  PROVE  \E c, d \in Seq(Byte) :
           /\ stream[x] = c \o d
           /\ Len(in[x] \o c) <= need[x]
           /\ Len(d) <= Len(stream[x])
           /\ in' = [in EXCEPT ![x] = @ \o c]
           /\ stream' = [stream EXCEPT ![x] = d]
           /\ UNCHANGED <<out, need, pc, sent, got, torn>>
<1>1. /\ stream[x] \in Seq(Byte) /\ Len(stream[x]) \in Nat
      /\ in[x] \in Seq(Byte) /\ Len(in[x]) \in Nat /\ need[x] \in Nat
  BY LenProperties DEF Typed
<1>2. Len(in[x]) < need[x]
  BY DEF read_all
<1>3. need[x] - Len(in[x]) \in Nat
  BY <1>1, <1>2
<1>4. PICK n \in 1..Min({need[x] - Len(in[x]), Len(stream[x])}) :
        /\ in' = [in EXCEPT ![x] = @ \o SubSeq(stream[x], 1, n)]
        /\ stream' = [stream EXCEPT ![x] = SubSeq(@, n + 1, Len(@))]
  BY DEF read_all
<1>5. n \in 1..(need[x] - Len(in[x])) /\ n \in 1..Len(stream[x])
  BY <1>1, <1>3, MinOfTwo
<1> DEFINE c == SubSeq(stream[x], 1, n)
           d == SubSeq(stream[x], n + 1, Len(stream[x]))
<1>6. /\ c \in Seq(Byte) /\ Len(c) = n
      /\ d \in Seq(Byte) /\ Len(d) = Len(stream[x]) - n
      /\ c \o d = stream[x]
  BY <1>1, <1>5, Cut
<1>7. in' = [in EXCEPT ![x] = @ \o c] /\ stream' = [stream EXCEPT ![x] = d]
  BY <1>4
<1> HIDE DEF c, d
<1>8. Len(in[x] \o c) = Len(in[x]) + n
  BY <1>1, <1>6, ConcatProperties
<1>9. Len(in[x] \o c) <= need[x] /\ Len(d) <= Len(stream[x])
  BY <1>1, <1>5, <1>6, <1>8
<1>10. UNCHANGED <<out, need, pc, sent, got, torn>>
  BY DEF read_all
<1> QED
  BY <1>6, <1>7, <1>9, <1>10

LEMMA TypedWrite ==
  ASSUME Typed, NEW x \in Side, write_all(x)
  PROVE  Typed'
<1>1. PICK c \in Seq(Byte), d \in Seq(Byte) :
        /\ Len(stream[Peer(x)] \o c) <= Capacity
        /\ stream' = [stream EXCEPT ![Peer(x)] = @ \o c]
        /\ out' = [out EXCEPT ![x] = d]
        /\ d # <<>> => pc' = pc /\ in' = in /\ need' = need
        /\ d = <<>> => Goto(x, "size") /\ AwaitMessage(x)
  BY WriteMoves
<1>2. Peer(x) \in Side /\ SizeLen \in Nat \ {0}
  BY PeerIsSide, FramingAssumption
<1>3. stream[Peer(x)] \o c \in Seq(Byte)
  BY <1>2, ConcatProperties DEF Typed
<1>4. stream' \in [Side -> Seq(Byte)] /\ out' \in [Side -> Seq(Byte)]
  BY <1>1, <1>3 DEF Typed
<1>5. \A y \in Side : Len(stream'[y]) <= Capacity
  BY <1>1, <1>2 DEF Typed
<1>6. At(x, "write") /\ UNCHANGED <<sent, got, torn>>
  BY DEF write_all
<1>7. CASE d # <<>>
  <2>1. pc' = pc /\ in' = in /\ need' = need
    BY <1>1, <1>7
  <2> QED
    BY <1>4, <1>5, <1>6, <2>1 DEF Typed, At
<1>8. CASE d = <<>>
  <2>1. pc' = [pc EXCEPT ![x] = "size"]
    BY <1>1, <1>8 DEF Goto
  <2>2. in' = [in EXCEPT ![x] = <<>>] /\ need' = [need EXCEPT ![x] = SizeLen]
    BY <1>1, <1>8 DEF AwaitMessage
  <2>3. pc' \in [Side -> {"idle", "write", "size", "body", "invoke", "exit", "spin"}]
    BY <2>1 DEF Typed
  <2>4. in' \in [Side -> Seq(Byte)] /\ need' \in [Side -> Nat \ {0}]
    BY <1>2, <2>2 DEF Typed
  <2>5. \A y \in Side : Len(in'[y]) <= need'[y]
    BY <1>2, <2>2 DEF Typed
  <2>6. /\ pc'["server"] = "invoke" => in'["server"] # <<>>
        /\ pc'["client"] # "invoke" /\ pc'["server"] # "idle"
        /\ pc'["client"] = "write" => sent # 0
    BY <1>6, <2>1, <2>2 DEF Typed, Side, At
  <2> QED
    BY <1>4, <1>5, <1>6, <2>3, <2>4, <2>5, <2>6 DEF Typed, At
<1> QED
  BY <1>7, <1>8

LEMMA TypedRead ==
  ASSUME Typed, NEW x \in Side, read_all(x)
  PROVE  Typed'
<1>1. PICK c \in Seq(Byte), d \in Seq(Byte) :
        /\ Len(in[x] \o c) <= need[x]
        /\ Len(d) <= Len(stream[x])
        /\ in' = [in EXCEPT ![x] = @ \o c]
        /\ stream' = [stream EXCEPT ![x] = d]
        /\ UNCHANGED <<out, need, pc, sent, got, torn>>
  BY ReadMoves
<1>2. in[x] \o c \in Seq(Byte)
  BY ConcatProperties DEF Typed
<1>3. in' \in [Side -> Seq(Byte)] /\ stream' \in [Side -> Seq(Byte)]
  BY <1>1, <1>2 DEF Typed
<1>4. Len(d) <= Capacity
  BY <1>1, LenProperties, FramingAssumption DEF Typed
<1>5. \A y \in Side : Len(in'[y]) <= need'[y] /\ Len(stream'[y]) <= Capacity
  BY <1>1, <1>4 DEF Typed
<1>6. pc[x] \in {"size", "body"}
  BY DEF read_all
<1>7. At("server", "invoke") => in'["server"] # <<>>
  BY <1>1, <1>6 DEF Typed, At
<1> QED
  BY <1>1, <1>3, <1>5, <1>7 DEF Typed, At

LEMMA TypedSize ==
  ASSUME Typed, NEW x \in Side, Size(x)
  PROVE  Typed'
<1>1. /\ At(x, "size") /\ Len(in[x]) = SizeLen
      /\ UNCHANGED <<stream, out, in, sent, got, torn>>
  BY DEF Size
<1>2. SizeLen \in Nat \ {0} /\ Length(x) \in Nat \ {0} /\ SizeLen <= Length(x)
  BY FramingAssumption, LengthIsPositive
<1>3. \/ /\ pc' = [pc EXCEPT ![x] = "body"]
         /\ \E n \in Nat \ {0} : SizeLen <= n /\ need' = [need EXCEPT ![x] = n]
      \/ /\ need' = need
         /\ \E p \in {"idle", "exit"} :
              /\ pc' = [pc EXCEPT ![x] = p]
              /\ p = "idle" => x = "client"
  <2>1. CASE Goto(x, "body") /\ need' = [need EXCEPT ![x] = SizeLen + BodyLen[x]]
    BY <1>2, <2>1 DEF Goto, Length
  <2>2. CASE Goto(x, "body") /\ \E n \in Garbage : need' = [need EXCEPT ![x] = SizeLen + n]
    <3>1. PICK n \in Garbage : need' = [need EXCEPT ![x] = SizeLen + n]
      BY <2>2
    <3>2. SizeLen + n \in Nat \ {0} /\ SizeLen <= SizeLen + n
      BY FramingAssumption
    <3> QED
      BY <2>2, <3>1, <3>2 DEF Goto
  <2>3. CASE Fails(x) /\ UNCHANGED need
    BY <2>3 DEF Fails, Goto
  <2> QED
    BY <2>1, <2>2, <2>3 DEF Size
<1>4. pc' \in [Side -> {"idle", "write", "size", "body", "invoke", "exit", "spin"}]
  BY <1>3 DEF Typed
<1>5. need' \in [Side -> Nat \ {0}] /\ \A y \in Side : Len(in[y]) <= need'[y]
  <2>1. need \in [Side -> Nat \ {0}] /\ \A y \in Side : Len(in[y]) <= need[y]
    BY DEF Typed
  <2>2. CASE \E n \in Nat \ {0} : SizeLen <= n /\ need' = [need EXCEPT ![x] = n]
    <3>1. PICK n \in Nat \ {0} : SizeLen <= n /\ need' = [need EXCEPT ![x] = n]
      BY <2>2
    <3>2. ASSUME NEW y \in Side PROVE Len(in[y]) <= need'[y]
      BY <1>1, <2>1, <3>1
    <3> QED
      BY <2>1, <3>1, <3>2
  <2> QED
    BY <1>3, <2>1, <2>2
<1>6. /\ pc'["server"] = "invoke" => pc["server"] = "invoke"
      /\ pc'["client"] # "invoke" /\ pc'["server"] # "idle"
      /\ pc'["client"] = "write" => pc["client"] = "write"
  BY <1>3 DEF Typed, Side
<1> QED
  BY <1>1, <1>4, <1>5, <1>6 DEF Typed, At

LEMMA TypedUnpack ==
  ASSUME Typed, NEW x \in Side, Unpack(x)
  PROVE  Typed'
<1>1. /\ At(x, "body") /\ Len(in[x]) = need[x]
      /\ UNCHANGED <<stream, out, in, need, sent, torn>>
  BY DEF Unpack
<1>2. in[x] # <<>>
  BY <1>1 DEF Typed
<1>3. \E p \in {"idle", "invoke", "exit"} :
        /\ pc' = [pc EXCEPT ![x] = p]
        /\ p = "idle" => x = "client"
        /\ p = "invoke" => x # "client"
  BY DEF Unpack, Fails, Goto
<1>4. got' \in 0..MaxSent
  <2>1. in[x][1] \in Byte
    BY <1>2, EmptySeq, ElementOfSeq DEF Typed
  <2>2. in[x][1][1] \in 0..MaxSent
    BY <2>1, FramingAssumption DEF Byte
  <2> QED
    BY <2>2 DEF Unpack, Typed
<1>5. pc' \in [Side -> {"idle", "write", "size", "body", "invoke", "exit", "spin"}]
  BY <1>3 DEF Typed
<1>6. /\ pc'["server"] = "invoke" => in["server"] # <<>>
      /\ pc'["client"] # "invoke" /\ pc'["server"] # "idle"
      /\ pc'["client"] = "write" => pc["client"] = "write"
  BY <1>2, <1>3 DEF Typed, Side, At
<1> QED
  BY <1>1, <1>4, <1>5, <1>6 DEF Typed, At

LEMMA TypedNext == Typed /\ [Next]_fvars => Typed'
<1> SUFFICES ASSUME Typed, [Next]_fvars
             PROVE  Typed'
  OBVIOUS
<1>0. SizeLen \in Nat \ {0} /\ "client" \in Side /\ "server" \in Side
  BY FramingAssumption DEF Side
<1>1. CASE Call
  <2>1. sent + 1 \in 1..MaxSent /\ sent' = sent + 1
    BY <1>1, FramingAssumption DEF Call, Typed
  <2>2. Packed(sent + 1, "server") \in Seq(Byte)
    BY <1>0, <2>1, BytesOfMessage, LengthIsPositive DEF Packed, Length
  <2>3. /\ out' = [out EXCEPT !["client"] = Packed(sent + 1, "server")]
        /\ pc' = [pc EXCEPT !["client"] = "write"]
        /\ in' = [in EXCEPT !["client"] = <<>>] /\ need' = [need EXCEPT !["client"] = SizeLen]
        /\ UNCHANGED <<stream, got, torn>>
    BY <1>1 DEF Call, Goto, AwaitMessage
  <2>4. out' \in [Side -> Seq(Byte)] /\ in' \in [Side -> Seq(Byte)]
        /\ need' \in [Side -> Nat \ {0}] /\ \A x \in Side : Len(in'[x]) <= need'[x]
    BY <1>0, <2>2, <2>3 DEF Typed
  <2>5. /\ pc' \in [Side -> {"idle", "write", "size", "body", "invoke", "exit", "spin"}]
        /\ pc'["server"] = "invoke" => in'["server"] # <<>>
        /\ pc'["client"] # "invoke" /\ pc'["server"] # "idle"
    BY <1>0, <2>3 DEF Typed, At
  <2>6. sent' \in 0..MaxSent /\ sent' # 0
    BY <2>1
  <2> QED
    BY <2>3, <2>4, <2>5, <2>6 DEF Typed, At
<1>2. CASE Limit
  <2>1. /\ pc' = [pc EXCEPT !["client"] = "idle"]
        /\ UNCHANGED <<stream, out, in, need, sent, got>>
    BY <1>2 DEF Limit, Goto
  <2>2. torn' \subseteq Side
    BY <1>0, <1>2 DEF Limit, Typed
  <2> QED
    BY <1>0, <2>1, <2>2 DEF Typed, At
<1>3. CASE ReadEnd
  BY <1>0, <1>3 DEF ReadEnd, Goto, Typed, At
<1>4. CASE Reply
  <2>1. /\ pc' = [pc EXCEPT !["server"] = "write"] /\ in["server"] # <<>>
        /\ out' = [out EXCEPT !["server"] = Packed(in["server"][1][1], "client")]
        /\ in' = [in EXCEPT !["server"] = <<>>]
        /\ UNCHANGED <<stream, need, sent, got, torn>>
    BY <1>4 DEF Reply, Goto, Typed
  <2>2. in["server"][1] \in Byte
    BY <1>0, <2>1, EmptySeq, ElementOfSeq DEF Typed
  <2>3. Packed(in["server"][1][1], "client") \in Seq(Byte)
    <3>1. in["server"][1][1] \in 1..MaxSent
      BY <2>2 DEF Byte
    <3> QED
      BY <1>0, <3>1, BytesOfMessage, LengthIsPositive DEF Packed, Length
  <2>4. out' \in [Side -> Seq(Byte)] /\ in' \in [Side -> Seq(Byte)]
        /\ \A x \in Side : Len(in'[x]) <= need[x]
    BY <1>0, <2>1, <2>3 DEF Typed
  <2>5. /\ pc' \in [Side -> {"idle", "write", "size", "body", "invoke", "exit", "spin"}]
        /\ pc'["server"] # "invoke"
        /\ pc'["client"] # "invoke" /\ pc'["server"] # "idle"
        /\ pc'["client"] = pc["client"]
    BY <1>0, <2>1 DEF Typed
  <2> QED
    BY <2>1, <2>4, <2>5 DEF Typed, At
<1>5. CASE \E x \in Side : Transfer(x)
  BY <1>5, TypedWrite, TypedRead, TypedSize, TypedUnpack DEF Transfer
<1>6. CASE UNCHANGED fvars
  BY <1>6 DEF fvars, Typed, At
<1> QED
  BY <1>1, <1>2, <1>3, <1>4, <1>5, <1>6 DEF Next

(* The variables of module Framing keep their types, no end reads more of  *)
(* a message than the buffer it allocated holds (read_all of message.c),   *)
(* and no socket takes more than it has room for (write_all).              *)
THEOREM FramingTypeCorrect == Spec => []TypeOK
<1>1. Typed => TypeOK
  BY DEF Typed, TypeOK
<1> QED
  BY <1>1, TypedInit, TypedNext, PTL DEF Spec

-----------------------------------------------------------------------------
(* What each action does to the bytes that have arrived and to those that  *)
(* are still to be written.                                                *)

LEMMA BytesAssociative ==
  \A s, t, u \in Seq(Byte) : (s \o t) \o u = s \o (t \o u)
BY ConcatAssociative

LEMMA BytesMessages ==
  \A s, t \in Seq(Byte) : Messages(s \o t) = Messages(s) \cup Messages(t)
BY MessagesOfJoined

LEMMA FlowTypes ==
  ASSUME Typed, NEW x \in Side
  PROVE  /\ Reading(x) \in Seq(Byte) /\ stream[x] \in Seq(Byte) /\ in[x] \in Seq(Byte)
         /\ Arrived(x) \in Seq(Byte) /\ Writing(x) \in Seq(Byte) /\ Flow(x) \in Seq(Byte)
<1>1. <<>> \in Seq(Byte)
  OBVIOUS
<1>2. /\ \A y \in Side : Reading(y) \in Seq(Byte) /\ Writing(y) \in Seq(Byte)
      /\ stream[x] \in Seq(Byte) /\ in[x] \in Seq(Byte)
  BY <1>1 DEF Typed, Reading, Writing
<1>3. Arrived(x) \in Seq(Byte)
  BY <1>2, ConcatProperties DEF Arrived
<1>4. Flow(x) \in Seq(Byte)
  BY <1>2, <1>3, PeerIsSide, ConcatProperties DEF Flow
<1> QED
  BY <1>2, <1>3, <1>4

(* The messages of a flow are those that have arrived in part and those    *)
(* that are to be written.                                                 *)
LEMMA FlowMessages ==
  ASSUME Typed, NEW x \in Side
  PROVE  Messages(Flow(x)) = Messages(Arrived(x)) \cup Messages(Writing(Peer(x)))
<1>1. Arrived(x) \in Seq(Byte) /\ Writing(Peer(x)) \in Seq(Byte)
  BY FlowTypes, PeerIsSide
<1> QED
  BY <1>1, MessagesOfJoined DEF Flow

LEMMA FlowNumbers ==
  ASSUME Typed, NEW x \in Side, NEW k \in Messages(Flow(x))
  PROVE  k \in 1..MaxSent
<1>1. Flow(x) \in Seq(Byte)
  BY FlowTypes
<1>2. PICK i \in DOMAIN Flow(x) : k = Flow(x)[i][1]
  BY DEF Messages
<1>3. Flow(x)[i] \in Byte
  BY <1>1, <1>2, LenProperties, ElementOfSeq
<1> QED
  BY <1>2, <1>3 DEF Byte

(* Bytes that are written are not to be written any more, and are there    *)
(* for the other end.                                                      *)
LEMMA FlowOfWrite ==
  ASSUME Typed, NEW x \in Side, write_all(x)
  PROVE  /\ \E c, d \in Seq(Byte) :
              /\ c # <<>>
              /\ Writing(x) = c \o d /\ Writing(x)' = d
              /\ Arrived(Peer(x))' = Arrived(Peer(x)) \o c
         /\ Arrived(x)' = Arrived(x)
         /\ Writing(Peer(x))' = Writing(Peer(x))
         /\ \A y \in Side : Flow(y)' = Flow(y)
<1>1. PICK c \in Seq(Byte), d \in Seq(Byte) :
        /\ out[x] = c \o d /\ c # <<>>
        /\ stream' = [stream EXCEPT ![Peer(x)] = @ \o c]
        /\ out' = [out EXCEPT ![x] = d]
        /\ d # <<>> => pc' = pc /\ in' = in /\ need' = need
        /\ d = <<>> => Goto(x, "size") /\ AwaitMessage(x)
  BY WriteMoves
<1>2. Peer(x) \in Side /\ Peer(Peer(x)) = x /\ Peer(x) # x
  BY PeerIsSide
<1>3. pc[x] = "write"
  BY DEF write_all, At
<1>4. /\ pc'[Peer(x)] = pc[Peer(x)] /\ in'[Peer(x)] = in[Peer(x)]
      /\ out'[Peer(x)] = out[Peer(x)] /\ out'[x] = d
      /\ stream'[x] = stream[x] /\ stream'[Peer(x)] = stream[Peer(x)] \o c
      /\ \/ pc'[x] = "write" /\ d # <<>>
         \/ pc'[x] = "size" /\ in'[x] = <<>> /\ d = <<>>
  BY <1>1, <1>2, <1>3 DEF Goto, AwaitMessage, Typed
<1>5. Writing(x) = c \o d /\ Writing(x)' = d /\ Writing(Peer(x))' = Writing(Peer(x))
  BY <1>1, <1>3, <1>4 DEF Writing, At
<1>6. Reading(x)' = Reading(x) /\ Reading(Peer(x))' = Reading(Peer(x))
  BY <1>3, <1>4 DEF Reading
<1>7. Arrived(x)' = Arrived(x)
  BY <1>4, <1>6 DEF Arrived
<1>8. Arrived(Peer(x))' = Arrived(Peer(x)) \o c
  <2>1. Arrived(Peer(x))' = Reading(Peer(x)) \o (stream[Peer(x)] \o c)
    BY <1>4, <1>6 DEF Arrived
  <2>2. Reading(Peer(x)) \in Seq(Byte) /\ stream[Peer(x)] \in Seq(Byte)
    BY <1>2, FlowTypes
  <2>3. (Reading(Peer(x)) \o stream[Peer(x)]) \o c = Reading(Peer(x)) \o (stream[Peer(x)] \o c)
    BY <2>2, BytesAssociative, ZenonT(30)
  <2> QED
    BY <2>1, <2>3 DEF Arrived
<1>9. Flow(x)' = Flow(x)
  BY <1>5, <1>7 DEF Flow
<1>10. Flow(Peer(x))' = Flow(Peer(x))
  <2>1. Flow(Peer(x))' = (Arrived(Peer(x)) \o c) \o d
    BY <1>2, <1>5, <1>8 DEF Flow
  <2>2. Arrived(Peer(x)) \in Seq(Byte)
    BY <1>2, FlowTypes
  <2>3. (Arrived(Peer(x)) \o c) \o d = Arrived(Peer(x)) \o (c \o d)
    BY <2>2, BytesAssociative, Zenon
  <2> QED
    BY <1>2, <1>5, <2>1, <2>3 DEF Flow
<1>11. \A y \in Side : y = x \/ y = Peer(x)
  BY DEF Side, Peer
<1> QED
  BY <1>1, <1>5, <1>7, <1>8, <1>9, <1>10, <1>11

(* Reading moves bytes from the socket to the buffer.                      *)
LEMMA FlowOfRead ==
  ASSUME Typed, NEW x \in Side, read_all(x), NEW y \in Side
  PROVE  /\ Arrived(y)' = Arrived(y)
         /\ Writing(y)' = Writing(y)
         /\ Flow(y)' = Flow(y)
<1>1. PICK c \in Seq(Byte), d \in Seq(Byte) :
        /\ stream[x] = c \o d
        /\ in' = [in EXCEPT ![x] = @ \o c]
        /\ stream' = [stream EXCEPT ![x] = d]
        /\ UNCHANGED <<out, need, pc, sent, got, torn>>
  BY ReadMoves
<1>2. pc[x] \in {"size", "body"}
  BY DEF read_all
<1>3. \A z \in Side : Writing(z)' = Writing(z)
  BY <1>1 DEF Writing, At
<1>4. CASE y = x
  <2>1. in'[x] = in[x] \o c /\ stream'[x] = d
    BY <1>1 DEF Typed
  <2>2. Arrived(x)' = (in[x] \o c) \o d
    BY <1>1, <1>2, <2>1 DEF Arrived, Reading
  <2>3. Arrived(x) = in[x] \o (c \o d)
    BY <1>1, <1>2 DEF Arrived, Reading
  <2>4. (in[x] \o c) \o d = in[x] \o (c \o d)
    <3>1. in[x] \in Seq(Byte)
      BY FlowTypes
    <3> QED
      BY <3>1, BytesAssociative, Zenon
  <2> QED
    BY <1>3, <1>4, <2>2, <2>3, <2>4, PeerIsSide DEF Flow
<1>5. CASE y # x
  <2>1. in'[y] = in[y] /\ stream'[y] = stream[y] /\ pc' = pc
    BY <1>1, <1>5 DEF Typed
  <2> QED
    BY <1>3, <2>1, PeerIsSide DEF Flow, Arrived, Reading
<1> QED
  BY <1>4, <1>5

(* An end that is in step reads the beginning of a message.                *)
LEMMA ReadsGenuine ==
  ASSUME Typed, InStep, NEW x \in Side, pc[x] \in {"size", "body"},
         in[x] # <<>>, Len(in[x]) <= Length(x)
  PROVE  /\ Genuine(x)
         /\ in[x][1][1] \in 1..MaxSent
<1> DEFINE t == stream[x] \o Writing(Peer(x))
<1>1. in[x] \in Seq(Byte) /\ stream[x] \in Seq(Byte) /\ Writing(Peer(x)) \in Seq(Byte)
  BY FlowTypes, PeerIsSide
<1>2. t \in Seq(Byte)
  BY <1>1, ConcatProperties
<1>3. Flow(x) = in[x] \o t
  <2>1. Flow(x) = (in[x] \o stream[x]) \o Writing(Peer(x))
    BY DEF Flow, Arrived, Reading
  <2> QED
    BY <1>1, <2>1, BytesAssociative, Zenon
<1>4. Framed(in[x] \o t, Length(x))
  BY <1>3 DEF InStep
<1> HIDE DEF t
<1>5. in[x][1][1] \in 1..MaxSent /\ in[x] = Bytes(in[x][1][1], Len(in[x]))
  BY <1>1, <1>2, <1>4, LengthIsPositive, FramedStart
<1> QED
  BY <1>5 DEF Genuine

LEMMA FlowOfSize ==
  ASSUME Typed, InStep, NEW x \in Side, Size(x)
  PROVE  /\ pc' = [pc EXCEPT ![x] = "body"]
         /\ need' = [need EXCEPT ![x] = Length(x)]
         /\ \A y \in Side : /\ Arrived(y)' = Arrived(y)
                            /\ Writing(y)' = Writing(y)
                            /\ Flow(y)' = Flow(y)
<1>1. /\ pc[x] = "size" /\ Len(in[x]) = SizeLen
      /\ UNCHANGED <<stream, out, in, sent, got, torn>>
  BY DEF Size, At
<1>2. SizeLen \in Nat \ {0} /\ Length(x) \in Nat \ {0} /\ SizeLen <= Length(x)
  BY FramingAssumption, LengthIsPositive
<1>3. in[x] # <<>>
  BY <1>1, <1>2, EmptySeq
<1>4. Genuine(x)
  BY <1>1, <1>2, <1>3, ReadsGenuine
<1>5. pc' = [pc EXCEPT ![x] = "body"] /\ need' = [need EXCEPT ![x] = Length(x)]
  BY <1>4 DEF Size, Goto, Length
<1>6. \A y \in Side : Reading(y)' = Reading(y) /\ Writing(y)' = Writing(y)
  BY <1>1, <1>5 DEF Reading, Writing, At, Typed
<1>7. \A y \in Side : Arrived(y)' = Arrived(y)
  BY <1>1, <1>6 DEF Arrived
<1> QED
  BY <1>5, <1>6, <1>7, PeerIsSide DEF Flow

(* Unpacking takes the first message, the oldest, off what has arrived.    *)
LEMMA FlowOfUnpack ==
  ASSUME Typed, InStep, NEW x \in Side, Unpack(x)
  PROVE  /\ in[x][1][1] \in 1..MaxSent
         /\ pc' = [pc EXCEPT ![x] = IF x = "client" THEN "idle" ELSE "invoke"]
         /\ got' = IF x = "client" THEN in[x][1][1] ELSE got
         /\ UNCHANGED <<stream, out, in, need, sent, torn>>
         /\ Framed(Flow(x)', Length(x))
         /\ \A k \in Messages(Flow(x)') : in[x][1][1] < k
         /\ Messages(Flow(x)) = {in[x][1][1]} \cup Messages(Flow(x)')
         /\ Messages(Arrived(x)) = {in[x][1][1]} \cup Messages(Arrived(x)')
         /\ Arrived(x)' \in Seq(Byte)
         /\ Flow(Peer(x))' = Flow(Peer(x)) /\ Arrived(Peer(x))' = Arrived(Peer(x))
         /\ \A y \in Side : Writing(y)' = Writing(y)
<1>1. /\ pc[x] = "body" /\ Len(in[x]) = need[x]
      /\ UNCHANGED <<stream, out, in, need, sent, torn>>
  BY DEF Unpack, At
<1>2. Length(x) \in Nat \ {0} /\ Len(in[x]) = Length(x)
  BY <1>1, LengthIsPositive DEF InStep, At
<1>3. in[x] # <<>>
  BY <1>2, EmptySeq
<1>4. Genuine(x) /\ in[x][1][1] \in 1..MaxSent
  BY <1>1, <1>2, <1>3, ReadsGenuine
<1>5. /\ pc' = [pc EXCEPT ![x] = IF x = "client" THEN "idle" ELSE "invoke"]
      /\ got' = IF x = "client" THEN in[x][1][1] ELSE got
  BY <1>2, <1>4 DEF Unpack, Goto, Length
<1>6. Peer(x) \in Side /\ Peer(Peer(x)) = x /\ Peer(x) # x
  BY PeerIsSide
<1>7. in[x] \in Seq(Byte) /\ stream[x] \in Seq(Byte) /\ Writing(Peer(x)) \in Seq(Byte)
  BY <1>6, FlowTypes
<1>8. Reading(x) = in[x] /\ Reading(x)' = <<>> /\ Reading(Peer(x))' = Reading(Peer(x))
  BY <1>1, <1>5, <1>6 DEF Reading, Typed
<1>9. \A y \in Side : Writing(y)' = Writing(y)
  BY <1>1, <1>5 DEF Writing, At, Typed
<1>10. Arrived(Peer(x))' = Arrived(Peer(x))
  BY <1>1, <1>8 DEF Arrived
<1>11. Flow(Peer(x))' = Flow(Peer(x))
  BY <1>6, <1>9, <1>10 DEF Flow
<1>12. Arrived(x)' = stream[x]
  <2>1. Arrived(x)' = <<>> \o stream[x]
    BY <1>1, <1>8 DEF Arrived
  <2> QED
    BY <1>7, <2>1, ConcatEmptySeq
<1> DEFINE t == stream[x] \o Writing(Peer(x))
<1>13. t \in Seq(Byte)
  BY <1>7, ConcatProperties
<1>14. Flow(x)' = t
  BY <1>6, <1>9, <1>12 DEF Flow
<1>15. Arrived(x) = in[x] \o stream[x]
  BY <1>8 DEF Arrived
<1>16. Flow(x) = in[x] \o t
  <2>1. Flow(x) = (in[x] \o stream[x]) \o Writing(Peer(x))
    BY <1>15 DEF Flow
  <2> QED
    BY <1>7, <2>1, BytesAssociative, Zenon
<1> HIDE DEF t
<1>17. Framed(in[x] \o t, Length(x))
  BY <1>16 DEF InStep
<1>18. /\ Framed(t, Length(x))
       /\ \A k \in Messages(t) : in[x][1][1] < k
       /\ Messages(in[x]) = {in[x][1][1]}
  BY <1>2, <1>7, <1>13, <1>17, FramedRest
<1>19. Messages(Flow(x)) = {in[x][1][1]} \cup Messages(t)
  BY <1>7, <1>13, <1>16, <1>18, MessagesOfJoined
<1>20. Messages(Arrived(x)) = {in[x][1][1]} \cup Messages(stream[x])
  BY <1>7, <1>15, <1>18, MessagesOfJoined
<1> QED
  BY <1>1, <1>4, <1>5, <1>7, <1>9, <1>10, <1>11, <1>12, <1>14, <1>18, <1>19, <1>20

(* A call adds its request at the end of what is on its way to the server. *)
LEMMA FlowOfCall ==
  ASSUME Typed, Call
  PROVE  /\ sent + 1 \in 1..MaxSent /\ sent' = sent + 1
         /\ pc' = [pc EXCEPT !["client"] = "write"]
         /\ out' = [out EXCEPT !["client"] = Bytes(sent + 1, Length("server"))]
         /\ in'["server"] = in["server"] /\ need'["server"] = need["server"]
         /\ UNCHANGED <<stream, got, torn>>
         /\ \A y \in Side : Arrived(y)' = Arrived(y)
         /\ Writing("server")' = Writing("server")
         /\ Flow("client")' = Flow("client")
         /\ Flow("server")' = Flow("server") \o Bytes(sent + 1, Length("server"))
<1>0. "client" \in Side /\ "server" \in Side /\ Peer("client") = "server" /\ Peer("server") = "client"
  BY DEF Side, Peer
<1>1. sent + 1 \in 1..MaxSent /\ sent' = sent + 1
  BY FramingAssumption DEF Call, Typed
<1>2. /\ pc["client"] = "idle"
      /\ pc' = [pc EXCEPT !["client"] = "write"]
      /\ out' = [out EXCEPT !["client"] = Bytes(sent + 1, Length("server"))]
      /\ in' = [in EXCEPT !["client"] = <<>>] /\ need' = [need EXCEPT !["client"] = SizeLen]
      /\ UNCHANGED <<stream, got, torn>>
  BY DEF Call, Goto, AwaitMessage, At, Packed, Length
<1>3. /\ pc'["client"] = "write" /\ pc'["server"] = pc["server"]
      /\ out'["client"] = Bytes(sent + 1, Length("server")) /\ out'["server"] = out["server"]
      /\ in'["server"] = in["server"] /\ need'["server"] = need["server"]
  BY <1>0, <1>2 DEF Typed
<1>4. Reading("client")' = Reading("client") /\ Reading("server")' = Reading("server")
  BY <1>2, <1>3 DEF Reading
<1>5. \A y \in Side : Arrived(y)' = Arrived(y)
  BY <1>2, <1>4 DEF Arrived, Side
<1>6. /\ Writing("client") = <<>> /\ Writing("client")' = Bytes(sent + 1, Length("server"))
      /\ Writing("server")' = Writing("server")
  BY <1>2, <1>3 DEF Writing, At
<1>7. Flow("client")' = Flow("client")
  BY <1>0, <1>5, <1>6 DEF Flow
<1>8. Arrived("server") \in Seq(Byte)
  BY <1>0, FlowTypes
<1>9. Flow("server") = Arrived("server")
  BY <1>0, <1>6, <1>8, ConcatEmptySeq DEF Flow
<1>10. Flow("server")' = Flow("server") \o Bytes(sent + 1, Length("server"))
  BY <1>0, <1>5, <1>6, <1>9 DEF Flow
<1> QED
  BY <1>1, <1>2, <1>3, <1>5, <1>6, <1>7, <1>10

(* The answer is added at the end of what is on its way to the client.     *)
LEMMA FlowOfReply ==
  ASSUME Typed, Reply
  PROVE  /\ Held = in["server"][1][1] /\ Held \in 1..MaxSent
         /\ pc["server"] = "invoke" /\ pc' = [pc EXCEPT !["server"] = "write"]
         /\ out'["client"] = out["client"]
         /\ UNCHANGED <<stream, need, sent, got, torn>>
         /\ \A y \in Side : Arrived(y)' = Arrived(y)
         /\ Writing("client")' = Writing("client")
         /\ Flow("server")' = Flow("server")
         /\ Flow("client")' = Flow("client") \o Bytes(Held, Length("client"))
<1>0. "client" \in Side /\ "server" \in Side /\ Peer("client") = "server" /\ Peer("server") = "client"
  BY DEF Side, Peer
<1>1. Held = in["server"][1][1] /\ Held \in 1..MaxSent
  <2>1. Held = in["server"][1][1] /\ in["server"] # <<>>
    BY DEF Reply, Held, Typed
  <2>2. in["server"][1] \in Byte
    BY <1>0, <2>1, EmptySeq, ElementOfSeq DEF Typed
  <2> QED
    BY <2>1, <2>2 DEF Byte
<1>2. /\ pc["server"] = "invoke"
      /\ pc' = [pc EXCEPT !["server"] = "write"]
      /\ out' = [out EXCEPT !["server"] = Bytes(Held, Length("client"))]
      /\ in' = [in EXCEPT !["server"] = <<>>]
      /\ UNCHANGED <<stream, need, sent, got, torn>>
  BY <1>1 DEF Reply, Goto, At, Packed, Length
<1>3. /\ pc'["server"] = "write" /\ pc'["client"] = pc["client"]
      /\ out'["server"] = Bytes(Held, Length("client")) /\ out'["client"] = out["client"]
      /\ in'["client"] = in["client"]
  BY <1>0, <1>2 DEF Typed
<1>4. Reading("client")' = Reading("client") /\ Reading("server")' = Reading("server")
  BY <1>2, <1>3 DEF Reading
<1>5. \A y \in Side : Arrived(y)' = Arrived(y)
  BY <1>2, <1>4 DEF Arrived, Side
<1>6. /\ Writing("server") = <<>> /\ Writing("server")' = Bytes(Held, Length("client"))
      /\ Writing("client")' = Writing("client")
  BY <1>2, <1>3 DEF Writing, At
<1>7. Flow("server")' = Flow("server")
  BY <1>0, <1>5, <1>6 DEF Flow
<1>8. Arrived("client") \in Seq(Byte)
  BY <1>0, FlowTypes
<1>9. Flow("client") = Arrived("client")
  BY <1>0, <1>6, <1>8, ConcatEmptySeq DEF Flow
<1>10. Flow("client")' = Flow("client") \o Bytes(Held, Length("client"))
  BY <1>0, <1>5, <1>6, <1>9 DEF Flow
<1> QED
  BY <1>1, <1>2, <1>3, <1>5, <1>6, <1>7, <1>10

(* A time limit that tears no direction strikes before the first byte of a *)
(* request is written, which then never is, or of an answer is read.       *)
LEMMA FlowOfLimit ==
  ASSUME Typed, InStep, Limit, torn' = {}
  PROVE  /\ pc' = [pc EXCEPT !["client"] = "idle"]
         /\ UNCHANGED <<stream, out, in, need, sent, got>>
         /\ \A y \in Side : Arrived(y)' = Arrived(y)
         /\ Writing("server")' = Writing("server")
         /\ Flow("client")' = Flow("client")
         /\ Framed(Flow("server")', Length("server"))
         /\ Messages(Flow("server")') \subseteq Messages(Flow("server"))
<1>0. "client" \in Side /\ "server" \in Side /\ Peer("client") = "server" /\ Peer("server") = "client"
  BY DEF Side, Peer
<1>1. /\ pc' = [pc EXCEPT !["client"] = "idle"]
      /\ UNCHANGED <<stream, out, in, need, sent, got>>
      /\ pc["client"] \in {"write", "size", "body"}
  BY DEF Limit, Goto, Blocked, Starved, At
<1>2. pc'["client"] = "idle" /\ pc'["server"] = pc["server"]
  BY <1>0, <1>1 DEF Typed
<1>3. pc["client"] # "write" => in["client"] = <<>>
  BY DEF Limit, At
<1>4. Reading("client")' = Reading("client") /\ Reading("server")' = Reading("server")
  BY <1>1, <1>2, <1>3 DEF Reading
<1>5. \A y \in Side : Arrived(y)' = Arrived(y)
  BY <1>1, <1>4 DEF Arrived, Side
<1>6. Writing("server")' = Writing("server") /\ Writing("client")' = <<>>
  BY <1>1, <1>2 DEF Writing, At
<1>7. Flow("client")' = Flow("client")
  BY <1>0, <1>5, <1>6 DEF Flow
<1>8. Arrived("server") \in Seq(Byte)
  BY <1>0, FlowTypes
<1>9. Flow("server")' = Arrived("server")
  BY <1>0, <1>5, <1>6, <1>8, ConcatEmptySeq DEF Flow
<1>10. Framed(Flow("server"), Length("server"))
  BY <1>0 DEF InStep
<1>11. CASE pc["client"] = "write"
  <2>1. Writing("client") = Bytes(sent, Length("server"))
    BY <1>11 DEF Limit, At, Packed, Length, Writing
  <2>2. Flow("server") = Arrived("server") \o Bytes(sent, Length("server"))
    BY <1>0, <2>1 DEF Flow
  <2>3. sent \in 1..MaxSent /\ Length("server") \in Nat \ {0}
    BY <1>0, <1>11, FramingAssumption, LengthIsPositive DEF Typed, At
  <2>4. Framed(Arrived("server"), Length("server"))
    <3>1. Framed(Arrived("server") \o Bytes(sent, Length("server")), Length("server"))
      BY <1>10, <2>2, Zenon
    <3> QED
      BY <1>8, <2>3, <3>1, FramedLess
  <2>5. Messages(Arrived("server")) \subseteq Messages(Flow("server"))
    BY <1>0, FlowMessages
  <2> QED
    BY <1>1, <1>5, <1>6, <1>7, <1>9, <2>4, <2>5
<1>12. CASE pc["client"] # "write"
  <2>1. Flow("server") = Arrived("server")
    BY <1>0, <1>8, <1>12, ConcatEmptySeq DEF Flow, Writing, At
  <2> QED
    BY <1>1, <1>5, <1>6, <1>7, <1>9, <1>10, <2>1
<1> QED
  BY <1>11, <1>12

-----------------------------------------------------------------------------
(* As long as nothing is torn, both ends stay in step. *)

LEMMA TornStays == Typed /\ [Next]_fvars => torn \subseteq torn'
BY DEF Next, fvars, Call, Limit, ReadEnd, Reply, Transfer, write_all, read_all, Size, Unpack

(* Order is kept by a step that adds no message.                           *)
LEMMA OrderKept ==
  ASSUME InOrder, got' = got, sent' = sent,
         Messages(Flow("client")') \subseteq Messages(Flow("client")),
         Messages(Flow("server")') \subseteq Messages(Flow("server")),
         At("server", "invoke")' => At("server", "invoke") /\ in'["server"] = in["server"]
  PROVE  InOrder'
<1>1. Held' = IF At("server", "invoke")' THEN in'["server"][1][1] ELSE 0
  BY DEF Held
<1>2. At("server", "invoke")' => At("server", "invoke") /\ Held' = Held
  BY <1>1 DEF Held
<1>3. /\ \A a \in Messages(Flow("client")') : got < a /\ a <= sent
      /\ \A r \in Messages(Flow("server")') : got < r /\ r <= sent
      /\ \A a \in Messages(Flow("client")'), r \in Messages(Flow("server")') : a < r
      /\ got <= sent
  BY DEF InOrder
<1>4. At("server", "invoke")' =>
       /\ got < Held /\ Held <= sent
       /\ \A a \in Messages(Flow("client")') : a < Held
       /\ \A r \in Messages(Flow("server")') : Held < r
  BY <1>2 DEF InOrder
<1> QED
  BY <1>2, <1>3, <1>4 DEF InOrder

LEMMA WholeWrite ==
  ASSUME Typed, InStep, Rest, InOrder, NEW x \in Side, write_all(x)
  PROVE  InStep' /\ Rest' /\ InOrder'
<1>1. PICK c \in Seq(Byte), d \in Seq(Byte) :
        /\ out[x] = c \o d /\ c # <<>>
        /\ Len(c) \in 1..Len(out[x]) /\ Len(d) = Len(out[x]) - Len(c)
        /\ \A i \in 1..Len(d) : d[i] = out[x][Len(c) + i]
        /\ out' = [out EXCEPT ![x] = d]
        /\ d # <<>> => pc' = pc /\ in' = in /\ need' = need
        /\ d = <<>> => Goto(x, "size") /\ AwaitMessage(x)
  BY WriteMoves
<1>2. pc[x] = "write" /\ UNCHANGED <<sent, got, torn>>
  BY DEF write_all, At
<1>3. \A y \in Side : Flow(y)' = Flow(y)
  BY FlowOfWrite
<1>4. "client" \in Side /\ "server" \in Side
  BY DEF Side
<1>5. \A y \in Side :
        \/ pc'[y] = pc[y] /\ in'[y] = in[y] /\ need'[y] = need[y]
        \/ y = x /\ d = <<>> /\ pc'[y] = "size" /\ need'[y] = SizeLen
  BY <1>1 DEF Goto, AwaitMessage, Typed
<1>6. InStep'
  <2>1. \A y \in Side : Framed(Flow(y)', Length(y))
    BY <1>3 DEF InStep
  <2>2. pc'["client"] # "spin" /\ pc'["server"] # "exit"
    BY <1>4, <1>5 DEF InStep
  <2>3. \A y \in Side : /\ pc'[y] = "size" => need'[y] = SizeLen
                        /\ pc'[y] = "body" => need'[y] = Length(y)
    BY <1>5 DEF InStep, At
  <2> QED
    BY <2>1, <2>2, <2>3 DEF InStep, At, Length
<1>7. Rest'
  <2>1. SUFFICES ASSUME pc'["client"] = "write"
                 PROVE  /\ Len(out'["client"]) \in 1..Length("server")
                        /\ \A i \in 1..Len(out'["client"]) :
                             out'["client"][i] =
                               <<sent, Length("server") - Len(out'["client"]) + i>>
    BY <1>2 DEF Rest, At, Length
  <2>2. pc["client"] = "write"
    BY <1>2, <1>4, <1>5, <2>1
  <2>3. /\ Len(out["client"]) \in 1..Length("server")
        /\ \A i \in 1..Len(out["client"]) :
             out["client"][i] = <<sent, Length("server") - Len(out["client"]) + i>>
    BY <2>2 DEF Rest, At
  <2>4. CASE x = "client"
    <3>1. out'["client"] = d /\ d # <<>>
      BY <1>1, <1>4, <2>1, <2>4 DEF Typed, Goto
    <3>2. Len(d) \in Nat \ {0} /\ Length("server") \in Nat
      BY <1>4, <3>1, EmptySeq, LengthIsPositive
    <3>3. Len(d) \in 1..Length("server")
      BY <1>1, <2>3, <2>4, <3>2
    <3>4. ASSUME NEW i \in 1..Len(d)
          PROVE  d[i] = <<sent, Length("server") - Len(d) + i>>
      <4>1. Len(c) + i \in 1..Len(out["client"])
        BY <1>1, <2>3, <2>4, <3>2
      <4>2. d[i] = <<sent, Length("server") - Len(out["client"]) + (Len(c) + i)>>
        BY <1>1, <2>3, <2>4, <4>1
      <4>3. Length("server") - Len(out["client"]) + (Len(c) + i) = Length("server") - Len(d) + i
        BY <1>1, <2>3, <2>4, <3>2
      <4> QED
        BY <4>2, <4>3
    <3> QED
      BY <3>1, <3>3, <3>4
  <2>5. CASE x # "client"
    <3>1. out'["client"] = out["client"]
      BY <1>1, <1>4, <2>5 DEF Typed
    <3> QED
      BY <2>3, <3>1
  <2> QED
    BY <2>4, <2>5
<1>8. InOrder'
  <2>1. At("server", "invoke")' => At("server", "invoke") /\ in'["server"] = in["server"]
    BY <1>4, <1>5 DEF At
  <2> QED
    BY <1>2, <1>3, <1>4, <2>1, OrderKept
<1> QED
  BY <1>6, <1>7, <1>8

LEMMA WholeRead ==
  ASSUME Typed, InStep, Rest, InOrder, NEW x \in Side, read_all(x)
  PROVE  InStep' /\ Rest' /\ InOrder'
<1>1. \A y \in Side : Flow(y)' = Flow(y)
  BY FlowOfRead
<1>2. UNCHANGED <<out, need, pc, sent, got, torn>>
  BY DEF read_all
<1>3. "client" \in Side /\ "server" \in Side
  BY DEF Side
<1>4. InStep'
  <2>1. \A y \in Side : Framed(Flow(y)', Length(y))
    BY <1>1 DEF InStep
  <2> QED
    BY <1>2, <2>1 DEF InStep, At, Length
<1>5. Rest'
  BY <1>2 DEF Rest, At, Length
<1>6. InOrder'
  <2>1. At("server", "invoke")' => At("server", "invoke") /\ in'["server"] = in["server"]
    BY <1>2, <1>3 DEF At, read_all, Typed
  <2> QED
    BY <1>1, <1>2, <1>3, <2>1, OrderKept
<1> QED
  BY <1>4, <1>5, <1>6

LEMMA WholeSize ==
  ASSUME Typed, InStep, Rest, InOrder, NEW x \in Side, Size(x)
  PROVE  InStep' /\ Rest' /\ InOrder'
<1>1. /\ pc' = [pc EXCEPT ![x] = "body"]
      /\ need' = [need EXCEPT ![x] = Length(x)]
      /\ \A y \in Side : Flow(y)' = Flow(y)
  BY FlowOfSize
<1>2. pc[x] = "size" /\ UNCHANGED <<stream, out, in, sent, got, torn>>
  BY DEF Size, At
<1>3. "client" \in Side /\ "server" \in Side
  BY DEF Side
<1>4. \A y \in Side :
        \/ y # x /\ pc'[y] = pc[y] /\ need'[y] = need[y]
        \/ y = x /\ pc'[y] = "body" /\ need'[y] = Length(y)
  BY <1>1 DEF Typed
<1>5. InStep'
  <2>1. \A y \in Side : Framed(Flow(y)', Length(y))
    BY <1>1 DEF InStep
  <2>2. pc'["client"] # "spin" /\ pc'["server"] # "exit"
    BY <1>3, <1>4 DEF InStep
  <2>3. \A y \in Side : /\ pc'[y] = "size" => need'[y] = SizeLen
                        /\ pc'[y] = "body" => need'[y] = Length(y)
    BY <1>4 DEF InStep, At
  <2> QED
    BY <2>1, <2>2, <2>3 DEF InStep, At, Length
<1>6. Rest'
  <2>1. pc'["client"] = "write" => pc["client"] = "write"
    BY <1>3, <1>4
  <2> QED
    BY <1>2, <2>1 DEF Rest, At, Length
<1>7. InOrder'
  <2>1. At("server", "invoke")' => At("server", "invoke") /\ in'["server"] = in["server"]
    BY <1>2, <1>3, <1>4 DEF At
  <2> QED
    BY <1>1, <1>2, <1>3, <2>1, OrderKept
<1> QED
  BY <1>5, <1>6, <1>7

LEMMA WholeUnpack ==
  ASSUME Typed, InStep, Rest, InOrder, NEW x \in Side, Unpack(x)
  PROVE  InStep' /\ Rest' /\ InOrder'
<1> DEFINE m == in[x][1][1]
<1>0. "client" \in Side /\ "server" \in Side /\ Peer("client") = "server" /\ Peer("server") = "client"
  BY DEF Side, Peer
<1>1. /\ m \in 1..MaxSent
      /\ pc' = [pc EXCEPT ![x] = IF x = "client" THEN "idle" ELSE "invoke"]
      /\ got' = IF x = "client" THEN m ELSE got
      /\ UNCHANGED <<stream, out, in, need, sent, torn>>
      /\ Framed(Flow(x)', Length(x))
      /\ \A k \in Messages(Flow(x)') : m < k
      /\ Messages(Flow(x)) = {m} \cup Messages(Flow(x)')
      /\ Flow(Peer(x))' = Flow(Peer(x))
  BY FlowOfUnpack
<1>2. /\ x = "client" => pc'["client"] = "idle" /\ pc'["server"] = pc["server"]
      /\ x = "server" => pc'["server"] = "invoke" /\ pc'["client"] = pc["client"]
  BY <1>0, <1>1 DEF Typed
<1>3. x = "client" \/ x = "server"
  BY DEF Side
<1>4. InStep'
  <2>1. \A y \in Side : Framed(Flow(y)', Length(y))
    <3>1. Framed(Flow(Peer(x))', Length(Peer(x)))
      BY <1>1, PeerIsSide DEF InStep
    <3>2. \A y \in Side : y = x \/ y = Peer(x)
      BY DEF Side, Peer
    <3> QED
      BY <1>1, <3>1, <3>2
  <2>2. pc'["client"] # "spin" /\ pc'["server"] # "exit"
    BY <1>2, <1>3 DEF InStep
  <2>3. \A y \in Side : /\ pc'[y] = "size" => need'[y] = SizeLen
                        /\ pc'[y] = "body" => need'[y] = Length(y)
    <3>1. \A y \in Side : pc'[y] \in {"size", "body"} => pc'[y] = pc[y]
      BY <1>2, <1>3 DEF Side
    <3> QED
      BY <1>1, <3>1 DEF InStep, At
  <2> QED
    BY <2>1, <2>2, <2>3 DEF InStep, At, Length
<1>5. Rest'
  <2>1. pc'["client"] = "write" => pc["client"] = "write"
    BY <1>2, <1>3
  <2> QED
    BY <1>1, <2>1 DEF Rest, At, Length
<1>6. m \in Messages(Flow(x)) /\ Messages(Flow(x)') \subseteq Messages(Flow(x))
  BY <1>1
<1> DEFINE A == Messages(Flow("client"))
           R == Messages(Flow("server"))
           A1 == Messages(Flow("client")')
           R1 == Messages(Flow("server")')
<1>7. /\ \A a \in A : got < a /\ a <= sent
      /\ \A r \in R : got < r /\ r <= sent
      /\ \A a \in A, r \in R : a < r
      /\ got <= sent
      /\ pc["server"] = "invoke" =>
           /\ \A a \in A : a < Held
           /\ \A r \in R : Held < r
           /\ got < Held /\ Held <= sent
  BY DEF InOrder, At
<1>8. SUFFICES /\ \A a \in A1 : got' < a /\ a <= sent
               /\ \A r \in R1 : got' < r /\ r <= sent
               /\ \A a \in A1, r \in R1 : a < r
               /\ got' <= sent
               /\ pc'["server"] = "invoke" =>
                    /\ got' < Held' /\ Held' <= sent
                    /\ \A a \in A1 : a < Held'
                    /\ \A r \in R1 : Held' < r
  <2>1. sent' = sent
    BY <1>1
  <2> QED
    BY <1>4, <1>5, <2>1 DEF InOrder, At
<1>9. CASE x = "server"
  <2>1. A1 = A /\ R1 \subseteq R /\ m \in R /\ got' = got /\ \A r \in R1 : m < r
    BY <1>0, <1>1, <1>6, <1>9
  <2>2. Held' = m
    BY <1>1, <1>2, <1>9 DEF Held, At
  <2> HIDE DEF A, A1, R, R1, m
  <2> QED
    BY <1>7, <2>1, <2>2
<1>10. CASE x = "client"
  <2>1. R1 = R /\ A1 \subseteq A /\ m \in A /\ got' = m /\ \A a \in A1 : m < a
    BY <1>0, <1>1, <1>6, <1>10
  <2>2. pc'["server"] = pc["server"] /\ Held' = Held
    BY <1>1, <1>2, <1>10 DEF Held, At
  <2> HIDE DEF A, A1, R, R1, m
  <2> QED
    BY <1>7, <2>1, <2>2
<1> QED
  BY <1>3, <1>9, <1>10

LEMMA WholeCall ==
  ASSUME Typed, InStep, Rest, InOrder, Call
  PROVE  InStep' /\ Rest' /\ InOrder'
<1> DEFINE i == sent + 1
           n == Length("server")
<1>0. /\ "client" \in Side /\ "server" \in Side
      /\ \A y \in Side : y = "client" \/ y = "server"
      /\ n \in Nat \ {0} /\ sent \in Nat
  BY LengthIsPositive, FramingAssumption DEF Side, Typed
<1>1. /\ i \in 1..MaxSent /\ sent' = i
      /\ pc' = [pc EXCEPT !["client"] = "write"]
      /\ out' = [out EXCEPT !["client"] = Bytes(i, n)]
      /\ in'["server"] = in["server"] /\ need'["server"] = need["server"]
      /\ UNCHANGED <<stream, got, torn>>
      /\ Flow("client")' = Flow("client")
      /\ Flow("server")' = Flow("server") \o Bytes(i, n)
  BY FlowOfCall
<1>2. /\ pc'["client"] = "write" /\ pc'["server"] = pc["server"]
      /\ out'["client"] = Bytes(i, n)
  BY <1>0, <1>1 DEF Typed
<1>3. /\ Bytes(i, n) \in Seq(Byte) /\ Len(Bytes(i, n)) = n
      /\ \A j \in 1..n : Bytes(i, n)[j] = <<i, j>>
      /\ Messages(Bytes(i, n)) = {i}
  BY <1>0, <1>1, BytesOfMessage
<1>4. Flow("server") \in Seq(Byte) /\ Framed(Flow("server"), n)
  BY <1>0, FlowTypes DEF InStep
<1>5. \A k \in Messages(Flow("server")) : k < i
  <2>1. \A k \in Messages(Flow("server")) : k <= sent /\ k \in 1..MaxSent
    BY <1>0, FlowNumbers DEF InOrder
  <2> QED
    BY <1>0, <2>1
<1>6. Framed(Flow("server")', n)
  BY <1>0, <1>1, <1>4, <1>5, FramedMore
<1>7. Messages(Flow("server")') = Messages(Flow("server")) \cup {i}
  <2>1. Messages(Flow("server") \o Bytes(i, n)) = Messages(Flow("server")) \cup Messages(Bytes(i, n))
    BY <1>3, <1>4, BytesMessages, Zenon
  <2> QED
    BY <1>1, <1>3, <2>1
<1>8. InStep'
  <2>1. \A y \in Side : Framed(Flow(y)', Length(y))
    BY <1>0, <1>1, <1>6 DEF InStep
  <2>2. pc'["client"] # "spin" /\ pc'["server"] # "exit"
    BY <1>2 DEF InStep
  <2>3. \A y \in Side : /\ pc'[y] = "size" => need'[y] = SizeLen
                        /\ pc'[y] = "body" => need'[y] = Length(y)
    BY <1>0, <1>1, <1>2 DEF InStep, At
  <2> QED
    BY <2>1, <2>2, <2>3 DEF InStep, At, Length
<1>9. Rest'
  <2>1. n \in 1..n /\ \A j \in 1..n : n - n + j = j
    BY <1>0
  <2>2. \A j \in 1..n : Bytes(i, n)[j] = <<i, n - n + j>>
    BY <1>3, <2>1
  <2>3. Rest' <=> (pc'["client"] = "write" =>
                     /\ Len(out'["client"]) \in 1..n
                     /\ \A j \in 1..Len(out'["client"]) :
                          out'["client"][j] = <<sent', n - Len(out'["client"]) + j>>)
    BY DEF Rest, At, Length
  <2> HIDE DEF i, n
  <2> QED
    BY <1>1, <1>2, <1>3, <2>1, <2>2, <2>3
<1>10. InOrder'
  <2> DEFINE A == Messages(Flow("client"))
             R == Messages(Flow("server"))
             A1 == Messages(Flow("client")')
             R1 == Messages(Flow("server")')
  <2>1. /\ \A a \in A : got < a /\ a <= sent
        /\ \A r \in R : got < r /\ r <= sent
        /\ \A a \in A, r \in R : a < r
        /\ got <= sent
        /\ pc["server"] = "invoke" =>
             /\ \A a \in A : a < Held
             /\ \A r \in R : Held < r
             /\ got < Held /\ Held <= sent
    BY DEF InOrder, At
  <2>2. A1 = A /\ R1 = R \cup {i}
    BY <1>1, <1>7
  <2>3. (\A a \in A : a \in Nat) /\ (\A r \in R : r \in Nat) /\ got \in Nat
    <3>1. got \in Nat
      BY FramingAssumption DEF Typed
    <3>2. A \subseteq Nat
      BY <1>0, FlowNumbers
    <3>3. R \subseteq Nat
      BY <1>0, FlowNumbers
    <3> QED
      BY <3>1, <3>2, <3>3
  <2>4. pc["server"] = "invoke" => Held \in Nat
    <3>1. SUFFICES ASSUME pc["server"] = "invoke" PROVE Held \in Nat
      OBVIOUS
    <3>2. in["server"] # <<>> /\ Held = in["server"][1][1]
      BY <3>1 DEF Typed, At, Held
    <3>3. in["server"][1] \in Byte
      BY <1>0, <3>2, EmptySeq, ElementOfSeq DEF Typed
    <3> QED
      BY <3>2, <3>3, FramingAssumption DEF Byte
  <2>5. Held' = Held
    BY <1>1, <1>2 DEF Held, At
  <2>6. SUFFICES /\ \A a \in A1 : got < a /\ a <= i
                 /\ \A r \in R1 : got < r /\ r <= i
                 /\ \A a \in A1, r \in R1 : a < r
                 /\ got <= i
                 /\ pc["server"] = "invoke" =>
                      /\ got < Held /\ Held <= i
                      /\ \A a \in A1 : a < Held
                      /\ \A r \in R1 : Held < r
    BY <1>1, <1>2, <2>5 DEF InOrder, At
  <2> HIDE DEF A, R, A1, R1
  <2> QED
    BY <1>0, <2>1, <2>2, <2>3, <2>4
<1> QED
  BY <1>8, <1>9, <1>10

LEMMA WholeReply ==
  ASSUME Typed, InStep, Rest, InOrder, Reply
  PROVE  InStep' /\ Rest' /\ InOrder'
<1> DEFINE n == Length("client")
<1>0. /\ "client" \in Side /\ "server" \in Side
      /\ \A y \in Side : y = "client" \/ y = "server"
      /\ n \in Nat \ {0}
  BY LengthIsPositive DEF Side
<1>1. /\ Held \in 1..MaxSent
      /\ pc["server"] = "invoke" /\ pc' = [pc EXCEPT !["server"] = "write"]
      /\ out'["client"] = out["client"]
      /\ UNCHANGED <<stream, need, sent, got, torn>>
      /\ Flow("server")' = Flow("server")
      /\ Flow("client")' = Flow("client") \o Bytes(Held, n)
  BY FlowOfReply
<1>2. pc'["server"] = "write" /\ pc'["client"] = pc["client"]
  BY <1>0, <1>1 DEF Typed
<1>3. Bytes(Held, n) \in Seq(Byte) /\ Messages(Bytes(Held, n)) = {Held}
  BY <1>0, <1>1, BytesOfMessage
<1>4. Flow("client") \in Seq(Byte) /\ Framed(Flow("client"), n)
  BY <1>0, FlowTypes DEF InStep
<1>5. \A k \in Messages(Flow("client")) : k < Held
  BY <1>1 DEF InOrder, At
<1>6. Framed(Flow("client")', n)
  BY <1>0, <1>1, <1>4, <1>5, FramedMore
<1>7. Messages(Flow("client")') = Messages(Flow("client")) \cup {Held}
  <2>1. Messages(Flow("client") \o Bytes(Held, n)) = Messages(Flow("client")) \cup Messages(Bytes(Held, n))
    BY <1>3, <1>4, BytesMessages, Zenon
  <2> QED
    BY <1>1, <1>3, <2>1
<1>8. InStep'
  <2>1. \A y \in Side : Framed(Flow(y)', Length(y))
    BY <1>0, <1>1, <1>6 DEF InStep
  <2>2. pc'["client"] # "spin" /\ pc'["server"] # "exit"
    BY <1>2 DEF InStep
  <2>3. \A y \in Side : /\ pc'[y] = "size" => need'[y] = SizeLen
                        /\ pc'[y] = "body" => need'[y] = Length(y)
    BY <1>0, <1>1, <1>2 DEF InStep, At
  <2> QED
    BY <2>1, <2>2, <2>3 DEF InStep, At, Length
<1>9. Rest'
  BY <1>1, <1>2 DEF Rest, At, Length
<1>10. InOrder'
  <2> DEFINE A == Messages(Flow("client"))
             R == Messages(Flow("server"))
             A1 == Messages(Flow("client")')
             R1 == Messages(Flow("server")')
  <2>1. /\ \A a \in A : got < a /\ a <= sent
        /\ \A r \in R : got < r /\ r <= sent
        /\ \A a \in A, r \in R : a < r
        /\ got <= sent
        /\ \A a \in A : a < Held
        /\ \A r \in R : Held < r
        /\ got < Held /\ Held <= sent
    BY <1>1 DEF InOrder, At
  <2>2. R1 = R /\ A1 = A \cup {Held}
    BY <1>1, <1>7
  <2>3. SUFFICES /\ \A a \in A1 : got < a /\ a <= sent
                 /\ \A r \in R1 : got < r /\ r <= sent
                 /\ \A a \in A1, r \in R1 : a < r
                 /\ got <= sent
    BY <1>1, <1>2 DEF InOrder, At
  <2> HIDE DEF A, R, A1, R1
  <2> QED
    BY <2>1, <2>2
<1> QED
  BY <1>8, <1>9, <1>10

LEMMA WholeLimit ==
  ASSUME Typed, InStep, Rest, InOrder, Limit, torn' = {}
  PROVE  InStep' /\ Rest' /\ InOrder'
<1>0. /\ "client" \in Side /\ "server" \in Side
      /\ \A y \in Side : y = "client" \/ y = "server"
  BY DEF Side
<1>1. /\ pc' = [pc EXCEPT !["client"] = "idle"]
      /\ UNCHANGED <<stream, out, in, need, sent, got>>
      /\ Flow("client")' = Flow("client")
      /\ Framed(Flow("server")', Length("server"))
      /\ Messages(Flow("server")') \subseteq Messages(Flow("server"))
  BY FlowOfLimit
<1>2. pc'["client"] = "idle" /\ pc'["server"] = pc["server"]
  BY <1>0, <1>1 DEF Typed
<1>3. InStep'
  <2>1. \A y \in Side : Framed(Flow(y)', Length(y))
    BY <1>0, <1>1 DEF InStep
  <2>2. pc'["client"] # "spin" /\ pc'["server"] # "exit"
    BY <1>2 DEF InStep
  <2>3. \A y \in Side : /\ pc'[y] = "size" => need'[y] = SizeLen
                        /\ pc'[y] = "body" => need'[y] = Length(y)
    BY <1>0, <1>1, <1>2 DEF InStep, At
  <2> QED
    BY <2>1, <2>2, <2>3 DEF InStep, At, Length
<1>4. Rest'
  BY <1>2 DEF Rest, At
<1>5. InOrder'
  <2>1. At("server", "invoke")' => At("server", "invoke") /\ in'["server"] = in["server"]
    BY <1>1, <1>2 DEF At
  <2> QED
    BY <1>1, <2>1, OrderKept
<1> QED
  BY <1>3, <1>4, <1>5

LEMMA WholeInit == Init => InStep /\ Rest /\ InOrder
<1> SUFFICES ASSUME Init PROVE InStep /\ Rest /\ InOrder
  OBVIOUS
<1>1. /\ pc["client"] = "idle" /\ pc["server"] = "size"
      /\ \A y \in Side : stream[y] = <<>> /\ in[y] = <<>> /\ need[y] = SizeLen
      /\ sent = 0 /\ got = 0
  BY DEF Init, Side
<1>2. \A y \in Side : Flow(y) = <<>>
  <2>1. \A y \in Side : Reading(y) = <<>> /\ Writing(Peer(y)) = <<>>
    BY <1>1 DEF Reading, Writing, At, Side, Peer
  <2>2. <<>> \o <<>> = <<>>
    BY ConcatEmptySeq
  <2> QED
    BY <1>1, <2>1, <2>2 DEF Flow, Arrived
<1>3. InStep
  BY <1>1, <1>2, NothingIsFramed DEF InStep, At, Side
<1>4. Rest
  BY <1>1 DEF Rest, At
<1>5. InOrder
  BY <1>1, <1>2, MessagesOfNothing DEF InOrder, At, Side
<1> QED
  BY <1>3, <1>4, <1>5

LEMMA WholeNext == IInv /\ [Next]_fvars /\ torn' = {} => InStep' /\ Rest' /\ InOrder'
<1> SUFFICES ASSUME IInv, [Next]_fvars, torn' = {}
             PROVE  InStep' /\ Rest' /\ InOrder'
  OBVIOUS
<1>0. Typed /\ InStep /\ Rest /\ InOrder
  BY TornStays DEF IInv, Whole
<1>1. CASE Call
  BY <1>0, <1>1, WholeCall
<1>2. CASE Limit
  BY <1>0, <1>2, WholeLimit
<1>3. CASE ReadEnd
  BY <1>0, <1>3 DEF ReadEnd, InStep, At
<1>4. CASE Reply
  BY <1>0, <1>4, WholeReply
<1>5. ASSUME NEW x \in Side, Transfer(x)
      PROVE  InStep' /\ Rest' /\ InOrder'
  BY <1>0, <1>5, WholeWrite, WholeRead, WholeSize, WholeUnpack DEF Transfer
<1>6. CASE UNCHANGED fvars
  <2>1. \A y \in Side : Flow(y)' = Flow(y)
    BY <1>6 DEF fvars, Flow, Arrived, Reading, Writing, At
  <2>2. InStep'
    BY <1>0, <1>6, <2>1 DEF fvars, InStep, At, Length
  <2>3. Rest'
    BY <1>0, <1>6 DEF fvars, Rest, At, Length
  <2>4. InOrder'
    <3>1. /\ "client" \in Side /\ "server" \in Side
          /\ At("server", "invoke")' => At("server", "invoke") /\ in'["server"] = in["server"]
      BY <1>6 DEF fvars, At, Side
    <3> QED
      BY <1>0, <1>6, <2>1, <3>1, OrderKept DEF fvars
  <2> QED
    BY <2>2, <2>3, <2>4
<1> QED
  BY <1>1, <1>2, <1>3, <1>4, <1>5, <1>6 DEF Next

LEMMA IInvNext == IInv /\ [Next]_fvars => IInv'
BY TypedNext, WholeNext DEF IInv, Whole

-----------------------------------------------------------------------------
(* Every step is one of module Wire, or none of its business. *)

LEMMA WireInit == Init => W!Init
<1> SUFFICES ASSUME Init PROVE W!Init
  OBVIOUS
<1>1. /\ pc["client"] = "idle" /\ pc["server"] = "size"
      /\ stream["client"] = <<>> /\ stream["server"] = <<>> /\ in["server"] = <<>>
      /\ got = 0 /\ torn = {}
  BY DEF Init, Side
<1>2. /\ Reading("client") = <<>> /\ Reading("server") = <<>> /\ Writing("server") = <<>>
  BY <1>1 DEF Reading, Writing, At
<1>3. <<>> \o <<>> = <<>>
  BY ConcatEmptySeq
<1>4. /\ Messages(Reading("server") \o stream["server"]) = {}
      /\ Messages(Reading("client") \o stream["client"] \o Writing("server")) = {}
  BY <1>1, <1>2, <1>3, MessagesOfNothing
<1> QED
  BY <1>1, <1>4 DEF W!Init, At

(* What module Wire sees of this module.                                   *)
Requests == Messages(Arrived("server"))
Answers == Messages(Flow("client"))

LEMMA Mapped ==
  /\ Messages(Reading("server") \o stream["server"]) = Requests
  /\ Messages(Reading("client") \o stream["client"] \o Writing("server")) = Answers
  /\ (IF At("server", "invoke") THEN in["server"][1][1] ELSE 0) = Held
BY DEF Requests, Answers, Arrived, Flow, Peer, Held

LEMMA MappedNext ==
  /\ Messages(Reading("server") \o stream["server"])' = Requests'
  /\ Messages(Reading("client") \o stream["client"] \o Writing("server"))' = Answers'
  /\ (IF At("server", "invoke") THEN in["server"][1][1] ELSE 0)' = Held'
BY DEF Requests, Answers, Arrived, Flow, Peer, Held

LEMMA WireSend ==
  ASSUME NEW i, Requests' = Requests \cup {i},
         \A j \in Requests \cup Answers \cup {Held, got} : j < i,
         Answers' = Answers, Held' = Held, got' = got
  PROVE  W!Send
BY Mapped, MappedNext DEF W!Send

LEMMA WireTake ==
  ASSUME Held = 0, NEW i \in Requests, \A j \in Requests : i <= j,
         Held' = i, Requests' = Requests \ {i},
         Answers' = Answers, got' = got
  PROVE  W!Take
BY Mapped, MappedNext DEF W!Take, W!Oldest

LEMMA WireAnswer ==
  ASSUME Held # 0, Answers' = Answers \cup {Held}, Held' = 0,
         Requests' = Requests, got' = got
  PROVE  W!Answer
BY Mapped, MappedNext DEF W!Answer

LEMMA WireDeliver ==
  ASSUME NEW i \in Answers, \A j \in Answers : i <= j,
         got' = i, Answers' = Answers \ {i},
         Requests' = Requests, Held' = Held
  PROVE  W!Deliver
BY Mapped, MappedNext DEF W!Deliver, W!Oldest

LEMMA WireStutter ==
  ASSUME Requests' = Requests, Answers' = Answers, Held' = Held, got' = got, torn' = torn
  PROVE  UNCHANGED W!vars
BY Mapped, MappedNext DEF W!vars

LEMMA ArrivedInFlow == Typed => Requests \subseteq Messages(Flow("server"))
<1>1. "server" \in Side
  BY DEF Side
<1> QED
  BY <1>1, FlowMessages DEF Requests

(* The first bytes of a request send it, the other bytes do no more.       *)
LEMMA WireWrite ==
  ASSUME Typed, InStep, Rest, InOrder, NEW x \in Side, write_all(x)
  PROVE  W!Send \/ UNCHANGED W!vars
<1> DEFINE n == Length("server")
           o == out["client"]
<1>0. /\ "client" \in Side /\ "server" \in Side /\ Peer("client") = "server" /\ Peer("server") = "client"
      /\ n \in Nat \ {0}
  BY LengthIsPositive DEF Side, Peer
<1>1. PICK c \in Seq(Byte), d \in Seq(Byte) :
        /\ c # <<>>
        /\ Writing(x) = c \o d /\ Writing(x)' = d
        /\ Arrived(Peer(x))' = Arrived(Peer(x)) \o c
  BY FlowOfWrite
<1>2. /\ Arrived(x)' = Arrived(x)
      /\ \A y \in Side : Flow(y)' = Flow(y)
      /\ UNCHANGED <<sent, got, torn>> /\ pc[x] = "write"
  BY FlowOfWrite DEF write_all, At
<1>3. Answers' = Answers
  BY <1>0, <1>2 DEF Answers
<1>4. Held' = Held
  <2>1. \/ pc' = pc /\ in' = in
        \/ pc' = [pc EXCEPT ![x] = "size"] /\ in' = [in EXCEPT ![x] = <<>>]
    BY DEF write_all, Goto, AwaitMessage
  <2>2. pc["server"] = "invoke" => x # "server"
    BY <1>2
  <2>3. pc'["server"] = "invoke" <=> pc["server"] = "invoke"
    BY <1>0, <1>2, <2>1 DEF Typed
  <2>4. pc["server"] = "invoke" => in'["server"] = in["server"]
    BY <1>0, <2>1, <2>2 DEF Typed
  <2> QED
    BY <2>3, <2>4 DEF Held, At
<1>5. CASE x = "server"
  <2>1. Requests' = Requests
    BY <1>2, <1>5 DEF Requests
  <2> QED
    BY <1>2, <1>3, <1>4, <2>1, WireStutter
<1>6. CASE x = "client"
  <2>1. o = c \o d /\ Writing("client") = o
    BY <1>1, <1>2, <1>6 DEF Writing, At
  <2>2. /\ Len(o) \in 1..n
        /\ \A i \in 1..Len(o) : o[i] = <<sent, n - Len(o) + i>>
    BY <1>2, <1>6 DEF Rest, At
  <2>3. o \in Seq(Byte) /\ Arrived("server") \in Seq(Byte)
    BY <1>0, FlowTypes DEF Typed
  <2>4. Flow("server") = Arrived("server") \o o
    BY <1>0, <2>1 DEF Flow
  <2>5. Framed(Arrived("server") \o o, n)
    BY <1>0, <2>4 DEF InStep
  <2>6. sent \in 1..MaxSent
    BY <1>2, <1>6, FramingAssumption DEF Typed, At
  <2> HIDE DEF o
  <2>7. Messages(o) = {sent}
    <3>1. DOMAIN o = 1..Len(o) /\ 1 \in 1..Len(o)
      BY <2>2, <2>3, LenProperties
    <3>2. \A i \in 1..Len(o) : o[i][1] = sent
      BY <2>2
    <3> QED
      BY <3>1, <3>2 DEF Messages
  <2>8. Messages(c) = {sent}
    <3>1. Messages(o) = Messages(c) \cup Messages(d)
      BY <2>1, BytesMessages, Zenon
    <3>2. DOMAIN c = 1..Len(c) /\ 1 \in 1..Len(c)
      BY <1>1, LenProperties, EmptySeq
    <3>3. c[1][1] \in Messages(c)
      BY <3>2 DEF Messages
    <3> QED
      BY <2>7, <3>1, <3>3
  <2>9. Requests' = Requests \cup {sent}
    <3>1. Messages(Arrived("server") \o c) = Messages(Arrived("server")) \cup Messages(c)
      BY <2>3, BytesMessages, Zenon
    <3>2. Arrived("server")' = Arrived("server") \o c
      BY <1>0, <1>1, <1>6
    <3> QED
      BY <2>8, <3>1, <3>2 DEF Requests
  <2>10. CASE Len(o) = n
    <3>1. o = Bytes(sent, n)
      <4>1. \A i \in 1..n : o[i] = <<sent, i>>
        <5>1. \A i \in 1..n : n - n + i = i
          BY <1>0
        <5> QED
          BY <2>2, <2>10, <5>1
      <4>2. Bytes(sent, n) \in Seq(Byte) /\ Len(Bytes(sent, n)) = n
            /\ \A i \in 1..n : Bytes(sent, n)[i] = <<sent, i>>
        BY <1>0, <2>6, BytesOfMessage
      <4>3. Len(o) = Len(Bytes(sent, n)) /\ \A i \in 1..Len(o) : o[i] = Bytes(sent, n)[i]
        BY <2>10, <4>1, <4>2
      <4> HIDE DEF n
      <4> QED
        BY <2>3, <4>2, <4>3, SeqEqual
    <3>2. sent \notin Requests
      BY <1>0, <2>3, <2>5, <2>6, <3>1, FramedLess DEF Requests
    <3>3. sent \in Messages(Flow("server"))
      <4>1. Messages(Flow("server")) = Messages(Arrived("server")) \cup Messages(o)
        BY <1>0, <2>1, FlowMessages
      <4> QED
        BY <2>7, <4>1
    <3>4. \A j \in Requests : j < sent
      <4>1. \A j \in Requests : j <= sent /\ j \in 1..MaxSent
        BY <1>0, ArrivedInFlow, FlowNumbers DEF InOrder
      <4> QED
        BY <2>6, <3>2, <4>1, FramingAssumption
    <3>5. \A j \in Answers : j < sent
      BY <3>3 DEF InOrder, Answers
    <3>6. got < sent
      BY <3>3 DEF InOrder
    <3>7. Held < sent
      BY <2>6, <3>3 DEF InOrder, Held
    <3> QED
      BY <1>2, <1>3, <1>4, <2>9, <3>4, <3>5, <3>6, <3>7, WireSend
  <2>11. CASE Len(o) # n
    <3>1. o # <<>> /\ o[1] = <<sent, n - Len(o) + 1>>
      BY <2>2
    <3>2. o[1][1] = sent /\ o[1][2] # 1
      <4>1. n - Len(o) + 1 # 1
        BY <1>0, <2>2, <2>11
      <4> QED
        BY <3>1, <4>1
    <3>3. sent \in Requests
      BY <1>0, <2>3, <2>5, <3>1, <3>2, BegunBefore DEF Requests
    <3>4. Requests' = Requests
      BY <2>9, <3>3
    <3> QED
      BY <1>2, <1>3, <1>4, <3>4, WireStutter
  <2> QED
    BY <2>10, <2>11
<1> QED
  BY <1>5, <1>6 DEF Side

(* Unpacking takes the oldest request, or delivers the oldest answer.      *)
LEMMA WireUnpack ==
  ASSUME Typed, InStep, Rest, InOrder, NEW x \in Side, Unpack(x)
  PROVE  W!Take \/ W!Deliver
<1> DEFINE m == in[x][1][1]
<1>0. "client" \in Side /\ "server" \in Side /\ Peer("client") = "server" /\ Peer("server") = "client"
  BY DEF Side, Peer
<1>1. /\ m \in 1..MaxSent
      /\ pc' = [pc EXCEPT ![x] = IF x = "client" THEN "idle" ELSE "invoke"]
      /\ got' = IF x = "client" THEN m ELSE got
      /\ UNCHANGED <<stream, out, in, need, sent, torn>>
      /\ \A k \in Messages(Flow(x)') : m < k
      /\ Messages(Flow(x)) = {m} \cup Messages(Flow(x)')
      /\ Messages(Arrived(x)) = {m} \cup Messages(Arrived(x)')
      /\ Flow(Peer(x))' = Flow(Peer(x)) /\ Arrived(Peer(x))' = Arrived(Peer(x))
      /\ \A y \in Side : Writing(y)' = Writing(y)
  BY FlowOfUnpack
<1>2. m \in Nat /\ \A k \in Messages(Flow(x)) : k \in Nat
  BY <1>1, FlowNumbers, FramingAssumption
<1>3. Messages(Arrived(x)') \subseteq Messages(Flow(x)')
  <2>1. Flow(x)' = Arrived(x)' \o Writing(Peer(x))'
    BY DEF Flow
  <2>2. Arrived(x)' \in Seq(Byte)
    BY FlowOfUnpack
  <2>3. Writing(Peer(x))' \in Seq(Byte)
    BY <1>1, PeerIsSide, FlowTypes
  <2>4. Messages(Arrived(x)' \o Writing(Peer(x))') =
          Messages(Arrived(x)') \cup Messages(Writing(Peer(x))')
    BY <2>2, <2>3, BytesMessages, Zenon
  <2> QED
    BY <2>1, <2>4
<1> HIDE DEF m
<1>4. CASE x = "server"
  <2>1. Requests = {m} \cup Requests' /\ \A k \in Requests' : m < k
    BY <1>1, <1>3, <1>4 DEF Requests
  <2>2. Answers' = Answers
    BY <1>0, <1>1, <1>4 DEF Answers
  <2>3. Held = 0 /\ Held' = m
    <3>1. pc["server"] = "body"
      BY <1>4 DEF Unpack, At
    <3>2. pc'["server"] = "invoke" /\ in' = in
      BY <1>0, <1>1, <1>4 DEF Typed
    <3> QED
      BY <1>4, <3>1, <3>2 DEF Held, At, m
  <2>4. m \in Requests /\ \A j \in Requests : m <= j
    BY <1>2, <2>1
  <2>5. Requests' = Requests \ {m}
    BY <1>2, <2>1
  <2>6. got' = got
    BY <1>1, <1>4
  <2>7. W!Take
    BY <2>2, <2>3, <2>4, <2>5, <2>6, WireTake
  <2> QED
    BY <2>7
<1>5. CASE x = "client"
  <2>1. Answers = {m} \cup Answers' /\ \A k \in Answers' : m < k
    BY <1>1, <1>5 DEF Answers
  <2>2. Requests' = Requests
    BY <1>0, <1>1, <1>5 DEF Requests
  <2>3. Held' = Held
    BY <1>0, <1>1, <1>5 DEF Held, At, Typed
  <2>4. m \in Answers /\ \A j \in Answers : m <= j
    BY <1>2, <2>1
  <2>5. Answers' = Answers \ {m}
    BY <1>2, <2>1
  <2>6. got' = m
    BY <1>1, <1>5
  <2>7. W!Deliver
    BY <2>2, <2>3, <2>4, <2>5, <2>6, WireDeliver
  <2> QED
    BY <2>7
<1> QED
  BY <1>4, <1>5 DEF Side

LEMMA WireReply ==
  ASSUME Typed, InStep, Rest, InOrder, Reply
  PROVE  W!Answer
<1>0. "client" \in Side /\ "server" \in Side /\ Length("client") \in Nat \ {0}
  BY LengthIsPositive DEF Side
<1>1. /\ Held \in 1..MaxSent
      /\ pc["server"] = "invoke" /\ pc' = [pc EXCEPT !["server"] = "write"]
      /\ UNCHANGED <<stream, need, sent, got, torn>>
      /\ \A y \in Side : Arrived(y)' = Arrived(y)
      /\ Flow("client")' = Flow("client") \o Bytes(Held, Length("client"))
  BY FlowOfReply
<1>2. Bytes(Held, Length("client")) \in Seq(Byte) /\ Messages(Bytes(Held, Length("client"))) = {Held}
  BY <1>0, <1>1, BytesOfMessage
<1>3. Flow("client") \in Seq(Byte)
  BY <1>0, FlowTypes
<1>4. Answers' = Answers \cup {Held}
  <2>1. Messages(Flow("client") \o Bytes(Held, Length("client"))) =
          Messages(Flow("client")) \cup Messages(Bytes(Held, Length("client")))
    BY <1>2, <1>3, BytesMessages, Zenon
  <2> QED
    BY <1>1, <1>2, <2>1 DEF Answers
<1>5. Requests' = Requests
  BY <1>0, <1>1 DEF Requests
<1>6. Held # 0 /\ Held' = 0 /\ got' = got
  <2>1. pc'["server"] = "write"
    BY <1>0, <1>1 DEF Typed
  <2>2. Held' = 0
    BY <2>1 DEF Held, At
  <2> QED
    BY <1>1, <2>2
<1> QED
  BY <1>4, <1>5, <1>6, WireAnswer

LEMMA WireNext == IInv /\ IInv' /\ [Next]_fvars => [W!Next]_(W!vars)
<1> SUFFICES ASSUME IInv, [Next]_fvars
             PROVE  W!Next \/ UNCHANGED W!vars
  OBVIOUS
<1>1. CASE torn' # {}
  BY <1>1 DEF W!Next
<1>2. CASE torn' = {}
  <2>1. Typed /\ InStep /\ Rest /\ InOrder /\ torn = {}
    BY <1>2, TornStays DEF IInv, Whole
  <2>2. (W!Send \/ W!Take \/ W!Answer \/ W!Deliver) => W!Next
    BY <1>2, <2>1 DEF W!Next
  <2>3. CASE Call
    <3>1. /\ pc' = [pc EXCEPT !["client"] = "write"]
          /\ in'["server"] = in["server"] /\ got' = got /\ torn' = torn
          /\ \A y \in Side : Arrived(y)' = Arrived(y)
          /\ Flow("client")' = Flow("client")
      BY <2>1, <2>3, FlowOfCall
    <3>2. Requests' = Requests /\ Answers' = Answers /\ Held' = Held
      BY <2>1, <3>1 DEF Requests, Answers, Held, At, Side, Typed
    <3> QED
      BY <3>1, <3>2, WireStutter
  <2>4. CASE Limit
    <3>1. /\ pc' = [pc EXCEPT !["client"] = "idle"]
          /\ in' = in /\ got' = got
          /\ \A y \in Side : Arrived(y)' = Arrived(y)
          /\ Flow("client")' = Flow("client")
      BY <1>2, <2>1, <2>4, FlowOfLimit
    <3>2. Requests' = Requests /\ Answers' = Answers /\ Held' = Held
      BY <2>1, <3>1 DEF Requests, Answers, Held, At, Side, Typed
    <3> QED
      BY <1>2, <2>1, <3>1, <3>2, WireStutter
  <2>5. CASE ReadEnd
    BY <2>1, <2>5 DEF ReadEnd, InStep, At
  <2>6. CASE Reply
    BY <2>1, <2>2, <2>6, WireReply
  <2>7. ASSUME NEW x \in Side, write_all(x)
        PROVE  W!Next \/ UNCHANGED W!vars
    BY <2>1, <2>2, <2>7, WireWrite
  <2>8. ASSUME NEW x \in Side, read_all(x)
        PROVE  W!Next \/ UNCHANGED W!vars
    <3>1. \A y \in Side : Arrived(y)' = Arrived(y) /\ Flow(y)' = Flow(y)
      BY <2>1, <2>8, FlowOfRead
    <3>2. UNCHANGED <<got, torn>> /\ Held' = Held
      BY <2>1, <2>8 DEF read_all, Held, At, Side, Typed
    <3>3. Requests' = Requests /\ Answers' = Answers
      BY <3>1 DEF Requests, Answers, Side
    <3> QED
      BY <3>2, <3>3, WireStutter
  <2>9. ASSUME NEW x \in Side, Size(x)
        PROVE  W!Next \/ UNCHANGED W!vars
    <3>1. /\ pc' = [pc EXCEPT ![x] = "body"]
          /\ \A y \in Side : Arrived(y)' = Arrived(y) /\ Flow(y)' = Flow(y)
      BY <2>1, <2>9, FlowOfSize
    <3>2. UNCHANGED <<in, got, torn>> /\ pc[x] = "size"
      BY <2>9 DEF Size, At
    <3>3. Held' = Held
      BY <2>1, <3>1, <3>2 DEF Held, At, Side, Typed
    <3>4. Requests' = Requests /\ Answers' = Answers
      BY <3>1 DEF Requests, Answers, Side
    <3> QED
      BY <3>2, <3>3, <3>4, WireStutter
  <2>10. ASSUME NEW x \in Side, Unpack(x)
         PROVE  W!Next \/ UNCHANGED W!vars
    BY <2>1, <2>2, <2>10, WireUnpack
  <2>11. CASE UNCHANGED fvars
    <3>1. Requests' = Requests /\ Answers' = Answers /\ Held' = Held
      BY <2>11 DEF fvars, Requests, Answers, Held, At, Flow, Arrived, Reading, Writing
    <3> QED
      BY <2>11, <3>1, WireStutter DEF fvars
  <2> QED
    BY <2>3, <2>4, <2>5, <2>6, <2>7, <2>8, <2>9, <2>10, <2>11 DEF Next, Transfer
<1> QED
  BY <1>1, <1>2

(* The bytes of a connection implement whole messages: however the writes  *)
(* of write_all and the reads of read_all split them, and whenever the     *)
(* client's time limits strike, as long as none strikes inside a message,  *)
(* network_receive and network_send_receive take each message once, whole  *)
(* and in the order in which it was sent, for every length of messages and *)
(* of socket buffers.                                                      *)
THEOREM FramingImplementsWire == Spec => ImplementsWire
<1>1. Init => IInv
  BY TypedInit, WholeInit DEF IInv, Whole
<1>2. IInv /\ [Next]_fvars => IInv'
  BY IInvNext
<1>3. Init => W!Init
  BY WireInit
<1>4. IInv /\ IInv' /\ [Next]_fvars => [W!Next]_(W!vars)
  BY WireNext
<1> QED
  BY <1>1, <1>2, <1>3, <1>4, PTL DEF Spec, ImplementsWire, W!Spec

================================================================================
