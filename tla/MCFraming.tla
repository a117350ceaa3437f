------------------------------- MODULE MCFraming ------------------------------
(***************************************************************************)
(* Four calls; a size of two bytes, a request of two more and an answer of *)
(* three, in sockets that hold three: no message fits, so that writes are  *)
(* split and block on both sides.                                          *)
(***************************************************************************)
EXTENDS Framing

MCBodyLen == [x \in {"client", "server"} |-> IF x = "client" THEN 3 ELSE 2]
MCGarbage == {0, 1, 4}
===============================================================================
