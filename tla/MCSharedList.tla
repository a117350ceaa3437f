----------------------------- MODULE MCSharedList -----------------------------
(***************************************************************************)
(* Two threads call functions of one list of up to three nodes: a chain    *)
(* long enough for a node with a neighbour on each side, so that every     *)
(* pair of calls meets at the head, in the middle and at the end.  A value *)
(* tells which thread stored it, or that it was there before.              *)
(***************************************************************************)
EXTENDS SharedList

CONSTANTS t1, t2

MCKey    == 1..3
MCThread == {t1, t2}
MCValue  == {t1, t2, OLD}
MCHash   == [k \in MCKey |-> 0]
=============================================================================
