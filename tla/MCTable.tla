------------------------------- MODULE MCTable -------------------------------
(***************************************************************************)
(* Four keys in two slots: keys 1, 3 and 4 share slot 1 and key 2 is alone *)
(* in slot 0, so that chains of 0 to 3 nodes occur, and insertions and     *)
(* removals at the head, in the middle and at the end of a chain.  Five    *)
(* calls that allocate fill every slot and leave one for an overwrite.     *)
(***************************************************************************)
EXTENDS Ownership

MCKey   == 1..4
MCValue == 1..MaxCalls
MCHash  == [k \in MCKey |-> IF k = 2 THEN 0 ELSE 1]
=============================================================================
