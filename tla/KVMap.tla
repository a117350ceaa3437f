-------------------------------- MODULE KVMap --------------------------------
(***************************************************************************)
(* What the interface of table.h promises one caller: a map from keys to   *)
(* values.  `out' is the last call with its key and its return value.      *)
(* The promise of table_remove is weakened to what list.c keeps: removing  *)
(* an absent key returns 1 or takes the process down.                      *)
(***************************************************************************)
EXTENDS Integers

CONSTANTS Key, Value, NULL, SEGV

VARIABLES map, out

Init ==
  /\ map = [k \in Key |-> NULL]
  /\ out = <<"create", NULL, 0>>

Running == out[3] # SEGV

Put(k, v) ==
  /\ Running
  /\ map' = [map EXCEPT ![k] = v]
  /\ out' = <<"put", k, 0>>

Get(k) ==
  /\ Running
  /\ out' = <<"get", k, map[k]>>
  /\ UNCHANGED map

RemovePresent(k) ==
  /\ Running
  /\ map[k] # NULL
  /\ map' = [map EXCEPT ![k] = NULL]
  /\ out' = <<"remove", k, 0>>

RemoveAbsent(k) ==
  /\ Running
  /\ map[k] = NULL
  /\ \E ret \in {1, SEGV} : out' = <<"remove", k, ret>>
  /\ UNCHANGED map

Next ==
  \E k \in Key :
    \/ \E v \in Value : Put(k, v)
    \/ Get(k)
    \/ RemovePresent(k)
    \/ RemoveAbsent(k)

Spec == Init /\ [][Next]_<<map, out>>
=============================================================================
