-------------------------------- MODULE Table --------------------------------
(***************************************************************************)
(* One caller of the hash table: the sequence of table_put, table_get and  *)
(* table_remove calls a single thread can make.  The threads of a server,  *)
(* which share a table without a lock, are the subject of KVServer.        *)
(***************************************************************************)
EXTENDS TableOps

VARIABLES
  tbl,   \* the slots
  out    \* the last call: function, key, return value

vars == <<tbl, out>>

Init ==
  /\ tbl = table_create
  /\ out = <<"create", NULL, 0>>

Running == out[3] # SEGV

CallPut(k, v) ==
  LET r == table_put(tbl, k, v)
  IN  /\ Running
      /\ tbl' = r.tbl
      /\ out' = <<"put", k, r.ret>>

CallGet(k) ==
  /\ Running
  /\ out' = <<"get", k, table_get(tbl, k)>>
  /\ UNCHANGED tbl

CallRemove(k) ==
  LET r == table_remove(tbl, k)
  IN  /\ Running
      /\ tbl' = r.tbl
      /\ out' = <<"remove", k, r.ret>>

Next ==
  \E k \in Key :
    \/ \E v \in Value : CallPut(k, v)
    \/ CallGet(k)
    \/ CallRemove(k)

Spec == Init /\ [][Next]_vars

-----------------------------------------------------------------------------
(* Invariants. *)

(* Type invariant: every slot is a list of entries with an integer counter *)
(* and the last call is one of table.c's.                                  *)
TypeOK ==
  /\ tbl \in TableType
  /\ out \in ({"create"} \X {NULL} \X {0})
             \cup ({"put"} \X Key \X {0})
             \cup ({"get"} \X Key \X (Value \cup {NULL}))
             \cup ({"remove"} \X Key \X {0, 1, SEGV})

(* After any sequence of calls every slot is strictly sorted by key (so no *)
(* key has two nodes), holds only keys that hash to it, and its counter    *)
(* l->size, which list_get_keys trusts as a loop bound, is the length of   *)
(* its chain of nodes.                                                     *)
WellFormed == \A i \in Slot : WellFormedList(tbl[i], i)

(* table_size, which adds the counters of the slots, is the number of      *)
(* distinct keys whose value table_get returns.                            *)
SizeAgrees ==
  table_size(tbl) = Cardinality({k \in Key : table_get(tbl, k) # NULL})

(* table_get_keys, when it returns an array, lists every key that          *)
(* table_get finds, once, and nothing else.                                *)
KeysAgree ==
  LET keys == table_get_keys(tbl)
  IN  keys # NULL =>
        /\ IsInjective(keys)
        /\ ToSet(keys) = {k \in Key : table_get(tbl, k) # NULL}

(* The two branches of list_add that replace an entry in place (and leak   *)
(* the new node) are out of the reach of a single caller of table_put,     *)
(* which unlinks the old entry first.                                      *)
PutNeverReplacesInPlace ==
  \A k \in Key, v \in Value :
    LET i     == Hash[k]
        freed == table_remove(tbl, k)
        prior == IF table_get(tbl, k) = NULL THEN tbl[i] ELSE freed.tbl[i]
    IN  list_add(prior, [key |-> k, value |-> v]).ret = 0

-----------------------------------------------------------------------------
(* The table implements the map: KVMap's map is what table_get returns.    *)

mapBar == [k \in Key |-> table_get(tbl, k)]

Map == INSTANCE KVMap WITH map <- mapBar

(* Seen through table_get, every call changes the binding of its own key   *)
(* and of no other, returns what a map would return, and a removal of an   *)
(* absent key alone may take the process down.                             *)
ImplementsMap == Map!Spec
=============================================================================
