------------------------------ MODULE Ownership -------------------------------
(***************************************************************************)
(* The memory of a table and of its only caller: what the functions of     *)
(* table.c, list.c, entry.c and block.c allocate and free.  Every step is  *)
(* a step of module Table, or leaves its variables alone.                  *)
(*                                                                         *)
(* An object is one result of malloc or strdup, named by the variable or   *)
(* field that it is first stored in and by the number of the call that     *)
(* allocated it.  The value of an entry is the number of the table_put     *)
(* that made the entry, so that the table tells which objects it owns.     *)
(***************************************************************************)
EXTENDS Table

CONSTANT MaxCalls   \* bound: calls that allocate

ASSUME OwnershipAssumption == MaxCalls \in Nat /\ Value = 1..MaxCalls

VARIABLES
  live,       \* objects allocated and not freed
  mine,       \* those that the caller was given and has to free
  calls,      \* number of calls that allocated
  puts,       \* number of these that were table_put
  misused,    \* something was freed that was not allocated
  destroyed   \* table_destroy was called

ownVars == <<vars, live, mine, calls, puts, misused, destroyed>>

Objects(names, n) == {<<name, n>> : name \in names}

(* block.c and entry.c: what a block, an entry and its node consist of.    *)
block_duplicate(n) == Objects({"copy", "copy->data"}, n)
block_destroy(n)   == Objects({"value", "value->data"}, n)
entry_create(n)    == Objects({"entry", "entry->key"}, n) \cup Objects({"value", "value->data"}, n)
(* Mutant: the key is not freed. *)
entry_destroy_part(n) == Objects({"entry"}, n) \cup block_destroy(n)
entry_destroy(n)   == Objects({"entry", "entry->key"}, n) \cup block_destroy(n)
node(n)            == Objects({"node"}, n)

(* list.c: what the nodes of a list consist of.                            *)
NodesMemory(l) ==
  UNION {entry_create(e.value) \cup node(e.value) : e \in ToSet(l.head)}

StatsMemory == Objects({"statistics", "mutex"}, 0)
(* The table proper: table_create.                                         *)
TableMemory == Objects({"table", "slots"}, 0) \cup StatsMemory
               \cup {<<"list", i>> : i \in Slot}

(* What can be reached from the table.                                     *)
Reached == TableMemory \cup UNION {NodesMemory(tbl[i]) : i \in Slot}

OwnInit ==
  /\ Init
  /\ live = TableMemory
  /\ mine = {} /\ calls = 0 /\ puts = 0
  /\ misused = FALSE /\ destroyed = FALSE

-----------------------------------------------------------------------------

Alive == Running /\ ~destroyed

(* A call allocates some objects and then frees some.                      *)
Memory(allocated, freed) ==
  /\ live' = (live \cup allocated) \ freed
  /\ misused' = (misused \/ ~(freed \subseteq live \cup allocated))

(* The number of a call that allocates.                                    *)
Numbered(n) == n = calls + 1 /\ n <= MaxCalls /\ calls' = n

(* list_remove: entry_destroy and free of the node of the key, if any.     *)
Removed(k) ==
  LET n == table_get(tbl, k)
  IN  IF n = NULL THEN {} ELSE entry_destroy(n) \cup node(n)

(* Mutant: list_remove is told of the key but the new entry is dropped.    *)
OwnPutFreesNew(k, n) ==
  /\ Alive /\ Numbered(n)
  /\ CallPut(k, n)
  /\ Memory(Objects({"key_copy"}, n) \cup block_duplicate(n) \cup entry_create(n) \cup node(n),
            Removed(k) \cup entry_destroy(n))
  /\ puts' = puts + 1
  /\ UNCHANGED <<mine, destroyed>>

(* table_put duplicates key and value, and entry_create duplicates them    *)
(* again; the first copies are used for the search and then forgotten.     *)
(* list_add links the new node (PutNeverReplacesInPlace).                  *)
OwnPut(k, n) ==
  /\ Alive /\ Numbered(n)
  /\ CallPut(k, n)
  /\ Memory(Objects({"key_copy"}, n) \cup block_duplicate(n) \cup entry_create(n) \cup node(n),
            Removed(k))
  /\ puts' = puts + 1
  /\ UNCHANGED <<mine, destroyed>>

(* table_get: the caller gets a copy, if the key is there.                 *)
OwnGet(k) ==
  /\ Alive /\ mine = {}
  /\ CallGet(k)
  /\ IF table_get(tbl, k) = NULL
     THEN UNCHANGED <<live, mine, calls, misused>>
     ELSE \E n \in Value : /\ Numbered(n)
                           /\ Memory(block_duplicate(n), {})
                           /\ mine' = block_duplicate(n)
  /\ UNCHANGED <<puts, destroyed>>

OwnRemove(k) ==
  /\ Alive
  /\ CallRemove(k)
  /\ Memory({}, Removed(k))
  /\ UNCHANGED <<mine, calls, puts, destroyed>>

(* table_get_keys: the array and a copy of each key; the arrays that       *)
(* list_get_keys makes for the slots are freed by list_free_keys.  When a  *)
(* slot has none, what was built so far is neither returned nor freed.     *)
GetKeys ==
  LET empty  == {i \in Slot : list_get_keys(tbl[i]) = NULL}
      copied == IF empty = {} THEN Slot ELSE 0..(Min(empty) - 1)
      keys(n) == Objects({"keys"}, n) \cup
                 {<<"keys[i]", n, e.key>> : e \in UNION {ToSet(tbl[i].head) : i \in copied}}
  IN  /\ Alive /\ mine = {}
      /\ \E n \in Value :
           /\ Numbered(n)
           /\ Memory(keys(n), {})
           /\ mine' = IF empty = {} THEN keys(n) ELSE {}
      /\ UNCHANGED <<vars, puts, destroyed>>

(* The caller frees what it was given: block_destroy, table_free_keys.     *)
FreeAnswer ==
  /\ Running /\ mine # {}
  /\ Memory({}, mine)
  /\ mine' = {}
  /\ UNCHANGED <<vars, calls, puts, destroyed>>

(* list_destroy *)
ListMemory(i) == NodesMemory(tbl[i]) \cup {<<"list", i>>}

(* table_destroy.  stats_destroy destroys the mutex but does not free it.  *)
Destroy ==
  /\ Alive
  /\ Memory({}, (UNION {ListMemory(i) : i \in Slot})
                \cup Objects({"slots", "statistics", "table"}, 0))
  /\ destroyed' = TRUE
  /\ UNCHANGED <<vars, mine, calls, puts>>

OwnNext ==
  \/ \E k \in Key : (\E n \in Value : OwnPut(k, n)) \/ OwnGet(k) \/ OwnRemove(k)
  \/ GetKeys
  \/ FreeAnswer
  \/ Destroy

OwnSpec == OwnInit /\ [][OwnNext]_ownVars

-----------------------------------------------------------------------------
(* Properties. *)

(* The objects that no path leads to any more.                             *)
Leaked == live \ (mine \cup (IF destroyed THEN {} ELSE Reached))

(* Until the process ends or the table is destroyed, every pointer of the  *)
(* table leads to memory that is allocated, none of which the caller has   *)
(* to free; what the caller was given stays allocated until it frees it,   *)
(* and nothing is freed twice.                                             *)
NoDangling ==
  Running =>
    /\ ~misused
    /\ mine \subseteq live
    /\ ~destroyed => Reached \subseteq live /\ Reached \cap mine = {}

(* The only memory a table loses are the first copies of the key and of    *)
(* the value, in every table_put, what table_get_keys had built when it    *)
(* met an empty slot, and the mutex of a destroyed table: table.h promises *)
(* memory management in table_put and the release of all in table_destroy. *)
OnlyCopiesLeak ==
  Running =>
    /\ \A o \in Leaked :
         o[1] \in {"key_copy", "copy", "copy->data", "keys", "keys[i]"}
                  \cup (IF destroyed THEN {"mutex"} ELSE {})
    /\ Cardinality({o \in Leaked : o[1] = "key_copy"}) = puts
    /\ Cardinality({o \in Leaked : o[1] = "copy"}) = puts
===============================================================================
