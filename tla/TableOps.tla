------------------------------ MODULE TableOps ------------------------------
(***************************************************************************)
(* The hash table of the server (source/table.c) and the sorted linked     *)
(* lists in its slots (source/list.c), as operators without state: each    *)
(* function of the C interface maps the old structure to the new one and a *)
(* return value.  A chain of nodes is the sequence of its entries; the     *)
(* separate counter l->size is kept, because the code reads it instead of  *)
(* walking the chain.  Keys are integers: `<' stands for the order of      *)
(* strcmp.  malloc and strdup are assumed to succeed.                      *)
(***************************************************************************)
EXTENDS Integers, SequencesExt

CONSTANTS
  Key,      \* the keys, ordered as strcmp orders them
  Value,    \* the data blocks
  NSlots,   \* number of lists (argument n_listas of the server)
  Hash,     \* hash(key, size): the slot of each key
  NULL      \* a null pointer

ASSUME TableAssumption ==
  /\ Key \subseteq Int
  /\ NSlots \in Nat \ {0}
  /\ Hash \in [Key -> 0..(NSlots - 1)]
  /\ NULL \notin Value

SEGV == 139   \* the call never returns: a null pointer is dereferenced

Entry == [key : Key, value : Value]
List  == [head : Seq(Entry), size : Int]
Slot  == 0..(NSlots - 1)

-----------------------------------------------------------------------------
(* list.c *)

list_create == [head |-> <<>>, size |-> 0]

(* The nodes that hold a key. *)
NodesOf(l, k) == {i \in 1..Len(l.head) : l.head[i].key = k}

(* Mutant: the new node does not point to the rest of the chain. *)
LinkedLosesRest(l, i, e) ==
  [head |-> SubSeq(l.head, 1, i - 1) \o <<e>>, size |-> l.size + 1]

Linked(l, i, e) ==
  [head |-> InsertAt(l.head, i, e), size |-> l.size + 1]

(* Mutant: the counter is not decremented. *)
UnlinkedUncounted(l, i) ==
  [head |-> RemoveAt(l.head, i), size |-> l.size]

Unlinked(l, i) ==
  [head |-> RemoveAt(l.head, i), size |-> l.size - 1]

Overwritten(l, i, e) == [l EXCEPT !.head = ReplaceAt(@, i, e)]

(* The nodes at which the loop of list_add stops: the node holds the new   *)
(* key, or the next node holds a larger one.                               *)
Stops(n, e) ==
  {i \in 1..(Len(n) - 1) : e.key = n[i].key \/ e.key < n[i + 1].key}

(* 0 when a node was linked, 1 when the entry of a node was replaced.      *)
list_add(l, e) ==
  LET n    == l.head
      last == Len(n)
      stop == Min(Stops(n, e))
      at   == IF Stops(n, e) # {} THEN stop ELSE last
  IN  IF n = <<>> \/ e.key < n[1].key
        THEN [list |-> Linked(l, 1, e), ret |-> 0]
      ELSE IF e.key = n[at].key
        THEN [list |-> Overwritten(l, at, e), ret |-> 1]
      ELSE [list |-> Linked(l, at + 1, e), ret |-> 0]

list_size(l) == l.size

(* Mutant: the search starts at the second node. *)
list_get_late(l, k) ==
  IF NodesOf(l, k) \ {1} = {} THEN NULL ELSE l.head[Min(NodesOf(l, k) \ {1})].value

list_get(l, k) ==
  IF NodesOf(l, k) = {} THEN NULL ELSE l.head[Min(NodesOf(l, k))].value

(* Mutant: the first node is unlinked when no node has the key. *)
list_remove_first(l, k) ==
  IF l.head = <<>> THEN [list |-> l, ret |-> SEGV]
  ELSE IF NodesOf(l, k) # {}
    THEN [list |-> Unlinked(l, Min(NodesOf(l, k))), ret |-> 0]
  ELSE [list |-> Unlinked(l, 1), ret |-> 1]

(* Mutant: an absent key is reported as an error. *)
list_remove_error(l, k) ==
  IF l.head = <<>> THEN [list |-> l, ret |-> SEGV]
  ELSE IF NodesOf(l, k) # {}
    THEN [list |-> Unlinked(l, Min(NodesOf(l, k))), ret |-> 0]
  ELSE [list |-> l, ret |-> -1]

(* The first node is read without looking whether there is one.            *)
list_remove(l, k) ==
  IF l.head = <<>> THEN [list |-> l, ret |-> SEGV]
  ELSE IF NodesOf(l, k) # {}
    THEN [list |-> Unlinked(l, Min(NodesOf(l, k))), ret |-> 0]
  ELSE [list |-> l, ret |-> 1]

(* Mutant: the last key is missing. *)
list_get_keys_short(l) ==
  IF l.size <= 0 \/ l.head = <<>> THEN NULL
  ELSE [i \in 1..(l.size - 1) |-> l.head[i].key]

(* An empty list has no array of keys: NULL, which elsewhere means error.  *)
list_get_keys(l) ==
  IF l.size <= 0 \/ l.head = <<>> THEN NULL
  ELSE [i \in 1..l.size |-> l.head[i].key]

(* What insertions of absent keys make of a list when they overlap each    *)
(* other and nothing that frees memory: no node of the list is lost and    *)
(* none changes its place among the others, but a new node may be left out *)
(* or linked anywhere, and the counter may miss all increments but one.    *)
(* Module SharedList shows this of the loads and stores (OverlapsAsAssumed).*)
Overlapped(l, new) ==
  LET old   == 1..Len(l.head)
      Heads == UNION {[1..n -> ToSet(l.head) \cup new] :
                        n \in Len(l.head)..(Len(l.head) + Cardinality(new))}
      Keeps(n) == \E at \in [old -> DOMAIN n] :
        /\ \A i, j \in old : i < j => at[i] < at[j]
        /\ \A i \in old : n[at[i]] = l.head[i]
        /\ \A x, y \in DOMAIN n \ {at[i] : i \in old} :
             n[x] \in new /\ (n[x] = n[y] => x = y)
  IN  [head : {n \in Heads : Keeps(n)},
       size : (l.size + 1)..(l.size + Cardinality(new))]

-----------------------------------------------------------------------------
(* table.c *)

table_create == [i \in Slot |-> list_create]

(* The table with another list in the slot of a key.                       *)
SlotSet(t, k, l) == [t EXCEPT ![Hash[k]] = l]

table_put(t, k, v) ==
  LET i     == Hash[k]
      freed == IF list_get(t[i], k) # NULL THEN list_remove(t[i], k).list
               ELSE t[i]
      added == list_add(freed, [key |-> k, value |-> v])
  IN  [tbl |-> SlotSet(t, k, added.list), ret |-> 0]

table_get(t, k) == list_get(t[Hash[k]], k)

table_remove(t, k) ==
  LET removed == list_remove(t[Hash[k]], k)
  IN  [tbl |-> SlotSet(t, k, removed.list), ret |-> removed.ret]

(* Mutant: the first list is not counted. *)
table_size_short(t) == MapThenSumSet(LAMBDA i : list_size(t[i]), Slot \ {0})

table_size(t) == MapThenSumSet(LAMBDA i : list_size(t[i]), Slot)

(* One slot without keys turns the answer for the whole table into NULL.   *)
table_get_keys(t) ==
  IF \E i \in Slot : list_get_keys(t[i]) = NULL THEN NULL
  ELSE FlattenSeq([i \in 1..NSlots |-> list_get_keys(t[i - 1])])

-----------------------------------------------------------------------------
(* What a well-formed slot is.  Used by the modules that keep a table.     *)

TableType == [Slot -> List]

SortedList(l) ==
  \A i, j \in 1..Len(l.head) : i < j => l.head[i].key < l.head[j].key

WellFormedList(l, slot) ==
  /\ SortedList(l)
  /\ \A i \in 1..Len(l.head) : Hash[l.head[i].key] = slot
  /\ l.size = Len(l.head)

(* The keys that the nodes of a list hold.                                 *)
KeysOf(l) == {l.head[i].key : i \in 1..Len(l.head)}

(* The keys the nodes of the table hold, whichever slot they are in.       *)
Bound(t) == UNION {{t[i].head[j].key : j \in 1..Len(t[i].head)} : i \in Slot}
=============================================================================
