------------------------------ MODULE SharedList ------------------------------
(***************************************************************************)
(* One list of the server's table under handler threads that do not lock:  *)
(* list_get, list_remove and list_add of source/list.c at the grain of     *)
(* single loads and stores, as table_put and table_remove call them.       *)
(* Module KVServer gives each of these calls a first and a last step, with *)
(* one effect in between; this module shows what that effect can be when   *)
(* calls overlap.                                                          *)
(*                                                                         *)
(* A step reads or writes one pointer or counter that other threads write  *)
(* (the Makefile compiles without optimisation, so each access of the      *)
(* source is one of the program).  The key of a node never changes and is  *)
(* read along with the pointer to it.  After an access through a null      *)
(* pointer or to freed memory the program may do anything: the model stops.*)
(* malloc may give a call the memory of a node that was freed.  A pointer  *)
(* that was copied before then leads to the new node: using it is legal    *)
(* and does what the loads and stores do.                                  *)
(***************************************************************************)
EXTENDS TableOps

CONSTANTS
  Thread,  \* handler threads; each makes one call
  OLD      \* the data of the entries that were there before

(* The threads and the keys of one process are finitely many.              *)
ASSUME SharedListAssumption ==
  /\ Value = Thread \cup {OLD}
  /\ Thread \cap Key = {} /\ NULL \notin Thread \cup Key
  /\ IsFiniteSet(Thread) /\ IsFiniteSet(Key) /\ Key # {}

VARIABLES
  head, size,        \* struct list_t
  next, entry,       \* struct node_t of each node
  freed, dangling,   \* nodes that were freed; nodes whose entry was
  broken,            \* memory was misused
  pc, call,          \* where each thread is, and in which call
  cur, tmp, got,     \* its variables current and temp; the value it loaded last
  new,               \* its variable new_node
  pre,               \* the list when its call began; NULL if that could not
                     \* be walked or another thread has changed it since
  settled, rest,     \* the keys of the list when it was last at rest; the list
  adders,            \* the threads that were in list_add since
  asked,             \* settled, when its lookup began
  everFreed,         \* some call has freed memory
  reused             \* malloc has returned a node to which something leads

locals == <<cur, tmp, got, new>>
heap   == <<head, size, next, entry, freed, dangling, everFreed, reused>>
atrest == <<settled, rest, adders>>
lvars  == <<heap, broken, pc, call, locals, pre, atrest, asked>>

(* The nodes: those of the initial entries are named by their keys, those  *)
(* of memory never used before by the thread that asks malloc for one.     *)
Node == Key \cup Thread
Call == [op : {"put", "get", "del"}, key : Key]

(* Where the chain leads after i nodes.                                    *)
Place[i \in 0..Cardinality(Node)] ==
  IF i = 0 THEN head
  ELSE IF Place[i - 1] = NULL THEN NULL ELSE next[Place[i - 1]]

(* The list as module TableOps sees it.                                    *)
ListNow ==
  LET EntryAt(n) == IF n = NULL THEN NULL ELSE entry[n]
  IN  [head |-> SelectSeq([i \in 1..Cardinality(Node) |-> EntryAt(Place[i - 1])],
                          LAMBDA e : e # NULL),
       size |-> size]

(* The nodes that a walk from the head meets, and their keys.              *)
Members   == {Place[i] : i \in 0..Cardinality(Node)} \ {NULL}
Reachable == {entry[n].key : n \in Members}

(* The chain can be walked to its end.                                     *)
Sound ==
  /\ Place[Cardinality(Node)] = NULL
  /\ Members \cap (freed \cup dangling) = {}

GetPc    == {"get"}
RemovePc == {"rm", "rm_first", "rm_head", "rm_head_store", "rm_while",
             "rm_compare", "rm_next", "rm_temp", "rm_skip", "rm_skip_next",
             "rm_unlink", "rm_free", "dec", "dec_store"}
UnlinkPc == {"rm_head", "rm_head_store", "rm_temp", "rm_skip", "rm_skip_next",
             "rm_unlink", "rm_free", "dec", "dec_store"}
AddPc    == {"add", "add_only", "add_head", "add_first", "add_front",
             "while", "check", "replace", "replace_store", "order", "copy",
             "link", "next", "last", "last_replace", "last_link", "inc",
             "inc_store"}
Inside   == GetPc \cup RemovePc \cup {"new"} \cup AddPc
Done     == {"done_0", "done_1"}

(* The next larger of some keys, in a sorted list.                         *)
Successor(ks, k) ==
  IF \E j \in ks : j > k THEN Min({j \in ks : j > k}) ELSE NULL

AnyKey == CHOOSE k \in Key : TRUE

Init ==
  /\ \E ks \in SUBSET Key :
       /\ head = IF ks = {} THEN NULL ELSE Min(ks)
       /\ size = Cardinality(ks)
       /\ next = [n \in Node |-> IF n \in ks THEN Successor(ks, n) ELSE NULL]
       /\ settled = ks
       /\ rest = [head |-> [i \in 1..Cardinality(ks) |->
                    [key |-> SetToSortSeq(ks, <)[i], value |-> OLD]], size |-> size]
  /\ entry = [n \in Node |-> [key |-> IF n \in Key THEN n ELSE AnyKey, value |-> OLD]]
  /\ freed = {} /\ dangling = {}
  /\ broken = FALSE
  /\ pc = [t \in Thread |-> "idle"]
  /\ call = [t \in Thread |-> NULL]
  /\ cur = [t \in Thread |-> NULL]
  /\ tmp = [t \in Thread |-> NULL]
  /\ got = [t \in Thread |-> NULL]
  /\ new = [t \in Thread |-> NULL]
  /\ pre = [t \in Thread |-> NULL]
  /\ asked = [t \in Thread |-> {}]
  /\ adders = {}
  /\ everFreed = FALSE /\ reused = FALSE

-----------------------------------------------------------------------------
(* Steps. *)

key(t) == call[t].key

(* The copy of the entry that handle_client made for the call.             *)
Added(t) == [key |-> key(t), value |-> t]

(* The nodes that the next step of a thread looks at, and those of them    *)
(* whose entry it reads or frees.                                          *)
UsesEntry(t) ==
  CASE pc[t] = "get" -> {cur[t]} \ {NULL}
    [] pc[t] \in {"rm_first", "add_first", "replace", "last"} -> {cur[t]}
    [] pc[t] = "check" -> {cur[t], next[cur[t]]}
    [] pc[t] \in {"rm_compare", "order"} -> {next[cur[t]]}
    [] pc[t] = "rm_free" -> {tmp[t]}
    [] OTHER -> {}

Uses(t) ==
  CASE pc[t] \in {"rm_head", "rm_while", "rm_compare", "rm_next", "rm_temp",
                  "rm_skip", "rm_unlink", "while", "replace_store", "order",
                  "link", "next", "last_replace", "last_link"} -> {cur[t]}
    [] pc[t] = "copy" -> {cur[t], new[t]}
    [] pc[t] = "add_front" -> {new[t]}
    [] pc[t] = "rm_skip_next" -> {got[t]}
    [] OTHER -> {}

Valid(t) ==
  /\ Uses(t) \cap (freed \cup {NULL}) = {}
  /\ UsesEntry(t) \cap (freed \cup dangling \cup {NULL}) = {}

(* Where a thread still uses its variables current, temp and the pointer   *)
(* it loaded last.                                                         *)
CurPc == Inside \ {"rm", "dec", "dec_store", "new", "inc", "inc_store"}
GotPc == {"rm_head_store", "rm_skip_next", "rm_unlink"}
TmpPc == GotPc \cup {"rm_skip", "rm_free"}

(* The nodes that a thread still uses.  What it has allocated and not yet  *)
(* linked is not among them: only the thread itself can reach that.        *)
Pointers(t) ==
  LET UsedAt(pcs, n) == IF pc[t] \in pcs THEN {n} ELSE {}
  IN  UsedAt(CurPc, cur[t]) \cup UsedAt(TmpPc, tmp[t]) \cup UsedAt(GotPc, got[t])

(* The list, a node or a thread leads to this node.                        *)
LedTo(n) ==
  n = head \/ (\E m \in Node : next[m] = n) \/ (\E u \in Thread : n \in Pointers(u))

(* What each step tells the ghosts. *)

(* A call that begins, goes on or ends, and the calls of the others.       *)
Seen(t, u) ==
  CASE u = t /\ pc[t] = "idle" -> IF Sound THEN ListNow ELSE NULL
    [] u = t /\ pc[t] # "idle" -> IF pc'[t] \in Inside THEN pre[t] ELSE NULL
    [] u # t -> IF UNCHANGED heap THEN pre[u] ELSE NULL

(* No thread is in list_add, or in list_remove with a node to unlink.      *)
AtRest(at) == \A t \in Thread : at[t] \notin AddPc \cup UnlinkPc

Rest ==
  IF AtRest(pc')
  THEN settled' = Reachable' /\ rest' = ListNow' /\ adders' = {}
  ELSE /\ adders' = adders \cup {t \in Thread : pc'[t] \in AddPc}
       /\ UNCHANGED <<settled, rest>>

Noted(t) == pre' = [u \in Thread |-> Seen(t, u)] /\ Rest

Step(t, from, to) ==
  /\ ~broken
  /\ pc[t] = from
  /\ Valid(t)
  /\ pc' = [pc EXCEPT ![t] = to]
  /\ UNCHANGED <<broken, call, asked>>

(* The variables of a function of list.c end when it returns.              *)
Leave(t, to) ==
  IF to \in Done \cup {"rm", "new"}
  THEN /\ cur' = [cur EXCEPT ![t] = NULL] /\ tmp' = [tmp EXCEPT ![t] = NULL]
       /\ got' = [got EXCEPT ![t] = NULL] /\ new' = [new EXCEPT ![t] = NULL]
  ELSE UNCHANGED locals

(* A branch: nothing but the pc changes.                                   *)
Goto(t, from, to) == Step(t, from, to) /\ UNCHANGED heap /\ Leave(t, to)

(* A value is loaded into one of the thread's variables.                   *)
Current(t, from, to, n) ==
  /\ Step(t, from, to)
  /\ cur' = [cur EXCEPT ![t] = n]
  /\ UNCHANGED <<heap, tmp, got, new>>

Got(t, from, to, x) ==
  /\ Step(t, from, to)
  /\ got' = [got EXCEPT ![t] = x]
  /\ UNCHANGED <<heap, cur, tmp, new>>

SetHead(t, from, to, n) ==
  /\ Step(t, from, to)
  /\ head' = n
  /\ UNCHANGED <<size, next, entry, freed, dangling, everFreed, reused, locals>>

SetNext(t, from, to, n, m) ==
  /\ Step(t, from, to)
  /\ next' = [next EXCEPT ![n] = m]
  /\ UNCHANGED <<head, size, entry, freed, dangling, everFreed, reused, locals>>

SetSize(t, from, to, n) ==
  /\ Step(t, from, to)
  /\ size' = n
  /\ UNCHANGED <<head, next, entry, freed, dangling, everFreed, reused>>
  /\ Leave(t, to)

(* handle_client calls table_put, table_get or table_remove.               *)
Begin(t) ==
  /\ ~broken
  /\ pc[t] = "idle"
  /\ \E c \in Call :
       /\ call' = [call EXCEPT ![t] = c]
       /\ IF c.op = "del"
          THEN /\ pc' = [pc EXCEPT ![t] = "rm"]
               /\ UNCHANGED cur
          ELSE /\ pc' = [pc EXCEPT ![t] = "get"]
               /\ cur' = [cur EXCEPT ![t] = head]
       /\ asked' = [asked EXCEPT ![t] = IF c.op = "get" THEN settled ELSE {}]
  /\ UNCHANGED <<heap, broken, tmp, got, new>>

(* The program reads, writes or frees through a pointer that leads nowhere.*)
Fault(t) ==
  /\ ~broken
  /\ ~Valid(t)
  /\ broken' = TRUE
  /\ UNCHANGED <<heap, pc, call, locals, asked>>

-----------------------------------------------------------------------------
(* list_get, called by table_get and by table_put.                         *)

(* Mutant: the walk ends at the last node without looking at it.           *)
GetNotLast(t) ==
  \/ /\ cur[t] # NULL => next[cur[t]] = NULL
     /\ Goto(t, "get", IF call[t].op = "put" THEN "new" ELSE "done_1")
  \/ /\ cur[t] # NULL /\ entry[cur[t]].key = key(t)
     /\ Goto(t, "get", IF call[t].op = "put" THEN "rm" ELSE "done_0")
  \/ /\ cur[t] # NULL /\ entry[cur[t]].key # key(t)
     /\ Current(t, "get", "get", next[cur[t]])

Get(t) ==
  \/ /\ cur[t] = NULL
     /\ Goto(t, "get", IF call[t].op = "put" THEN "new" ELSE "done_1")
  \/ /\ cur[t] # NULL /\ entry[cur[t]].key = key(t)
     /\ Goto(t, "get", IF call[t].op = "put" THEN "rm" ELSE "done_0")
  \/ /\ cur[t] # NULL /\ entry[cur[t]].key # key(t)
     /\ Current(t, "get", "get", next[cur[t]])

-----------------------------------------------------------------------------
(* list_remove, called by table_remove and by table_put.                   *)

(* Mutant: an absent key is an error.                                      *)
AfterRemoveError(t, r) ==
  IF call[t].op = "put" THEN "new" ELSE IF r = "done_1" THEN "error" ELSE r

(* Where a call goes after list_remove returned r.                         *)
AfterRemove(t, r) == IF call[t].op = "put" THEN "new" ELSE r

RemoveStart(t) ==
  \/ Current(t, "rm", "rm_first", head)
  \/ Goto(t, "rm_first",
           IF entry[cur[t]].key = key(t) THEN "rm_head" ELSE "rm_while")

(* l->head = current->next                                                 *)
UnlinkHead(t) ==
  \/ /\ Step(t, "rm_head", "rm_head_store")
     /\ got' = [got EXCEPT ![t] = next[cur[t]]]
     /\ tmp' = [tmp EXCEPT ![t] = cur[t]]
     /\ UNCHANGED <<heap, cur, new>>
  \/ SetHead(t, "rm_head_store", "rm_free", got[t])

(* Mutant: the walk does not go on to the next node.                       *)
RemoveWalkStays(t) ==
  \/ Goto(t, "rm_while",
          IF next[cur[t]] = NULL THEN AfterRemove(t, "done_1") ELSE "rm_compare")
  \/ Goto(t, "rm_compare",
          IF entry[next[cur[t]]].key = key(t) THEN "rm_temp" ELSE "rm_next")
  \/ Goto(t, "rm_next", "rm_while")

RemoveWalk(t) ==
  \/ Goto(t, "rm_while",
          IF next[cur[t]] = NULL THEN AfterRemove(t, "done_1") ELSE "rm_compare")
  \/ Goto(t, "rm_compare",
          IF entry[next[cur[t]]].key = key(t) THEN "rm_temp" ELSE "rm_next")
  \/ Current(t, "rm_next", "rm_while", next[cur[t]])

(* temp = current->next; current->next = current->next->next               *)
Unlink(t) ==
  \/ /\ Step(t, "rm_temp", "rm_skip")
     /\ tmp' = [tmp EXCEPT ![t] = next[cur[t]]]
     /\ UNCHANGED <<heap, cur, got, new>>
  \/ Got(t, "rm_skip", "rm_skip_next", next[cur[t]])
  \/ Got(t, "rm_skip_next", "rm_unlink", next[got[t]])
  \/ SetNext(t, "rm_unlink", "rm_free", cur[t], got[t])

(* entry_destroy and free.  What the node held is lost.                    *)
FreeNode(t) ==
  /\ Step(t, "rm_free", "dec")
  /\ freed' = freed \cup {tmp[t]}
  /\ next' = [next EXCEPT ![tmp[t]] = NULL]
  /\ everFreed' = TRUE
  /\ UNCHANGED <<head, size, entry, dangling, reused, locals>>

Decrement(t) ==
  \/ Got(t, "dec", "dec_store", size)
  \/ SetSize(t, "dec_store", AfterRemove(t, "done_0"), got[t] - 1)

-----------------------------------------------------------------------------
(* list_add, called by table_put.                                          *)

(* new_node = malloc(...), and its fields are set.  Of the freed nodes the *)
(* memory of each one may come back.                                       *)
Allocate(t) ==
  \E n \in {t} \cup freed :
    /\ Step(t, "new", "add")
    /\ new' = [new EXCEPT ![t] = n]
    /\ next' = [next EXCEPT ![n] = NULL]
    /\ entry' = [entry EXCEPT ![n] = Added(t)]
    /\ freed' = freed \ {n} /\ dangling' = dangling \ {n}
    /\ reused' = (reused \/ LedTo(n))
    /\ UNCHANGED <<head, size, everFreed, cur, tmp, got>>

(* Mutant: the new first node does not point to the old one.               *)
AddFirstAlone(t) ==
  \/ Goto(t, "add", IF head = NULL THEN "add_only" ELSE "add_head")
  \/ SetHead(t, "add_only", "inc", new[t])
  \/ Current(t, "add_head", "add_first", head)
  \/ Goto(t, "add_first", IF key(t) < entry[cur[t]].key THEN "add_front" ELSE "while")
  \/ SetHead(t, "add_front", "inc", new[t])

AddFirst(t) ==
  \/ Goto(t, "add", IF head = NULL THEN "add_only" ELSE "add_head")
  \/ SetHead(t, "add_only", "inc", new[t])
  \/ Current(t, "add_head", "add_first", head)
  \/ Goto(t, "add_first", IF key(t) < entry[cur[t]].key THEN "add_front" ELSE "while")
  \/ /\ Step(t, "add_front", "inc")
     /\ next' = [next EXCEPT ![new[t]] = cur[t]]
     /\ head' = new[t]
     /\ UNCHANGED <<size, entry, freed, dangling, everFreed, reused, locals>>

AddWalk(t) ==
  \/ Goto(t, "while", IF next[cur[t]] = NULL THEN "last" ELSE "check")
  \/ Goto(t, "check", IF entry[cur[t]].key = key(t) THEN "replace" ELSE "order")
  \/ Goto(t, "order", IF key(t) < entry[next[cur[t]]].key THEN "copy" ELSE "next")
  \/ Current(t, "next", "while", next[cur[t]])

(* Mutant: the rest of the chain is not taken over.                        *)
LinkBetweenLoses(t) ==
  \/ Goto(t, "copy", "link")
  \/ SetNext(t, "link", "inc", cur[t], new[t])

(* Mutant: the two assignments are swapped.                                *)
LinkBetweenSwapped(t) ==
  \/ SetNext(t, "copy", "link", cur[t], new[t])
  \/ SetNext(t, "link", "inc", new[t], next[cur[t]])

(* new_node->next = current->next; current->next = new_node                *)
LinkBetween(t) ==
  \/ SetNext(t, "copy", "link", new[t], next[cur[t]])
  \/ SetNext(t, "link", "inc", cur[t], new[t])

(* The node has the key already: its entry is destroyed and replaced.      *)
Replace(t) ==
  \/ /\ Step(t, "replace", "replace_store")
     /\ dangling' = dangling \cup {cur[t]}
     /\ everFreed' = TRUE
     /\ UNCHANGED <<head, size, next, entry, freed, reused, locals>>
  \/ /\ Step(t, "replace_store", "done_0")
     /\ entry' = [entry EXCEPT ![cur[t]] = Added(t)]
     /\ dangling' = dangling \ {cur[t]}
     /\ UNCHANGED <<head, size, next, freed, everFreed, reused>>
     /\ Leave(t, "done_0")

(* After the last node, or in its place.                                   *)
AddLast(t) ==
  \/ Goto(t, "last",
          IF entry[cur[t]].key = key(t) THEN "last_replace" ELSE "last_link")
  \/ /\ Step(t, "last_replace", "done_0")
     /\ entry' = [entry EXCEPT ![cur[t]] = Added(t)]
     /\ UNCHANGED <<head, size, next, freed, dangling, everFreed, reused>>
     /\ Leave(t, "done_0")
  \/ SetNext(t, "last_link", "inc", cur[t], new[t])

Increment(t) ==
  \/ Got(t, "inc", "inc_store", size)
  \/ SetSize(t, "inc_store", "done_0", got[t] + 1)

-----------------------------------------------------------------------------

(* A thread inside its call goes on. *)
Advance(t) ==
  /\ \/ Get(t)
     \/ RemoveStart(t) \/ UnlinkHead(t) \/ RemoveWalk(t) \/ Unlink(t)
     \/ FreeNode(t) \/ Decrement(t)
     \/ Allocate(t)
     \/ AddFirst(t) \/ AddWalk(t) \/ LinkBetween(t) \/ Replace(t) \/ AddLast(t)
     \/ Increment(t)
     \/ Fault(t)
  /\ Noted(t)

Next == \E t \in Thread : (Begin(t) /\ Noted(t)) \/ Advance(t)

(* The kernel runs every thread; nothing obliges a client to ask.          *)
Fairness == \A t \in Thread : WF_lvars(Advance(t))

Spec == Init /\ [][Next]_lvars /\ Fairness

-----------------------------------------------------------------------------
(* Properties. *)

(* Type invariant.                                                         *)
TypeOK ==
  /\ head \in Node \cup {NULL} /\ size \in Int
  /\ next \in [Node -> Node \cup {NULL}] /\ entry \in [Node -> Entry]
  /\ freed \subseteq Node /\ dangling \subseteq Node
  /\ broken \in BOOLEAN /\ everFreed \in BOOLEAN /\ reused \in BOOLEAN
  /\ pc \in [Thread -> Inside \cup Done \cup {"idle"}]
  /\ call \in [Thread -> Call \cup {NULL}]
  /\ cur \in [Thread -> Node \cup {NULL}] /\ tmp \in [Thread -> Node \cup {NULL}]
  /\ new \in [Thread -> Node \cup {NULL}]
  /\ got \in [Thread -> Node \cup {NULL} \cup Int]
  /\ settled \subseteq Key /\ adders \subseteq Thread /\ asked \in [Thread -> SUBSET Key]

(* What TableOps says a call does to a list.                               *)
Expected(c, l, t) ==
  LET tbl == [i \in Slot |-> l]
  IN  CASE c.op = "put" -> LET r == table_put(tbl, c.key, t)
                           IN  [list |-> r.tbl[0], ret |-> "done_0"]
        [] c.op = "get" -> [list |-> l,
                            ret |-> IF table_get(tbl, c.key) = NULL THEN "done_1" ELSE "done_0"]
        [] c.op = "del" -> LET r == table_remove(tbl, c.key)
                           IN  [list |-> r.tbl[0],
                                ret |-> IF r.ret = 0 THEN "done_0"
                                        ELSE IF r.ret = 1 THEN "done_1" ELSE "fault"]

(* A call during which no other thread changes the list does what TableOps *)
(* says in one step, and misuses memory only where TableOps says so: the   *)
(* loops over nodes of list.c and the operators on sequences agree.        *)
SoloCallsAtomic ==
  [][\A t \in Thread :
       LET e == Expected(call[t], pre[t], t)
       IN  /\ pc[t] \in Inside /\ pc'[t] \in Done /\ pre[t] # NULL =>
               e.ret = pc'[t] /\ e.list = ListNow'
           /\ pc[t] \in Inside /\ ~Valid(t) /\ pre[t] # NULL =>
               e.ret = "fault"]_lvars

(* No call has removed or destroyed an entry, or is about to.              *)
OnlyInserts ==
  /\ ~everFreed
  /\ \A t \in Thread :
       pc[t] # "idle" => call[t].op # "del" /\ pc[t] \notin RemovePc

(* As long as the calls are lookups and puts of absent keys, no pointer is *)
(* misused, and every key that was in the list when it was last at rest is *)
(* still in it: only insertions that overlapped are lost.                  *)
InsertsKeepSettled == OnlyInserts => ~broken /\ settled \subseteq Reachable

(* A lookup that overlaps nothing but lookups and puts of absent keys      *)
(* finds every key that was in the list when it was last at rest before    *)
(* the lookup began.                                                       *)
LookupsFindSettled ==
  OnlyInserts => \A t \in Thread :
    pc[t] = "done_1" /\ call[t].op = "get" => key(t) \notin asked[t]

(* When the last of some insertions of different absent keys ends and no   *)
(* memory was freed, the list is what TableOps says of them: what list_add *)
(* makes of it if there was one, and one of the lists of Overlapped if     *)
(* they overlapped.  Module KVServer takes its steps from this.            *)
OverlapsAsAssumed ==
  [][/\ ~AtRest(pc) /\ AtRest(pc')
     /\ ~everFreed' /\ ~broken'
     /\ \A t \in adders : key(t) \notin settled
     /\ \A t, u \in adders : t # u => key(t) # key(u)
     => IF Cardinality(adders) = 1
        THEN \A t \in adders : ListNow' = list_add(rest, Added(t)).list
        ELSE ListNow' \in Overlapped(rest, {Added(t) : t \in adders})]_lvars

(* However the calls overlap, the links form no cycle, which would keep    *)
(* every later walk of the slot from ending, unless malloc has returned    *)
(* the memory of a freed node to which a node or a thread still led.  (Then*)
(* they can: a thread that has copied a pointer at list.c:96 stores it at  *)
(* line 97, and it leads to a node that is in front by now.)               *)
ChainEnds == ~reused => Place[Cardinality(Node)] = NULL

(* Every call that a thread begins ends, or memory was misused, or a freed *)
(* node to which something led came back from malloc.                      *)
CallsReturn ==
  \A t \in Thread : pc[t] \in Inside ~> (pc[t] \in Done \/ broken \/ reused)
============================================================================
