--------------------------- MODULE OwnershipProofs ---------------------------
(***************************************************************************)
(* Theorems about Ownership, for every table and any number of calls.      *)
(***************************************************************************)
EXTENDS Ownership, TableProofs

-----------------------------------------------------------------------------
(* What is reachable. *)

EntryNames == {"entry", "entry->key", "value", "value->data", "node"}
GivenNames == {"copy", "copy->data", "keys", "keys[i]"}
LostNames  == GivenNames \cup {"key_copy"}

(* The objects of the entry that table_put number n made, with its node.   *)
EntryMemory(n) == Objects(EntryNames, n)

(* The numbers of the calls whose entries table_get finds.                 *)
Stored(t) == {table_get(t, k) : k \in Key} \ {NULL}

Owned(t) == TableMemory \cup UNION {EntryMemory(n) : n \in Stored(t)}

LEMMA EntryMemoryIs ==
  ASSUME NEW n
  PROVE  /\ entry_create(n) \cup node(n) = EntryMemory(n)
         /\ entry_destroy(n) \cup node(n) = EntryMemory(n)
         /\ \A o : o \in EntryMemory(n) <=> \E name \in EntryNames : o = <<name, n>>
BY DEF EntryMemory, entry_create, entry_destroy, block_destroy, node, Objects, EntryNames

(* The entries in the chains are those that table_get finds.               *)
LEMMA StoredInChains ==
  ASSUME NEW t, WellFormedTable(t), NEW n
  PROVE  (\E i \in Slot : \E e \in ToSet(t[i].head) : e.value = n) <=> n \in Stored(t)
<1>0. \A i \in Slot : t[i] \in List /\ WellFormedList(t[i], i) /\ SortedList(t[i])
  BY DEF WellFormedTable, TableType, WellFormedList
<1>1. ASSUME NEW i \in Slot, NEW e \in ToSet(t[i].head)
      PROVE  e.value \in Stored(t)
  <2>1. PICK j \in 1..Len(t[i].head) : e = t[i].head[j]
    <3>1. t[i].head \in Seq(Entry)
      BY <1>0, ListEntries
    <3> QED BY <3>1 DEF ToSet
  <2>2. e.key \in Key /\ e.value # NULL /\ Hash[e.key] = i
    BY <1>0, <2>1, ListEntries DEF WellFormedList
  <2>3. list_get(t[i], e.key) = e.value
    BY <1>0, <2>1, GetNode
  <2> QED BY <2>2, <2>3 DEF Stored, table_get
<1>2. ASSUME NEW k \in Key, table_get(t, k) # NULL
      PROVE  \E i \in Slot : \E e \in ToSet(t[i].head) : e.value = table_get(t, k)
  <2>1. Hash[k] \in Slot
    BY TableAssumption DEF Slot
  <2>2. PICK j \in 1..Len(t[Hash[k]].head) : t[Hash[k]].head[j].key = k
    BY <1>0, <1>2, <2>1, GetNull DEF table_get
  <2>3. list_get(t[Hash[k]], k) = t[Hash[k]].head[j].value
    BY <1>0, <2>1, <2>2, GetNode
  <2>4. t[Hash[k]].head[j] \in ToSet(t[Hash[k]].head)
    <3>1. t[Hash[k]].head \in Seq(Entry)
      BY <1>0, <2>1, ListEntries
    <3> QED BY <2>2, <3>1 DEF ToSet
  <2> QED BY <2>1, <2>3, <2>4 DEF table_get
<1> QED BY <1>1, <1>2 DEF Stored

LEMMA ChainsMemory ==
  ASSUME NEW t, WellFormedTable(t)
  PROVE  UNION {UNION {entry_create(e.value) \cup node(e.value) : e \in ToSet(t[i].head)} : i \in Slot}
           = UNION {EntryMemory(n) : n \in Stored(t)}
<1>1. \A e : entry_create(e.value) \cup node(e.value) = EntryMemory(e.value)
  BY EntryMemoryIs
<1> DEFINE C(i) == UNION {entry_create(e.value) \cup node(e.value) : e \in ToSet(t[i].head)}
<1>2. \A i \in Slot : \A o : o \in C(i) <=> \E e \in ToSet(t[i].head) : o \in EntryMemory(e.value)
  BY <1>1
<1>3. ASSUME NEW o
      PROVE  o \in UNION {C(i) : i \in Slot} <=> o \in UNION {EntryMemory(n) : n \in Stored(t)}
  <2>1. o \in UNION {C(i) : i \in Slot}
          <=> \E i \in Slot : \E e \in ToSet(t[i].head) : o \in EntryMemory(e.value)
    <3> HIDE DEF C
    <3> QED BY <1>2
  <2>2. (\E i \in Slot : \E e \in ToSet(t[i].head) : o \in EntryMemory(e.value))
          <=> \E n \in Stored(t) : o \in EntryMemory(n)
    BY StoredInChains
  <2> QED BY <2>1, <2>2
<1> QED BY <1>3

LEMMA ReachedIs ==
  /\ WellFormedTable(tbl) => Reached = Owned(tbl)
  /\ WellFormedTable(tbl') => Reached' = Owned(tbl')
BY ChainsMemory DEF Reached, NodesMemory, Owned, TableMemory, StatsMemory

-----------------------------------------------------------------------------
(* The inductive invariant. *)

(* What has to stay allocated, but for what the caller was given.          *)
Kept == IF destroyed THEN Objects({"mutex"}, 0) ELSE Owned(tbl)

(* The objects of a name that the caller does not know.                    *)
Forgotten(name) == {o \in live \ mine : o[1] = name}

(* The entries of the table come from different calls.                     *)
OneEach ==
  /\ Stored(tbl) \subseteq 1..calls
  /\ \A k, q \in Key : table_get(tbl, k) = table_get(tbl, q) /\ table_get(tbl, k) # NULL => k = q

Held ==
  /\ ~misused
  /\ mine \subseteq live /\ \A o \in mine : o[1] \in GivenNames
  /\ Kept \subseteq live
  /\ \A o \in live : o \in Kept \/ (o[1] \in LostNames /\ o[2] \in 1..calls)

Counted ==
  \A name \in {"key_copy", "copy"} :
    IsFiniteSet(Forgotten(name)) /\ Cardinality(Forgotten(name)) = puts

OwnIInv ==
  /\ IInv
  /\ calls \in 0..MaxCalls /\ puts \in Nat /\ destroyed \in BOOLEAN
  /\ OneEach /\ Held /\ Counted

(* The names of the objects tell them apart.                               *)
LEMMA Names ==
  /\ \A t : \A o \in Owned(t) : o[1] \notin LostNames
  /\ \A t, o : o \in Owned(t) <=> o \in TableMemory \/ \E n \in Stored(t) : o \in EntryMemory(n)
  /\ \A n, m : \A o \in EntryMemory(n) : o \notin TableMemory /\ (o \in EntryMemory(m) => n = m)
  /\ \A n : \A o \in EntryMemory(n) : o[1] \in EntryNames
  /\ \A names, n, o : o \in Objects(names, n) <=> \E name \in names : o = <<name, n>>
  /\ \A names, n : \A o \in Objects(names, n) : o[1] \in names /\ o[2] = n
  /\ EntryNames \cap LostNames = {}
<1>1. \A names, n, o : o \in Objects(names, n) <=> \E name \in names : o = <<name, n>>
  BY DEF Objects
<1>2. \A names, n : \A o \in Objects(names, n) : o[1] \in names /\ o[2] = n
  BY <1>1
<1>3. \A n : \A o \in EntryMemory(n) : o[1] \in EntryNames /\ o[2] = n
  BY <1>2 DEF EntryMemory
<1>4. \A o \in TableMemory : o[1] \in {"table", "slots", "statistics", "mutex", "list"}
  <2>1. \A o \in TableMemory : \/ o \in Objects({"table", "slots"}, 0)
                               \/ o \in Objects({"statistics", "mutex"}, 0)
                               \/ \E i \in Slot : o = <<"list", i>>
    BY DEF TableMemory, StatsMemory
  <2> QED BY <2>1, <1>2
<1>5. \A t, o : o \in Owned(t) <=> o \in TableMemory \/ \E n \in Stored(t) : o \in EntryMemory(n)
  BY DEF Owned
<1>6. \A t : \A o \in Owned(t) : o[1] \notin LostNames
  BY <1>3, <1>4, <1>5 DEF EntryNames, LostNames, GivenNames
<1>7. \A n, m : \A o \in EntryMemory(n) : o \notin TableMemory /\ (o \in EntryMemory(m) => n = m)
  BY <1>3, <1>4 DEF EntryNames
<1>8. EntryNames \cap LostNames = {}
  BY DEF EntryNames, LostNames, GivenNames
<1> QED BY <1>1, <1>2, <1>3, <1>5, <1>6, <1>7, <1>8

(* Every step is one of Table or leaves its variables alone.               *)
LEMMA OwnStepTable ==
  ASSUME IInv, [OwnNext]_ownVars
  PROVE  IInv' /\ WellFormedTable(tbl) /\ WellFormedTable(tbl')
<1>1. [Next]_vars
  BY DEF OwnNext, OwnPut, OwnGet, OwnRemove, GetKeys, FreeAnswer, Destroy, ownVars, Next
<1>2. IInv'
  BY <1>1, NextIInv
<1> QED BY <1>2 DEF IInv, WellFormedTable

(* list_remove frees what the old entry of the key consists of.            *)
LEMMA RemovedIs ==
  ASSUME NEW k \in Key
  PROVE  \A o : o \in Removed(k) <=> table_get(tbl, k) # NULL /\ o \in EntryMemory(table_get(tbl, k))
BY EntryMemoryIs DEF Removed

LEMMA InitOwn == OwnInit => OwnIInv
<1> SUFFICES ASSUME OwnInit PROVE OwnIInv
  OBVIOUS
<1>1. IInv
  BY InitIInv DEF OwnInit
<1>2. Stored(tbl) = {}
  BY TableCreate DEF OwnInit, Init, Stored
<1>3. OneEach
  BY <1>2, TableCreate DEF OneEach, OwnInit, Init
<1>4. live = Kept /\ mine = {} /\ ~misused
  BY <1>2 DEF OwnInit, Kept, Owned
<1>5. \A name \in {"key_copy", "copy"} : Forgotten(name) = {}
  <2>1. \A o \in live : o[1] \notin LostNames
    BY <1>4, Names DEF OwnInit, Kept
  <2> QED BY <2>1 DEF Forgotten, LostNames, GivenNames
<1>6. Counted
  BY <1>5, FS_EmptySet DEF Counted, OwnInit
<1>7. Held
  BY <1>4 DEF Held
<1>8. calls \in 0..MaxCalls /\ puts \in Nat /\ destroyed \in BOOLEAN
  <2>1. calls = 0 /\ puts = 0 /\ destroyed = FALSE
    BY DEF OwnInit
  <2>2. 0 \in 0..MaxCalls
    BY OwnershipAssumption
  <2> QED BY <2>1, <2>2
<1> QED BY <1>1, <1>3, <1>6, <1>7, <1>8 DEF OwnIInv

(* A number that a call takes was not taken before.                        *)
LEMMA NewNumber ==
  ASSUME OwnIInv, NEW n, Numbered(n)
  PROVE  /\ n \in 1..MaxCalls /\ n \in Value /\ n # NULL /\ n \notin 1..calls
         /\ calls' = n /\ calls' \in 0..MaxCalls /\ \A i \in 1..calls : i \in 1..n
         /\ n \in 1..n
         /\ \A o \in live : o[1] \in LostNames \cup EntryNames => o[2] # n \/ o \in Kept
         /\ n \notin Stored(tbl)
<1>1. calls \in 0..MaxCalls /\ MaxCalls \in Nat /\ Value = 1..MaxCalls /\ NULL \notin Value
  BY OwnershipAssumption, TableAssumption DEF OwnIInv
<1>2. n = calls + 1 /\ n <= MaxCalls /\ calls' = n
  BY DEF Numbered
<1>3. n \in 1..MaxCalls /\ n \notin 1..calls /\ n \in 1..n /\ \A i \in 1..calls : i \in 1..n
  BY <1>1, <1>2
<1>4. calls' \in 0..MaxCalls /\ n # NULL
  BY <1>1, <1>2, <1>3
<1> QED BY <1>1, <1>2, <1>3, <1>4 DEF OwnIInv, Held, OneEach

(* One more object of a name is forgotten.                                 *)
LEMMA OneMore ==
  ASSUME Counted, puts \in Nat, puts' = puts + 1, NEW n,
         \A name \in {"key_copy", "copy"} :
           Forgotten(name)' = Forgotten(name) \cup {<<name, n>>} /\ <<name, n>> \notin Forgotten(name)
  PROVE  Counted' /\ puts' \in Nat
<1>1. ASSUME NEW name \in {"key_copy", "copy"}
      PROVE  IsFiniteSet(Forgotten(name)') /\ Cardinality(Forgotten(name)') = puts'
  <2>1. IsFiniteSet(Forgotten(name)) /\ Cardinality(Forgotten(name)) = puts
    BY DEF Counted
  <2> QED BY <2>1, FS_AddElement
<1> QED BY <1>1 DEF Counted

LEMMA PutOwn ==
  ASSUME OwnIInv, NEW k \in Key, NEW n \in Value, OwnPut(k, n)
  PROVE  OwnIInv'
<1> DEFINE old == table_get(tbl, k)
           new == Objects({"key_copy"}, n) \cup block_duplicate(n)
<1>0. IInv /\ OneEach /\ Held /\ Counted /\ puts \in Nat /\ WellFormedTable(tbl)
  BY DEF OwnIInv, IInv
<1>1. /\ ~destroyed /\ Numbered(n) /\ tbl' = table_put(tbl, k, n).tbl
      /\ Memory(new \cup (entry_create(n) \cup node(n)), Removed(k))
      /\ puts' = puts + 1 /\ mine' = mine /\ destroyed' = destroyed
  <2>1. Objects({"key_copy"}, n) \cup block_duplicate(n) \cup entry_create(n) \cup node(n)
          = new \cup (entry_create(n) \cup node(n))
    OBVIOUS
  <2> QED BY <2>1 DEF OwnPut, Alive, CallPut
<1>2. IInv'
  <2>1. OwnNext
    BY DEF OwnNext
  <2> QED BY <1>0, <2>1, OwnStepTable
<1>3. \A q \in Key : table_get(tbl', q) = IF q = k THEN n ELSE table_get(tbl, q)
  BY <1>0, <1>1, TablePut
<1>4. n # NULL /\ n \notin Stored(tbl) /\ n \notin 1..calls /\ calls' = n /\ n \in 1..n
      /\ calls' \in 0..MaxCalls /\ \A i \in 1..calls : i \in 1..n
  BY <1>1, NewNumber
<1>5. \A m : m \in Stored(tbl') <=> m = n \/ (m \in Stored(tbl) /\ m # old)
  <2>1. ASSUME NEW m \in Stored(tbl') PROVE m = n \/ (m \in Stored(tbl) /\ m # old)
    BY <1>0, <1>3 DEF Stored, OneEach
  <2>2. ASSUME NEW m \in Stored(tbl), m # old PROVE m \in Stored(tbl')
    BY <1>3, <2>2 DEF Stored
  <2>3. n \in Stored(tbl')
    BY <1>3, <1>4 DEF Stored
  <2> QED BY <2>1, <2>2, <2>3
<1>6. OneEach'
  <2>1. Stored(tbl)  \subseteq 1..calls
    BY <1>0 DEF OneEach
  <2>2. Stored(tbl') \subseteq 1..calls'
    BY <1>4, <1>5, <2>1
  <2>3. ASSUME NEW p \in Key, NEW q \in Key, table_get(tbl', p) = table_get(tbl', q),
               table_get(tbl', p) # NULL
        PROVE  p = q
    <3>1. \A r \in Key : r # k /\ table_get(tbl, r) # NULL => table_get(tbl, r) # n
      BY <1>4 DEF Stored
    <3> QED BY <1>0, <1>3, <2>3, <3>1 DEF OneEach
  <2> QED BY <2>2, <2>3 DEF OneEach
<1>7. \A o : o \in live' <=> (o \in live \/ o \in new \/ o \in EntryMemory(n)) /\ o \notin Removed(k)
  <2>1. entry_create(n) \cup node(n) = EntryMemory(n)
    BY EntryMemoryIs
  <2> HIDE DEF new
  <2> QED BY <1>1, <2>1 DEF Memory
<1>8. \A o : o \in Removed(k) => /\ old \in Stored(tbl) /\ o \in EntryMemory(old) /\ old # n
                                 /\ o[1] \in EntryNames
  BY <1>4, RemovedIs, Names DEF Stored
<1>9. \A o \in new : o[1] \in LostNames /\ o[2] = n
  <2>1. \A o \in new : o[1] \in {"key_copy", "copy", "copy->data"} /\ o[2] = n
    BY Names DEF block_duplicate
  <2> QED BY <2>1 DEF LostNames, GivenNames
<1>10. Removed(k) \subseteq live
  BY <1>0, <1>1, <1>8, Names DEF Held, Kept
<1>11. Kept = Owned(tbl) /\ Kept' = Owned(tbl')
  BY <1>1 DEF Kept
<1>12. \A o : o \in Owned(tbl') <=> o \in TableMemory \/ o \in EntryMemory(n)
                                   \/ \E m \in Stored(tbl) : m # old /\ o \in EntryMemory(m)
  <2>1. \A o : o \in Owned(tbl') <=> o \in TableMemory \/ \E m \in Stored(tbl') : o \in EntryMemory(m)
    BY Names
  <2> QED BY <1>5, <2>1
<1> HIDE DEF new, old
<1>13. Held'
  <2>1. ~misused'
    BY <1>0, <1>1, <1>10 DEF Held, Memory
  <2>2. mine' \subseteq live' /\ \A o \in mine' : o[1] \in GivenNames
    <3>1. \A o \in mine : o \notin Removed(k)
      BY <1>0, <1>8 DEF Held, EntryNames, GivenNames
    <3> QED BY <1>0, <1>1, <1>7, <3>1 DEF Held
  <2>3. Kept' \subseteq live'
    <3>1. ASSUME NEW o \in Owned(tbl') PROVE o \in live'
      <4>1. o \notin Removed(k)
        BY <1>8, <1>12, Names
      <4>2. o \in Owned(tbl) \/ o \in EntryMemory(n)
        BY <1>12, Names
      <4> QED BY <1>0, <1>7, <1>11, <4>1, <4>2 DEF Held
    <3> QED BY <1>11, <3>1
  <2>4. \A o \in live' : o \in Kept' \/ (o[1] \in LostNames /\ o[2] \in 1..calls')
    <3> SUFFICES ASSUME NEW o \in live' PROVE o \in Kept' \/ (o[1] \in LostNames /\ o[2] \in 1..calls')
      OBVIOUS
    <3>1. CASE o \in new
      BY <1>4, <1>9, <3>1
    <3>2. CASE o \in EntryMemory(n)
      BY <1>11, <1>12, <3>2
    <3>3. CASE o \in live /\ o \in Owned(tbl)
      <4>1. o \in TableMemory \/ \E m \in Stored(tbl) : o \in EntryMemory(m)
        BY <3>3, Names
      <4>2. o \in EntryMemory(old) /\ old \in Stored(tbl) => o \in Removed(k)
        BY RemovedIs DEF old, Stored
      <4> QED BY <1>7, <1>11, <1>12, <4>1, <4>2
    <3>4. CASE o \in live /\ o \notin Owned(tbl)
      BY <1>0, <1>4, <1>11, <3>4 DEF Held
    <3> QED BY <1>7, <3>1, <3>2, <3>3, <3>4
  <2> QED BY <2>1, <2>2, <2>3, <2>4 DEF Held
<1>14. ASSUME NEW name \in {"key_copy", "copy"}
       PROVE  /\ Forgotten(name)' = Forgotten(name) \cup {<<name, n>>}
              /\ <<name, n>> \notin Forgotten(name)
  <2>1. <<name, n>> \in new
    BY DEF new, block_duplicate, Objects
  <2>2. <<name, n>> \notin live
    BY <1>0, <1>4, <1>11, Names DEF Held, LostNames, GivenNames
  <2>3. \A o \in new : o[1] = name => o = <<name, n>>
    BY DEF new, block_duplicate, Objects
  <2>4. \A o : o[1] = name => o \notin EntryMemory(n) /\ o \notin Removed(k)
    BY <1>8, Names DEF EntryNames
  <2>5. <<name, n>>[1] = name /\ <<name, n>> \notin mine
    BY <1>0, <2>2 DEF Held
  <2>6. ASSUME NEW o PROVE o \in Forgotten(name)' <=> o \in Forgotten(name) \/ o = <<name, n>>
    BY <1>1, <1>7, <2>1, <2>3, <2>4, <2>5 DEF Forgotten
  <2> QED BY <2>2, <2>6 DEF Forgotten
<1>15. Counted' /\ puts' \in Nat
  BY <1>0, <1>1, <1>14, OneMore
<1> QED BY <1>1, <1>2, <1>4, <1>6, <1>13, <1>15 DEF OwnIInv

LEMMA GetOwn ==
  ASSUME OwnIInv, NEW k \in Key, OwnGet(k)
  PROVE  OwnIInv'
<1>0. IInv /\ OneEach /\ Held /\ Counted /\ puts \in Nat /\ calls \in 0..MaxCalls /\ destroyed \in BOOLEAN
  BY DEF OwnIInv
<1>1. IInv' /\ UNCHANGED <<tbl, puts, destroyed>> /\ mine = {}
  <2>1. OwnNext
    BY DEF OwnNext
  <2> QED BY <1>0, <2>1, OwnStepTable DEF OwnGet, CallGet
<1>2. Kept' = Kept /\ Stored(tbl') = Stored(tbl)
  BY <1>1 DEF Kept
<1>3. CASE UNCHANGED <<live, mine, calls, misused>>
  <2>1. OneEach' /\ Held'
    BY <1>0, <1>1, <1>2, <1>3 DEF OneEach, Held
  <2>2. Counted'
    BY <1>0, <1>1, <1>3 DEF Counted, Forgotten
  <2> QED BY <1>0, <1>1, <1>3, <2>1, <2>2 DEF OwnIInv
<1>4. ASSUME NEW n \in Value, Numbered(n), Memory(block_duplicate(n), {}), mine' = block_duplicate(n)
      PROVE  OwnIInv'
  <2>1. n \notin 1..calls /\ calls' = n /\ n \in 1..n
        /\ calls' \in 0..MaxCalls /\ \A i \in 1..calls : i \in 1..n
    BY <1>4, NewNumber
  <2>2. live' = live \cup block_duplicate(n) /\ ~misused'
    BY <1>0, <1>4 DEF Memory, Held
  <2>3. \A o \in block_duplicate(n) : o[1] \in GivenNames /\ o[1] \in LostNames /\ o[2] = n
    BY Names DEF block_duplicate, GivenNames, LostNames
  <2>4. OneEach'
    BY <1>0, <1>1, <1>2, <2>1 DEF OneEach
  <2>5. Held'
    BY <1>0, <1>2, <1>4, <2>1, <2>2, <2>3 DEF Held
  <2>6. Counted'
    <3>1. \A o \in block_duplicate(n) : o \notin live
      BY <1>0, <2>1, <2>3, Names DEF Held, Kept, LostNames, GivenNames, EntryNames, Owned
    <3>2. live' \ mine' = live \ mine
      BY <1>1, <1>4, <2>2, <3>1
    <3> QED BY <1>0, <1>1, <3>2 DEF Counted, Forgotten
  <2> QED BY <1>0, <1>1, <2>1, <2>4, <2>5, <2>6 DEF OwnIInv
<1> QED BY <1>3, <1>4 DEF OwnGet

LEMMA RemoveOwn ==
  ASSUME OwnIInv, NEW k \in Key, OwnRemove(k)
  PROVE  OwnIInv'
<1> DEFINE old == table_get(tbl, k)
<1>0. IInv /\ OneEach /\ Held /\ Counted /\ puts \in Nat /\ calls \in 0..MaxCalls
      /\ WellFormedTable(tbl) /\ destroyed \in BOOLEAN
  BY DEF OwnIInv, IInv
<1>1. /\ ~destroyed /\ tbl' = table_remove(tbl, k).tbl /\ Memory({}, Removed(k))
      /\ UNCHANGED <<mine, calls, puts, destroyed>>
  BY DEF OwnRemove, Alive, CallRemove
<1>2. IInv'
  <2>1. OwnNext
    BY DEF OwnNext
  <2> QED BY <1>0, <2>1, OwnStepTable
<1>3. \A q \in Key : table_get(tbl', q) = IF q = k THEN NULL ELSE table_get(tbl, q)
  BY <1>0, <1>1, TableRemove
<1>4. \A m : m \in Stored(tbl') <=> m \in Stored(tbl) /\ m # old
  BY <1>0, <1>3 DEF Stored, OneEach
<1>5. OneEach'
  BY <1>0, <1>1, <1>3, <1>4 DEF OneEach
<1>6. \A o : o \in Removed(k) => old \in Stored(tbl) /\ o \in EntryMemory(old) /\ o[1] \in EntryNames
  BY RemovedIs, Names DEF Stored
<1>7. Kept = Owned(tbl) /\ Kept' = Owned(tbl')
  BY <1>1 DEF Kept
<1>8. Removed(k) \subseteq live
  BY <1>0, <1>6, <1>7, Names DEF Held
<1>9. live' = live \ Removed(k) /\ ~misused'
  BY <1>0, <1>1, <1>8 DEF Memory, Held
<1>10. \A o : o \in Owned(tbl') <=> o \in Owned(tbl) /\ o \notin Removed(k)
  <2>1. \A o : o \in Owned(tbl) <=> o \in TableMemory \/ \E m \in Stored(tbl) : o \in EntryMemory(m)
    BY Names
  <2>2. \A o : o \in Owned(tbl') <=> o \in TableMemory \/ \E m \in Stored(tbl') : o \in EntryMemory(m)
    BY Names
  <2>3. \A o : o \in Removed(k) <=> old \in Stored(tbl) /\ o \in EntryMemory(old)
    BY RemovedIs DEF Stored
  <2>4. \A m \in Stored(tbl) : \A o \in EntryMemory(m) : o \notin TableMemory /\ (o \in EntryMemory(old) => m = old)
    BY Names
  <2> HIDE DEF old
  <2> QED BY <1>4, <2>1, <2>2, <2>3, <2>4
<1>11. Held'
  <2>1. \A o \in mine : o \notin Removed(k)
    BY <1>0, <1>6 DEF Held, EntryNames, GivenNames
  <2> QED BY <1>0, <1>1, <1>7, <1>9, <1>10, <2>1 DEF Held
<1>12. ASSUME NEW name \in {"key_copy", "copy"} PROVE Forgotten(name)' = Forgotten(name)
  <2>1. \A o : o[1] = name => o \notin Removed(k)
    BY <1>6 DEF EntryNames
  <2> QED BY <1>1, <1>9, <2>1 DEF Forgotten
<1>13. Counted'
  BY <1>0, <1>1, <1>12 DEF Counted
<1> QED BY <1>0, <1>1, <1>2, <1>5, <1>11, <1>13 DEF OwnIInv

LEMMA GetKeysOwn ==
  ASSUME OwnIInv, GetKeys
  PROVE  OwnIInv'
<1>0. IInv /\ OneEach /\ Held /\ Counted /\ puts \in Nat /\ destroyed \in BOOLEAN
  BY DEF OwnIInv
<1>1. PICK n, ks, given :
        /\ n \in Value /\ Numbered(n)
        /\ \A o \in ks : o[1] \in {"keys", "keys[i]"} /\ o[2] = n
        /\ Memory(ks, {}) /\ mine' = given /\ given \subseteq ks
        /\ mine = {} /\ UNCHANGED <<vars, puts, destroyed>>
  <2> DEFINE empty  == {i \in Slot : list_get_keys(tbl[i]) = NULL}
             copied == IF empty = {} THEN Slot ELSE 0..(Min(empty) - 1)
             copies == UNION {ToSet(tbl[i].head) : i \in copied}
             keys(n) == Objects({"keys"}, n) \cup {<<"keys[i]", n, e.key>> : e \in copies}
  <2>1. PICK n \in Value : /\ Numbered(n) /\ Memory(keys(n), {})
                           /\ mine' = (IF empty = {} THEN keys(n) ELSE {})
    BY DEF GetKeys
  <2>2. \A o \in keys(n) : o[1] \in {"keys", "keys[i]"} /\ o[2] = n
    <3> HIDE DEF copies
    <3> QED BY Names
  <2>3. mine' \subseteq keys(n)
    <3> HIDE DEF keys
    <3> QED BY <2>1
  <2>4. mine = {} /\ UNCHANGED <<vars, puts, destroyed>>
    BY DEF GetKeys
  <2> HIDE DEF keys
  <2> QED BY <2>1, <2>2, <2>3, <2>4
<1>2. IInv'
  <2>1. OwnNext
    BY DEF OwnNext
  <2> QED BY <1>0, <2>1, OwnStepTable
<1>3. n \notin 1..calls /\ calls' = n /\ n \in 1..n
      /\ calls' \in 0..MaxCalls /\ \A i \in 1..calls : i \in 1..n
  BY <1>1, NewNumber
<1>4. live' = live \cup ks /\ ~misused' /\ tbl' = tbl
  BY <1>0, <1>1 DEF Memory, Held, vars
<1>5. Kept' = Kept /\ Stored(tbl') = Stored(tbl)
  BY <1>1, <1>4 DEF Kept
<1>6. OneEach'
  BY <1>0, <1>3, <1>4, <1>5 DEF OneEach
<1>7. Held'
  BY <1>0, <1>1, <1>3, <1>4, <1>5 DEF Held, GivenNames, LostNames
<1>8. ASSUME NEW name \in {"key_copy", "copy"} PROVE Forgotten(name)' = Forgotten(name)
  <2>1. \A o : o[1] = name => o \notin ks /\ o \notin mine'
    BY <1>1
  <2> QED BY <1>1, <1>4, <2>1 DEF Forgotten
<1>9. Counted'
  BY <1>0, <1>1, <1>8 DEF Counted
<1> QED BY <1>0, <1>1, <1>2, <1>3, <1>6, <1>7, <1>9 DEF OwnIInv

LEMMA FreeAnswerOwn ==
  ASSUME OwnIInv, FreeAnswer
  PROVE  OwnIInv'
<1>0. IInv /\ OneEach /\ Held /\ Counted /\ puts \in Nat /\ calls \in 0..MaxCalls
      /\ destroyed \in BOOLEAN
  BY DEF OwnIInv
<1>1. /\ Memory({}, mine) /\ mine' = {} /\ UNCHANGED <<tbl, calls, puts, destroyed>>
  BY DEF FreeAnswer, vars
<1>2. IInv'
  <2>1. OwnNext
    BY DEF OwnNext
  <2> QED BY <1>0, <2>1, OwnStepTable
<1>3. live' = live \ mine /\ ~misused'
  BY <1>0, <1>1 DEF Memory, Held
<1>4. OneEach' /\ Kept' = Kept
  BY <1>0, <1>1 DEF OneEach, Kept
<1>5. Held'
  <2>1. \A o \in Kept : o[1] \notin GivenNames
    BY Names DEF Kept, LostNames, GivenNames
  <2> QED BY <1>0, <1>1, <1>3, <1>4, <2>1 DEF Held
<1>6. \A name \in {"key_copy", "copy"} : Forgotten(name)' = Forgotten(name)
  BY <1>1, <1>3 DEF Forgotten
<1>7. Counted'
  BY <1>0, <1>1, <1>6 DEF Counted
<1> QED BY <1>0, <1>1, <1>2, <1>4, <1>5, <1>7 DEF OwnIInv

LEMMA DestroyOwn ==
  ASSUME OwnIInv, Destroy
  PROVE  OwnIInv'
<1> DEFINE freed == (UNION {ListMemory(i) : i \in Slot})
                    \cup Objects({"slots", "statistics", "table"}, 0)
<1>0. IInv /\ OneEach /\ Held /\ Counted /\ puts \in Nat /\ calls \in 0..MaxCalls
      /\ WellFormedTable(tbl)
  BY DEF OwnIInv, IInv
<1>1. /\ ~destroyed /\ destroyed' = TRUE /\ Memory({}, freed)
      /\ UNCHANGED <<tbl, mine, calls, puts>>
  BY DEF Destroy, Alive, vars
<1>2. IInv'
  <2>1. OwnNext
    BY DEF OwnNext
  <2> QED BY <1>0, <2>1, OwnStepTable
<1>3. Kept = Owned(tbl) /\ Kept' = Objects({"mutex"}, 0)
  BY <1>1 DEF Kept
<1>4. \A o : o \in freed <=> o \in Owned(tbl) /\ o \notin Objects({"mutex"}, 0)
  <2>1. \A o : o \in UNION {NodesMemory(tbl[i]) : i \in Slot}
                 <=> o \in UNION {EntryMemory(n) : n \in Stored(tbl)}
    BY <1>0, ChainsMemory DEF NodesMemory
  <2>2. \A o : o \in UNION {NodesMemory(tbl[i]) : i \in Slot} => o[1] \in EntryNames
    BY <2>1, Names
  <2>3. \A o : o \in freed <=> \/ o \in UNION {NodesMemory(tbl[i]) : i \in Slot}
                               \/ \E i \in Slot : o = <<"list", i>>
                               \/ o \in Objects({"slots", "statistics", "table"}, 0)
    <3>1. \A i \in Slot : \A o : o \in ListMemory(i) <=> o \in NodesMemory(tbl[i]) \/ o = <<"list", i>>
      BY DEF ListMemory
    <3>2. \A o : o \in UNION {ListMemory(i) : i \in Slot} <=> \E i \in Slot : o \in ListMemory(i)
      OBVIOUS
    <3>3. \A o : o \in UNION {NodesMemory(tbl[i]) : i \in Slot} <=> \E i \in Slot : o \in NodesMemory(tbl[i])
      OBVIOUS
    <3>4. \A o : o \in freed <=> \/ o \in UNION {ListMemory(i) : i \in Slot}
                                 \/ o \in Objects({"slots", "statistics", "table"}, 0)
      OBVIOUS
    <3> HIDE DEF freed
    <3> QED BY <3>1, <3>2, <3>3, <3>4, Zenon
  <2>4. \A o : o \in Owned(tbl) <=> \/ o \in UNION {NodesMemory(tbl[i]) : i \in Slot}
                                    \/ o \in TableMemory
    BY <2>1 DEF Owned
  <2>5. \A o : o \in TableMemory <=> \/ \E i \in Slot : o = <<"list", i>>
                                     \/ o \in Objects({"slots", "statistics", "table"}, 0)
                                     \/ o \in Objects({"mutex"}, 0)
    BY Names DEF TableMemory, StatsMemory
  <2>6. \A o : o \in Objects({"mutex"}, 0)
                 => /\ o \notin Objects({"slots", "statistics", "table"}, 0)
                    /\ \A i \in Slot : o # <<"list", i>>
                    /\ o[1] \notin EntryNames
    <3>1. \A o \in Objects({"mutex"}, 0) : o[1] = "mutex"
      BY Names
    <3>2. \A o \in Objects({"slots", "statistics", "table"}, 0) : o[1] # "mutex"
      BY Names
    <3> QED BY <3>1, <3>2 DEF EntryNames
  <2> HIDE DEF freed
  <2> QED BY <2>2, <2>3, <2>4, <2>5, <2>6
<1> HIDE DEF freed
<1>5. freed \subseteq live
  BY <1>0, <1>3, <1>4 DEF Held
<1>6. live' = live \ freed /\ ~misused'
  BY <1>0, <1>1, <1>5 DEF Memory, Held
<1>7. \A o \in freed : o[1] \notin LostNames
  BY <1>4, Names
<1>8. OneEach'
  BY <1>0, <1>1 DEF OneEach
<1>9. Objects({"mutex"}, 0) \subseteq Owned(tbl)
  BY Names DEF Owned, TableMemory, StatsMemory
<1>10. Held'
  BY <1>0, <1>1, <1>3, <1>4, <1>6, <1>7, <1>9 DEF Held, LostNames
<1>11. \A name \in {"key_copy", "copy"} : Forgotten(name)' = Forgotten(name)
  BY <1>1, <1>6, <1>7 DEF Forgotten, LostNames, GivenNames
<1>12. Counted'
  BY <1>0, <1>1, <1>11 DEF Counted
<1> QED BY <1>0, <1>1, <1>2, <1>8, <1>10, <1>12 DEF OwnIInv

LEMMA NextOwn == OwnIInv /\ [OwnNext]_ownVars => OwnIInv'
<1>1. ASSUME OwnIInv, UNCHANGED ownVars PROVE OwnIInv'
  <2>1. IInv'
    BY <1>1, OwnStepTable DEF OwnIInv
  <2>2. UNCHANGED <<tbl, live, mine, calls, puts, misused, destroyed>>
    BY <1>1 DEF ownVars, vars
  <2>3. OneEach' /\ Held' /\ Counted'
    BY <1>1, <2>2 DEF OwnIInv, OneEach, Held, Counted, Kept, Forgotten
  <2> QED BY <1>1, <2>1, <2>2, <2>3 DEF OwnIInv
<1> QED BY <1>1, PutOwn, GetOwn, RemoveOwn, GetKeysOwn, FreeAnswerOwn, DestroyOwn DEF OwnNext

LEMMA OwnIInvHolds == OwnSpec => []OwnIInv
  BY InitOwn, NextOwn, PTL DEF OwnSpec

-----------------------------------------------------------------------------
(* The theorems. *)

(* Whatever the calls, every pointer of the table leads to allocated       *)
(* memory, nothing is freed twice, and what the caller was given stays     *)
(* allocated until the caller frees it.                                    *)
THEOREM TableOwnsMemory == OwnSpec => []NoDangling
<1>1. ASSUME OwnIInv PROVE NoDangling
  <2>1. Held /\ WellFormedTable(tbl)
    BY <1>1 DEF OwnIInv, IInv
  <2>2. Reached = Owned(tbl)
    BY <2>1, ReachedIs
  <2>3. ~destroyed => Kept = Reached
    BY <2>2 DEF Kept
  <2>4. ~destroyed => Reached \cap mine = {}
    BY <2>1, <2>2, Names DEF Held, LostNames, GivenNames
  <2> QED BY <2>1, <2>3, <2>4 DEF NoDangling, Held
<1> QED BY <1>1, OwnIInvHolds, PTL

(* What a table loses are the first copies that table_put makes, one pair  *)
(* for each call, what table_get_keys had built when it met an empty slot, *)
(* and the mutex of a destroyed table.                                     *)
THEOREM OnlyTheseLeak == OwnSpec => []OnlyCopiesLeak
<1>1. ASSUME OwnIInv PROVE OnlyCopiesLeak
  <2>1. Held /\ Counted /\ WellFormedTable(tbl)
    BY <1>1 DEF OwnIInv, IInv
  <2>2. Reached = Owned(tbl)
    BY <2>1, ReachedIs
  <2>3. \A o : o \in Leaked <=> o \in live \ mine /\ (destroyed \/ o \notin Kept)
    BY <2>2 DEF Leaked, Kept
  <2>4. \A o \in Kept : o[1] \notin LostNames /\ (destroyed => o[1] = "mutex")
    BY Names DEF Kept, LostNames, GivenNames
  <2>5. \A o \in Leaked : o[1] \in LostNames \cup (IF destroyed THEN {"mutex"} ELSE {})
    BY <2>1, <2>3, <2>4 DEF Held
  <2>6. \A name \in {"key_copy", "copy"} : {o \in Leaked : o[1] = name} = Forgotten(name)
    BY <2>3, <2>4 DEF Forgotten, LostNames, GivenNames
  <2> QED BY <2>1, <2>5, <2>6 DEF OnlyCopiesLeak, Counted, LostNames, GivenNames
<1> QED BY <1>1, OwnIInvHolds, PTL
=============================================================================
