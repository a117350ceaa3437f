----------------------------- MODULE TableProofs -----------------------------
(***************************************************************************)
(* Theorems about Table, for every set of keys and values, every number of *)
(* slots and every hash function.  The inductive invariant says that the   *)
(* table is well formed and that the last call is typed; the refinement    *)
(* needs it because list_get finds the binding of a key only in a sorted   *)
(* slot without duplicates.                                                *)
(***************************************************************************)
EXTENDS Table, TableOpsProofs

OutType ==
  out \in ({"create"} \X {NULL} \X {0})
          \cup ({"put"} \X Key \X {0})
          \cup ({"get"} \X Key \X (Value \cup {NULL}))
          \cup ({"remove"} \X Key \X {0, 1, SEGV})

IInv == WellFormedTable(tbl) /\ OutType

LEMMA InitIInv == Init => IInv
<1> SUFFICES ASSUME Init PROVE IInv
  OBVIOUS
<1>1. WellFormedTable(tbl)
  BY TableCreate DEF Init
<1>2. OutType
  BY DEF Init, OutType
<1> QED BY <1>1, <1>2 DEF IInv

LEMMA NextIInv == IInv /\ [Next]_vars => IInv'
<1> SUFFICES ASSUME IInv, [Next]_vars PROVE IInv'
  OBVIOUS
<1>0. WellFormedTable(tbl) /\ OutType
  BY DEF IInv
<1>1. ASSUME NEW k \in Key, NEW v \in Value, CallPut(k, v) PROVE IInv'
  <2>1. tbl' = table_put(tbl, k, v).tbl /\ out' = <<"put", k, 0>>
    BY <1>0, <1>1, TablePut DEF CallPut
  <2>2. WellFormedTable(tbl')
    BY <1>0, <2>1, TablePut
  <2>3. OutType'
    BY <2>1 DEF OutType
  <2> QED BY <2>2, <2>3 DEF IInv, WellFormedTable
<1>2. ASSUME NEW k \in Key, CallGet(k) PROVE IInv'
  <2>1. tbl' = tbl /\ out' = <<"get", k, table_get(tbl, k)>>
    BY <1>2 DEF CallGet
  <2>2. table_get(tbl, k) \in Value \cup {NULL}
    BY <1>0, TableGet
  <2>3. OutType'
    BY <2>1, <2>2 DEF OutType
  <2> QED BY <1>0, <2>1, <2>3 DEF IInv, WellFormedTable
<1>3. ASSUME NEW k \in Key, CallRemove(k) PROVE IInv'
  <2>1. /\ tbl' = table_remove(tbl, k).tbl
        /\ out' = <<"remove", k, table_remove(tbl, k).ret>>
    BY <1>3 DEF CallRemove
  <2>2. WellFormedTable(tbl') /\ table_remove(tbl, k).ret \in {0, 1, SEGV}
    BY <1>0, <2>1, TableRemove
  <2>3. OutType'
    BY <2>1, <2>2 DEF OutType
  <2> QED BY <2>2, <2>3 DEF IInv, WellFormedTable
<1>4. CASE UNCHANGED vars
  BY <1>0, <1>4 DEF IInv, WellFormedTable, OutType, vars
<1> QED BY <1>1, <1>2, <1>3, <1>4 DEF Next

LEMMA SpecIInv == Spec => []IInv
  BY InitIInv, NextIInv, PTL DEF Spec

(* The slots hold lists of entries and the last call is one of table.c's.  *)
THEOREM TypeCorrect == Spec => []TypeOK
<1>1. IInv => TypeOK
  BY DEF IInv, WellFormedTable, OutType, TypeOK
<1> QED BY <1>1, SpecIInv, PTL

(* Whatever the calls, every slot is strictly sorted, holds only keys that *)
(* hash to it and counts its nodes in l->size.                             *)
THEOREM SlotsWellFormed == Spec => []WellFormed
<1>1. IInv => WellFormed
  BY DEF IInv, WellFormedTable, WellFormed
<1> QED BY <1>1, SpecIInv, PTL

(* A single caller of table_put never reaches the branches of list_add     *)
(* that replace an entry in place.                                         *)
THEOREM PutUnlinksFirst == Spec => []PutNeverReplacesInPlace
<1>1. IInv => PutNeverReplacesInPlace
  <2> SUFFICES ASSUME IInv, NEW k \in Key, NEW v \in Value
               PROVE  LET i     == Hash[k]
                          freed == table_remove(tbl, k)
                          prior == IF table_get(tbl, k) = NULL
                                   THEN tbl[i] ELSE freed.tbl[i]
                      IN  list_add(prior, [key |-> k, value |-> v]).ret = 0
    BY DEF PutNeverReplacesInPlace
  <2> DEFINE u == table_remove(tbl, k).tbl
             prior == IF table_get(tbl, k) = NULL
                      THEN tbl[Hash[k]] ELSE u[Hash[k]]
             e == [key |-> k, value |-> v]
  <2>1. WellFormedTable(tbl) /\ Hash[k] \in Slot
    BY TableAssumption DEF IInv, Slot
  <2>2. WellFormedTable(u) /\ table_get(u, k) = NULL
    BY <2>1, TableRemove
  <2>3. /\ prior \in List /\ WellFormedList(prior, Hash[k])
        /\ list_get(prior, k) = NULL
    <3>1. CASE table_get(tbl, k) = NULL
      BY <2>1, <3>1 DEF WellFormedTable, TableType, table_get
    <3>2. CASE table_get(tbl, k) # NULL
      <4> HIDE DEF u
      <4> QED BY <2>1, <2>2, <3>2 DEF WellFormedTable, TableType, table_get
    <3> QED BY <3>1, <3>2
  <2>4. e \in Entry /\ e.key = k
    BY DEF Entry
  <2> HIDE DEF prior, e
  <2>5. list_add(prior, e).ret = 0
    BY <2>3, <2>4, ListAdd
  <2> QED BY <2>5 DEF prior, e
<1> QED BY <1>1, SpecIInv, PTL

(* The table implements the map: every call is a call of KVMap on the      *)
(* bindings that table_get shows.                                          *)
THEOREM TableImplementsMap == Spec => ImplementsMap
<1>1. Init => Map!Init
  <2> SUFFICES ASSUME Init PROVE Map!Init
    OBVIOUS
  <2>1. \A k \in Key : table_get(tbl, k) = NULL
    BY TableCreate DEF Init
  <2> QED BY <2>1 DEF Init, Map!Init, mapBar
<1>2. IInv /\ [Next]_vars => [Map!Next]_<<mapBar, out>>
  <2> SUFFICES ASSUME IInv, [Next]_vars
               PROVE  [Map!Next]_<<mapBar, out>>
    OBVIOUS
  <2>0. WellFormedTable(tbl)
    BY DEF IInv
  <2>1. ASSUME NEW k \in Key, NEW v \in Value, CallPut(k, v) PROVE Map!Next
    <3>1. tbl' = table_put(tbl, k, v).tbl /\ out' = <<"put", k, 0>>
      BY <2>0, <2>1, TablePut DEF CallPut
    <3>2. mapBar' = [mapBar EXCEPT ![k] = v]
      <4>1. \A q \in Key : table_get(tbl', q)
                             = IF q = k THEN v ELSE table_get(tbl, q)
        BY <2>0, <3>1, TablePut
      <4> QED BY <4>1 DEF mapBar
    <3>3. Map!Put(k, v)
      BY <2>1, <3>1, <3>2 DEF Map!Put, CallPut, Running, Map!Running
    <3> QED BY <3>3 DEF Map!Next
  <2>2. ASSUME NEW k \in Key, CallGet(k) PROVE Map!Next
    <3>1. mapBar' = mapBar /\ mapBar[k] = table_get(tbl, k)
      BY <2>2 DEF CallGet, mapBar
    <3>2. Map!Get(k)
      BY <2>2, <3>1 DEF Map!Get, CallGet, Running, Map!Running
    <3> QED BY <3>2 DEF Map!Next
  <2>3. ASSUME NEW k \in Key, CallRemove(k) PROVE Map!Next
    <3>1. /\ tbl' = table_remove(tbl, k).tbl
          /\ out' = <<"remove", k, table_remove(tbl, k).ret>>
          /\ Map!Running
      BY <2>3 DEF CallRemove, Running, Map!Running
    <3>2. \A q \in Key : table_get(tbl', q)
                           = IF q = k THEN NULL ELSE table_get(tbl, q)
      BY <2>0, <3>1, TableRemove
    <3>3. mapBar' = [mapBar EXCEPT ![k] = NULL] /\ mapBar[k] = table_get(tbl, k)
      BY <3>2 DEF mapBar
    <3>4. CASE table_get(tbl, k) # NULL
      <4>1. table_remove(tbl, k).ret = 0
        BY <2>0, <3>4, TableRemove
      <4>2. Map!RemovePresent(k)
        BY <3>1, <3>3, <3>4, <4>1 DEF Map!RemovePresent
      <4> QED BY <4>2 DEF Map!Next
    <3>5. CASE table_get(tbl, k) = NULL
      <4>1. table_remove(tbl, k).ret \in {1, SEGV}
        BY <2>0, <3>5, TableRemove
      <4>2. mapBar' = mapBar
        BY <3>3, <3>5 DEF mapBar
      <4>3. Map!RemoveAbsent(k)
        BY <3>1, <3>3, <3>5, <4>1, <4>2 DEF Map!RemoveAbsent
      <4> QED BY <4>3 DEF Map!Next
    <3> QED BY <3>4, <3>5
  <2>4. CASE UNCHANGED vars
    BY <2>4 DEF vars, mapBar
  <2> QED BY <2>1, <2>2, <2>3, <2>4 DEF Next
<1> QED BY <1>1, <1>2, SpecIInv, PTL DEF Spec, ImplementsMap, Map!Spec

(* table_size is the number of keys that table_get finds.                  *)
THEOREM SizeIsKeys == Spec => []SizeAgrees
<1>1. IInv => SizeAgrees
  BY TableSize DEF IInv, SizeAgrees
<1> QED BY <1>1, SpecIInv, PTL

(* table_get_keys returns nothing, or each key that table_get finds, once. *)
THEOREM KeysAreFound == Spec => []KeysAgree
<1>1. IInv => KeysAgree
  BY TableGetKeys DEF IInv, KeysAgree
<1> QED BY <1>1, SpecIInv, PTL
=============================================================================
