--------------------------- MODULE IngresQ_proofs ---------------------------
(***************************************************************************)
(* Proofs of the safety properties of IngresQ, for any number of slots,    *)
(* streams, connections and scans.                                         *)
(***************************************************************************)
EXTENDS IngresQ, FiniteSetTheorems, WellFoundedInduction, TLAPS

(* The four invariants together are inductive.  The last two rest on the
   counts: a slot that a connection holds is in use, so allocIngresQ gives it
   to nobody else and freeIngresQ releases the lock. *)
Inv == TypeOK /\ CountsHolders /\ HeldQueueKeepsName /\ LockAlwaysReleased

(* The loop of allocIngresQ has a first match if it has one. *)
LEMMA FirstMatch ==
  ASSUME NEW T, T \subseteq Nat, T # {}
  PROVE  \E i \in T : \A j \in T : i <= j
<1> DEFINE R == {ss \in Nat \X Nat : ss[1] < ss[2]}
<1>1. IsWellFoundedOn(R, Nat)
  BY NatLessThanWellFounded DEF OpToRel
<1> HIDE DEF R
<1>2. PICK i \in T : \A j \in T : ~ (<<j, i>> \in R)
  BY <1>1, WFMin
<1>3. \A j, k \in Nat : j < k => <<j, k>> \in R
  BY DEF R
<1>4. \A j \in T : i <= j
  <2> SUFFICES ASSUME NEW j \in T PROVE i <= j
    OBVIOUS
  <2>1. i \in Nat /\ j \in Nat
    OBVIOUS
  <2>2. ~ (j < i)
    BY <1>2, <1>3, <2>1
  <2> QED
    BY <2>1, <2>2
<1> QED
  BY <1>4

(* allocIngresQ answers -1, or a slot that is unused or has the name. *)
LEMMA AllocatedSlot ==
  ASSUME NEW n
  PROVE  \/ AllocIdx(n) = NoIndex
         \/ AllocIdx(n) \in Slots /\ init[AllocIdx(n)] \in {NULL, n}
<1> SUFFICES ASSUME Matches(n) # {}
             PROVE  AllocIdx(n) \in Matches(n)
  BY DEF AllocIdx, Matches
<1>1. Matches(n) \subseteq Nat
  BY IngresConstants DEF Matches, Slots
<1>2. \E i \in Matches(n) : \A j \in Matches(n) : i <= j
  BY <1>1, FirstMatch
<1> QED
  BY <1>2 DEF AllocIdx

(* The connections that hold a slot, counted. *)
LEMMA Holders ==
  ASSUME NEW i
  PROVE  IsFiniteSet(HoldersOf(i)) /\ Cardinality(HoldersOf(i)) \in Nat
<1>1. IsFiniteSet(HoldersOf(i))
  BY IngresConstants, FS_Subset DEF HoldersOf
<1> QED
  BY <1>1, FS_CardinalityType

LEMMA InitInv == Init => Inv
<1> SUFFICES ASSUME Init PROVE Inv
  OBVIOUS
<1>1. TypeOK
  BY DEF Init, TypeOK
<1>2. \A i \in Slots : HoldersOf(i) = {}
  BY IngresConstants DEF Init, HoldersOf, Closed, NoIndex, Slots
<1>3. CountsHolders
  BY <1>2, FS_EmptySet DEF Init, CountsHolders
<1>4. HeldQueueKeepsName /\ LockAlwaysReleased
  BY IngresConstants DEF Init, HeldQueueKeepsName, LockAlwaysReleased, Closed, NoIndex, Slots
<1> QED
  BY <1>1, <1>3, <1>4 DEF Inv

(* A slot somebody holds is in use. *)
LEMMA HeldIsUsed ==
  ASSUME Inv, NEW c \in Conns, conn[c].idx \in Slots
  PROVE  /\ refCount[conn[c].idx] > 0
         /\ init[conn[c].idx] # NULL
<1> DEFINE i == conn[c].idx
<1>1. IsFiniteSet(HoldersOf(i)) /\ c \in HoldersOf(i)
  BY Holders DEF HoldersOf
<1>2. Cardinality(HoldersOf(i)) \in Nat /\ Cardinality(HoldersOf(i)) # 0
  BY <1>1, Holders, FS_EmptySet
<1>3. refCount[i] = Cardinality(HoldersOf(i)) + scans[i] /\ scans[i] \in Nat
  BY DEF Inv, CountsHolders, TypeOK
<1>4. refCount[i] = 0 <=> init[i] = NULL
  BY DEF Inv, CountsHolders
<1> QED
  BY <1>2, <1>3, <1>4

(* Taking a reference: a slot that has holders already has the name asked for,
   and the new connection is not one of them. *)
LEMMA OpenConnInv ==
  ASSUME Inv, NEW c \in Conns, OpenConn(c)
  PROVE  Inv'
<1> USE IngresConstants
<1>1. PICK n \in Names : /\ conn[c] = Closed
                         /\ allocIngresQ(n)
                         /\ conn' = [conn EXCEPT ![c] = [name |-> n, idx |-> AllocIdx(n)]]
                         /\ UNCHANGED scans
  BY DEF OpenConn
<1> DEFINE k == AllocIdx(n)
<1>2. k = NoIndex \/ (k \in Slots /\ init[k] \in {NULL, n})
  BY AllocatedSlot
<1> HIDE DEF k
<1>3. TypeOK'
  BY <1>1, <1>2 DEF k, Inv, TypeOK, allocIngresQ
<1>4. HeldQueueKeepsName'
  <2> SUFFICES ASSUME NEW d \in Conns, conn'[d].idx \in Slots
               PROVE  init'[conn'[d].idx] = conn'[d].name
    BY DEF HeldQueueKeepsName
  <2>1. CASE d = c
    BY <1>1, <2>1 DEF k, Inv, TypeOK, allocIngresQ
  <2>2. CASE d # c
    <3>1. conn'[d] = conn[d]
      BY <1>1, <2>2 DEF Inv, TypeOK
    <3>2. init[conn[d].idx] = conn[d].name /\ init[conn[d].idx] # NULL
      BY <3>1, HeldIsUsed DEF Inv, HeldQueueKeepsName
    <3>3. init'[conn[d].idx] = IF conn[d].idx = k THEN n ELSE init[conn[d].idx]
      BY <1>1, <3>1 DEF k, allocIngresQ
    <3> QED
      BY <1>2, <3>1, <3>2, <3>3 DEF NoIndex, Slots
  <2> QED
    BY <2>1, <2>2
<1>5. CountsHolders'
  <2> SUFFICES ASSUME NEW i \in Slots
               PROVE  /\ refCount'[i] = Cardinality(HoldersOf(i)') + scans'[i]
                      /\ refCount'[i] = 0 <=> init'[i] = NULL
    BY DEF CountsHolders
  <2>1. /\ refCount[i] = Cardinality(HoldersOf(i)) + scans[i]
        /\ refCount[i] = 0 <=> init[i] = NULL
        /\ refCount[i] \in Nat /\ scans[i] \in Nat
    BY DEF Inv, CountsHolders, TypeOK
  <2>2. c \notin HoldersOf(i)
    BY <1>1 DEF HoldersOf, Closed, NoIndex, Slots
  <2>3. CASE i = k
    <3>1. HoldersOf(i)' = HoldersOf(i) \cup {c}
      BY <1>1, <2>3 DEF k, HoldersOf, Inv, TypeOK
    <3>2. Cardinality(HoldersOf(i)') = Cardinality(HoldersOf(i)) + 1
      BY <2>2, <3>1, Holders, FS_AddElement
    <3>3. refCount'[i] = refCount[i] + 1 /\ init'[i] = n
      BY <1>1, <2>3 DEF k, allocIngresQ
    <3> QED
      BY <1>1, <2>1, <3>2, <3>3, Holders
  <2>4. CASE i # k
    <3>1. HoldersOf(i)' = HoldersOf(i)
      BY <1>1, <2>2, <2>4 DEF k, HoldersOf, Inv, TypeOK
    <3>2. refCount'[i] = refCount[i] /\ init'[i] = init[i]
      BY <1>1, <2>4 DEF k, allocIngresQ
    <3> QED
      BY <1>1, <2>1, <3>1, <3>2
  <2> QED
    BY <2>3, <2>4
<1>6. LockAlwaysReleased'
  BY <1>1 DEF Inv, LockAlwaysReleased, allocIngresQ
<1> QED
  BY <1>3, <1>4, <1>5, <1>6 DEF Inv

(* Giving one back: the connection is a holder, so freeIngresQ finds the slot
   in use, and frees it only if no other holder is left. *)
LEMMA CloseConnInv ==
  ASSUME Inv, NEW c \in Conns, CloseConn(c)
  PROVE  Inv'
<1> USE IngresConstants
<1> DEFINE k == conn[c].idx
<1>1. /\ k \in Slots
      /\ conn' = [conn EXCEPT ![c] = Closed]
      /\ scans' = scans
  BY DEF CloseConn
<1>2. refCount[k] > 0 /\ init[k] # NULL
  BY <1>1, HeldIsUsed
<1>3. /\ refCount' = [refCount EXCEPT ![k] = @ - 1]
      /\ init' = [init EXCEPT ![k] = IF refCount[k] - 1 = 0 THEN NULL ELSE @]
      /\ lock' = lock
  BY <1>2 DEF CloseConn, freeIngresQ
<1> HIDE DEF k
<1>4. TypeOK'
  BY <1>1, <1>2, <1>3 DEF Inv, TypeOK
<1>5. \A d \in Conns : conn'[d] = IF d = c THEN Closed ELSE conn[d]
  BY <1>1 DEF Inv, TypeOK
<1>6. CountsHolders'
  <2> SUFFICES ASSUME NEW i \in Slots
               PROVE  /\ refCount'[i] = Cardinality(HoldersOf(i)') + scans'[i]
                      /\ refCount'[i] = 0 <=> init'[i] = NULL
    BY DEF CountsHolders
  <2>1. /\ refCount[i] = Cardinality(HoldersOf(i)) + scans[i]
        /\ refCount[i] = 0 <=> init[i] = NULL
        /\ refCount[i] \in Nat /\ scans[i] \in Nat
    BY DEF Inv, CountsHolders, TypeOK
  <2>2. HoldersOf(i)' = HoldersOf(i) \ {c}
    BY <1>5 DEF HoldersOf, Closed, NoIndex, Slots
  <2>3. CASE i = k
    <3>0. c \in HoldersOf(i)
      BY <2>3 DEF k, HoldersOf
    <3>1. Cardinality(HoldersOf(i)') = Cardinality(HoldersOf(i)) - 1
      BY <2>2, <3>0, Holders, FS_RemoveElement
    <3>2. refCount'[i] = refCount[i] - 1
          /\ init'[i] = IF refCount[i] - 1 = 0 THEN NULL ELSE init[i]
      BY <1>3, <2>3 DEF Inv, TypeOK
    <3> QED
      BY <1>1, <1>2, <2>1, <2>3, <3>1, <3>2, Holders
  <2>4. CASE i # k
    <3>1. HoldersOf(i)' = HoldersOf(i)
      BY <2>2, <2>4 DEF k, HoldersOf
    <3>2. refCount'[i] = refCount[i] /\ init'[i] = init[i]
      BY <1>3, <2>4 DEF Inv, TypeOK
    <3> QED
      BY <1>1, <2>1, <3>1, <3>2
  <2> QED
    BY <2>3, <2>4
<1>7. HeldQueueKeepsName'
  <2> SUFFICES ASSUME NEW d \in Conns, conn'[d].idx \in Slots
               PROVE  init'[conn'[d].idx] = conn'[d].name
    BY DEF HeldQueueKeepsName
  <2>1. d # c /\ conn'[d] = conn[d]
    BY <1>5 DEF Closed, NoIndex, Slots
  <2> DEFINE i == conn[d].idx
  <2>2. init[i] = conn[d].name
    BY <2>1 DEF Inv, HeldQueueKeepsName
  <2>3. d \in HoldersOf(i)' /\ IsFiniteSet(HoldersOf(i)')
    <3>1. HoldersOf(i)' \subseteq Conns
      BY DEF HoldersOf
    <3> QED
      BY <2>1, <3>1, IngresConstants, FS_Subset DEF HoldersOf
  <2>4. Cardinality(HoldersOf(i)') # 0 /\ Cardinality(HoldersOf(i)') \in Nat
    BY <2>3, FS_EmptySet, FS_CardinalityType
  <2>5. refCount'[i] # 0
    BY <1>4, <1>6, <2>1, <2>4 DEF CountsHolders, TypeOK
  <2>6. init'[i] = init[i]
    BY <1>3, <2>1, <2>5 DEF Inv, TypeOK
  <2> QED
    BY <2>1, <2>2, <2>6
<1>8. LockAlwaysReleased'
  BY <1>3 DEF Inv, LockAlwaysReleased
<1> QED
  BY <1>4, <1>6, <1>7, <1>8 DEF Inv

(* A scan counts as a holder of its own. *)
LEMMA StartScanInv ==
  ASSUME Inv, NEW n \in Names, StartScan(n)
  PROVE  Inv'
<1> USE IngresConstants
<1> DEFINE k == AllocIdx(n)
<1>1. k = NoIndex \/ (k \in Slots /\ init[k] \in {NULL, n})
  BY AllocatedSlot
<1>2. /\ lock' = lock /\ conn' = conn
      /\ init' = [i \in Slots |-> IF i = k THEN n ELSE init[i]]
      /\ refCount' = [i \in Slots |-> IF i = k THEN refCount[i] + 1 ELSE refCount[i]]
      /\ scans' = [i \in Slots |-> IF i = k THEN scans[i] + 1 ELSE scans[i]]
  BY DEF StartScan, allocIngresQ
<1> HIDE DEF k
<1>3. TypeOK'
  BY <1>2 DEF Inv, TypeOK
<1>4. CountsHolders'
  <2> SUFFICES ASSUME NEW i \in Slots
               PROVE  /\ refCount'[i] = Cardinality(HoldersOf(i)') + scans'[i]
                      /\ refCount'[i] = 0 <=> init'[i] = NULL
    BY DEF CountsHolders
  <2>1. /\ refCount[i] = Cardinality(HoldersOf(i)) + scans[i]
        /\ refCount[i] = 0 <=> init[i] = NULL
        /\ refCount[i] \in Nat /\ scans[i] \in Nat
    BY DEF Inv, CountsHolders, TypeOK
  <2>2. HoldersOf(i)' = HoldersOf(i)
    BY <1>2 DEF HoldersOf
  <2> QED
    BY <1>2, <2>1, <2>2, Holders
<1>5. HeldQueueKeepsName'
  <2> SUFFICES ASSUME NEW d \in Conns, conn[d].idx \in Slots
               PROVE  init'[conn[d].idx] = conn[d].name
    BY <1>2 DEF HeldQueueKeepsName
  <2>1. init[conn[d].idx] = conn[d].name /\ init[conn[d].idx] # NULL
    BY HeldIsUsed DEF Inv, HeldQueueKeepsName
  <2> QED
    BY <1>1, <1>2, <2>1 DEF NoIndex, Slots
<1>6. LockAlwaysReleased'
  BY <1>2 DEF Inv, LockAlwaysReleased
<1> QED
  BY <1>3, <1>4, <1>5, <1>6 DEF Inv

LEMMA NextInv == Inv /\ [Next]_vars => Inv'
<1> SUFFICES ASSUME Inv, [Next]_vars PROVE Inv'
  OBVIOUS
<1>1. CASE UNCHANGED vars
  <2>1. \A i : HoldersOf(i)' = HoldersOf(i)
    BY <1>1 DEF HoldersOf, vars
  <2> QED
    BY <1>1, <2>1 DEF Inv, TypeOK, CountsHolders, HeldQueueKeepsName, LockAlwaysReleased, vars
<1> QED
  BY <1>1, OpenConnInv, CloseConnInv, StartScanInv DEF Next

-----------------------------------------------------------------------------
(* The reference count of an ingress queue is the number of its holders, and
   the queue exists exactly while it has one, for any number of slots,
   connections and scans. *)
THEOREM CountIsHolders == Spec => []CountsHolders
<1>1. Inv => CountsHolders
  BY DEF Inv
<1> QED
  BY <1>1, InitInv, NextInv, PTL DEF Spec

(* A connection's slot is never handed to another stream while the connection
   is open, although allocIngresQ reuses slots and freeIngresQ is called by
   other connections. *)
THEOREM NameKept == Spec => []HeldQueueKeepsName
<1>1. Inv => HeldQueueKeepsName
  BY DEF Inv
<1> QED
  BY <1>1, InitInv, NextInv, PTL DEF Spec

(* The branch of freeIngresQ that returns with the spinlock held is never
   taken. *)
THEOREM LockReleased == Spec => []LockAlwaysReleased
<1>1. Inv => LockAlwaysReleased
  BY DEF Inv
<1> QED
  BY <1>1, InitInv, NextInv, PTL DEF Spec
=============================================================================
