---------------------------- MODULE ResultQ_proofs ----------------------------
(***************************************************************************)
(* The byte buffer of rqueue/resultq.c, for every capacity, header size,   *)
(* padding and mixture of element sizes: its elements tile the bytes       *)
(* between head and tail, and it implements the first-in first-out queue   *)
(* of Fifo.                                                                *)
(*                                                                         *)
(* The invariant names what the code leaves implicit: whether the tail has *)
(* wrapped, the elements es of the queue and the addresses at where they   *)
(* are written.  One lemma per operation says how it changes them.         *)
(***************************************************************************)
EXTENDS ResultQ, FiniteSetTheorems, SequenceTheorems, TLAPS

(* A set of numbers that is not empty has a least one: the least element two
   descriptions of the buffer disagree on is how they are shown to agree. *)
LEMMA LeastNumber ==
  ASSUME NEW T \in SUBSET Nat, T # {}
  PROVE  \E m \in T : \A k \in T : m <= k
<1>. DEFINE R == OpToRel(<, Nat)
<1>1. IsWellFoundedOn(R, Nat)
  BY NatLessThanWellFounded, Zenon
<1>2. \A x, y \in Nat : x < y => <<x, y>> \in R
  BY DEF OpToRel
<1>. HIDE DEF R
<1>3. PICK m \in T : \A k \in T : ~ (<<k, m>> \in R)
  BY <1>1, WFMin, Zenon
<1>4. \A k \in T : k \in Nat /\ m \in Nat /\ ~ (k < m)
  BY <1>2, <1>3, Zenon
<1>. QED  BY <1>4

-----------------------------------------------------------------------------
(* The layout of the buffer. *)

(* The first byte behind element i. *)
End(at, es, i) == at[i] + EltSize(es[i])

(* e is written at address a, header, data and padding. *)
Written(mem, a, e) ==
  /\ mem[a].len = EltSize(e)
  /\ \A b \in a .. (a + EltSize(e) - 1) : b \in Addr /\ mem[b].elt = e

(* Byte b is between head and tail, in a buffer that wrapped or did not. *)
Used(wrapped, r, b) ==
  IF wrapped THEN b \in r.head .. (r.wall - 1) \/ b \in 0 .. (r.tail - 1)
             ELSE b \in r.head .. (r.tail - 1)

(* The three pointers, and the bytes they leave free. *)
Pointers(wrapped, r) ==
  /\ r.head \in 0 .. Cap /\ r.tail \in 0 .. Cap /\ r.wall \in 0 .. Cap
  /\ wrapped => /\ r.tail <= r.head /\ r.head <= r.wall
                /\ r.bytesfree = Cap - (r.wall - r.head) - r.tail
  /\ ~wrapped => /\ r.head <= r.tail /\ r.wall = Cap
                 /\ r.bytesfree = Cap - (r.tail - r.head)

(* The elements es lie at the addresses at, one behind the other. *)
Chain(r, at, es) ==
  LET n == r.numelts
  IN /\ n > 0 => /\ at[1] = IF r.head = r.wall THEN 0 ELSE r.head
                 /\ End(at, es, n) = r.tail \/ (End(at, es, n) = r.wall /\ r.tail = 0)
     /\ \A i \in 1 .. (n - 1) :
          at[i + 1] = IF End(at, es, i) = r.wall THEN 0 ELSE End(at, es, i)

(* Elements i and j share no byte. *)
Apart(at, es, i, j) == End(at, es, i) <= at[j] \/ End(at, es, j) <= at[i]

(* Element i is on one side of the gap. *)
Inside(wrapped, r, at, es, i) ==
  IF wrapped THEN (r.head <= at[i] /\ End(at, es, i) <= r.wall) \/ End(at, es, i) <= r.tail
             ELSE r.head <= at[i] /\ End(at, es, i) <= r.tail

(* The queue r holds the elements es, at the addresses at: they are written there
   intact, in order, apart from one another, and leave no byte between head and
   tail unused. *)
Layout(wrapped, r, at, es) ==
  LET n == r.numelts
  IN /\ n \in Nat /\ es \in [1 .. n -> Elts] /\ at \in [1 .. n -> Addr]
     /\ Pointers(wrapped, r) /\ Chain(r, at, es)
     /\ \A i \in 1 .. n : Written(r.mem, at[i], es[i]) /\ Inside(wrapped, r, at, es, i)
     /\ \A i, j \in 1 .. n : i # j => Apart(at, es, i, j)
     /\ \A b \in Addr : Used(wrapped, r, b) <=> \E i \in 1 .. n : b \in at[i] .. (End(at, es, i) - 1)

(* The Queue struct. *)
QueueType ==
  [head : 0 .. Cap, tail : 0 .. Cap, wall : 0 .. Cap, bytesfree : 0 .. Cap, numelts : Nat,
   mem : [Addr -> [len : 0 .. Cap, elt : Elts \cup {NoElt}]]]

(* The queue has a layout. *)
Tiled == \E wrapped \in BOOLEAN : \E at, es : Layout(wrapped, q, at, es)

(* The header makes every element at least one byte long. *)
LEMMA SizeFacts ==
  /\ Cap \in Nat \ {0}
  /\ \A e \in Elts : EltSize(e) \in Nat \ {0}
  /\ NoElt \notin Elts
<1>1. Cap \in Nat \ {0}
  BY QueueConstants
<1>2. ASSUME NEW e \in Elts PROVE EltSize(e) \in Nat \ {0}
  <2>1. e.size \in Nat
    BY QueueConstants, <1>2, Zenon DEF Elts
  <2>. QED  BY QueueConstants, <2>1 DEF EltSize
<1>3. NoElt \notin Elts
  <2>1. ASSUME NoElt \in Elts PROVE FALSE
    <3>1. NoElt.data \in Payloads /\ NoElt.data = 0
      BY <2>1, Zenon DEF Elts, NoElt
    <3>. QED  BY <3>1, QueueConstants
  <2>. QED  BY <2>1
<1>. QED  BY <1>1, <1>2, <1>3, Zenon

(* The recursive definition of LiveAddr, and what it defines. *)
Walks(r, f) ==
  f = [i \in 1 .. r.numelts |->
         IF i = 1 THEN IF r.head = r.wall THEN 0 ELSE r.head
         ELSE LET end == f[i - 1] + r.mem[f[i - 1]].len
              IN IF end = r.wall THEN 0 ELSE end]

Walk(r) == CHOOSE f : Walks(r, f)

(* LiveAddr is this walk. *)
LEMMA LiveIsWalk ==
  /\ LiveAddr = Walk(q) /\ LiveAddr' = Walk(q')
  /\ Contents = [i \in 1 .. q.numelts |-> q.mem[Walk(q)[i]].elt]
  /\ Contents' = [i \in 1 .. q'.numelts |-> q'.mem[Walk(q')[i]].elt]
<1>1. LiveAddr = Walk(q) /\ LiveAddr' = Walk(q')
  BY DEF LiveAddr, Walk, Walks
<1>. QED  BY <1>1, Zenon DEF Contents

(* The walk from head, over the length fields, meets exactly the elements of a
   layout: at the first one it missed it would be where the chain puts it. *)
LEMMA WalkFindsLayout ==
  ASSUME NEW wrapped \in BOOLEAN, NEW r, NEW at, NEW es, Layout(wrapped, r, at, es)
  PROVE  Walk(r) = at /\ [i \in 1 .. r.numelts |-> r.mem[Walk(r)[i]].elt] = es
<1>. DEFINE n == r.numelts
            First == IF r.head = r.wall THEN 0 ELSE r.head
            Step(a) == LET end == a + r.mem[a].len IN IF end = r.wall THEN 0 ELSE end
<1>1. /\ n \in Nat /\ at \in [1 .. n -> Addr] /\ es \in [1 .. n -> Elts]
      /\ \A i \in 1 .. n : r.mem[at[i]].len = EltSize(es[i]) /\ at[i] \in Addr /\ es[i] \in Elts
      /\ n > 0 => at[1] = First
      /\ \A i \in 1 .. (n - 1) :
           at[i + 1] = IF at[i] + EltSize(es[i]) = r.wall THEN 0 ELSE at[i] + EltSize(es[i])
  BY Zenon DEF Layout, Chain, Written, End
<1>2. \A i \in 1 .. n : i # 1 => at[i] = Step(at[i - 1])
  <2>1. SUFFICES ASSUME NEW i \in 1 .. n, i # 1 PROVE at[i] = Step(at[i - 1])
    OBVIOUS
  <2>2. i - 1 \in 1 .. (n - 1) /\ (i - 1) + 1 = i /\ i - 1 \in 1 .. n
    BY <1>1, <2>1
  <2>3. PICK k \in 1 .. (n - 1) : k = i - 1 /\ k + 1 = i /\ k \in 1 .. n
    BY <2>2
  <2>. QED  BY <1>1, <2>3
<1>3. Walks(r, at)
  <2>1. at = [i \in 1 .. n |-> at[i]]
    BY <1>1
  <2>2. \A i \in 1 .. n : at[i] = IF i = 1 THEN First ELSE Step(at[i - 1])
    BY <1>1, <1>2
  <2>. QED  BY <2>1, <2>2 DEF Walks
<1>4. ASSUME NEW f, Walks(r, f) PROVE f = at
  <2>1. DOMAIN f = 1 .. n /\ f = [i \in 1 .. n |-> f[i]]
    BY <1>4, Zenon DEF Walks
  <2>2. \A i \in 1 .. n : f[i] = IF i = 1 THEN First ELSE Step(f[i - 1])
    BY <1>4, Zenon DEF Walks
  <2>. DEFINE T == {i \in 1 .. n : f[i] # at[i]}
  <2>3. ASSUME T # {} PROVE FALSE
    <3>1. T \in SUBSET Nat
      BY <1>1
    <3>2. PICK m \in T : \A k \in T : m <= k
      BY <2>3, <3>1, LeastNumber, Zenon
    <3>3. m # 1
      BY <1>1, <2>2, <3>2
    <3>4. m - 1 \in 1 .. n /\ m - 1 \notin T
      BY <1>1, <3>1, <3>2, <3>3
    <3>5. f[m - 1] = at[m - 1]
      BY <3>4
    <3>6. m \in 1 .. n /\ f[m] # at[m]
      BY <3>2, Zenon
    <3>. HIDE DEF Step, T
    <3>7. f[m] = Step(f[m - 1]) /\ at[m] = Step(at[m - 1])
      BY <1>2, <2>2, <3>3, <3>6, Zenon
    <3>. QED  BY <3>5, <3>6, <3>7, Zenon
  <2>4. \A i \in 1 .. n : f[i] = at[i]
    BY <2>3
  <2>. QED  BY <1>1, <2>1, <2>4, Zenon
<1>5. Walk(r) = at
  BY <1>3, <1>4, Zenon DEF Walk
<1>6. \A i \in 1 .. n : r.mem[at[i]].elt = es[i]
  <2>1. SUFFICES ASSUME NEW i \in 1 .. n PROVE r.mem[at[i]].elt = es[i]
    OBVIOUS
  <2>2. at[i] \in at[i] .. (at[i] + EltSize(es[i]) - 1)
    BY <1>1, SizeFacts DEF Addr
  <2>. QED  BY <2>2, Zenon DEF Layout, Written
<1>. QED  BY <1>1, <1>5, <1>6

(* An element of a layout is a part of the buffer. *)
LEMMA ElementsInside ==
  ASSUME NEW wrapped \in BOOLEAN, NEW r, NEW at, NEW es, Layout(wrapped, r, at, es),
         NEW i \in 1 .. r.numelts
  PROVE  /\ at[i] \in Addr /\ es[i] \in Elts /\ End(at, es, i) \in 1 .. Cap /\ at[i] < End(at, es, i)
         /\ EltSize(es[i]) \in 1 .. Cap /\ r.mem[at[i]].len = EltSize(es[i])
<1>1. at[i] \in Addr /\ es[i] \in Elts /\ EltSize(es[i]) \in Nat \ {0}
  BY SizeFacts DEF Layout
<1>2. End(at, es, i) - 1 \in at[i] .. (End(at, es, i) - 1)
  BY <1>1 DEF End, Addr
<1>3. End(at, es, i) - 1 \in Addr
  <2>1. Written(r.mem, at[i], es[i])
    BY Zenon DEF Layout
  <2>. QED  BY <1>1, <1>2, <2>1 DEF Written, End, Addr
<1>. QED  BY <1>1, <1>3, SizeFacts DEF Addr, End, Layout, Written

(* An element takes at least a byte, so an empty part of the buffer has none. *)
LEMMA EmptyWhenFree ==
  ASSUME NEW wrapped \in BOOLEAN, NEW r, NEW at, NEW es, Layout(wrapped, r, at, es)
  PROVE  /\ r.numelts = 0 <=> r.bytesfree = Cap
         /\ r.numelts = 0 => IF wrapped THEN r.head = r.wall /\ r.tail = 0 ELSE r.head = r.tail
<1>1. Pointers(wrapped, r) /\ r.numelts \in Nat /\ Cap \in Nat
  BY SizeFacts DEF Layout
<1>2. ASSUME r.numelts = 0 PROVE IF wrapped THEN r.head = r.wall /\ r.tail = 0 ELSE r.head = r.tail
  <2>1. \A b \in Addr : ~ Used(wrapped, r, b)
    BY <1>2 DEF Layout
  <2>2. CASE wrapped
    <3>1. ~ Used(wrapped, r, r.head) \/ r.head = Cap
      BY <1>1, <2>1 DEF Pointers, Addr
    <3>2. ~ Used(wrapped, r, 0)
      BY <1>1, <2>1, SizeFacts DEF Addr
    <3>3. /\ r.head \notin r.head .. (r.wall - 1) \/ r.head = Cap
          /\ 0 \notin 0 .. (r.tail - 1)
      BY <2>2, <3>1, <3>2, Zenon DEF Used
    <3>4. /\ r.head \in 0 .. Cap /\ r.wall \in 0 .. Cap /\ r.tail \in 0 .. Cap /\ r.head <= r.wall
      BY <1>1, <2>2, Zenon DEF Pointers
    <3>5. r.head = r.wall /\ r.tail = 0
      BY <1>1, <3>3, <3>4
    <3>. QED  BY <2>2, <3>5, Zenon
  <2>3. CASE ~wrapped
    <3>1. ~ Used(wrapped, r, r.head) \/ r.head = Cap
      BY <1>1, <2>1 DEF Pointers, Addr
    <3>. QED  BY <1>1, <2>3, <3>1 DEF Used, Pointers
  <2>. QED  BY <2>2, <2>3
<1>3. ASSUME r.numelts # 0 PROVE r.bytesfree # Cap
  <2>1. 1 \in 1 .. r.numelts
    BY <1>1, <1>3
  <2>2. PICK a, z : a = at[1] /\ z = End(at, es, 1)
    OBVIOUS
  <2>3. a \in Addr /\ z \in 1 .. Cap /\ a < z
    BY <2>1, <2>2, ElementsInside
  <2>4. Inside(wrapped, r, at, es, 1)
    BY <2>1, Zenon DEF Layout
  <2>. QED  BY <1>1, <2>2, <2>3, <2>4 DEF Inside, Pointers, Addr
<1>. QED  BY <1>1, <1>2, <1>3 DEF Pointers

(* QFULL holds exactly when head and tail meet in a buffer that wrapped, or an
   element fills all of one that did not. *)
LEMMA FullFacts ==
  ASSUME NEW wrapped \in BOOLEAN, NEW r, Pointers(wrapped, r)
  PROVE  QFULL(r) <=> IF wrapped THEN r.head = r.tail ELSE r.head = 0 /\ r.tail = Cap
<1>1. CASE wrapped
  <2>1. /\ r.head \in 0 .. Cap /\ r.wall \in 0 .. Cap /\ r.tail \in 0 .. Cap
        /\ r.bytesfree = Cap - (r.wall - r.head) - r.tail
    BY <1>1, Zenon DEF Pointers
  <2>2. QFULL(r) <=> r.head = r.tail
    BY <2>1, SizeFacts DEF QFULL, QFREESPACE
  <2>. QED  BY <1>1, <2>2, Zenon
<1>2. CASE ~wrapped
  <2>1. /\ r.head \in 0 .. Cap /\ r.wall = Cap /\ r.tail \in 0 .. Cap
        /\ r.bytesfree = Cap - (r.tail - r.head)
    BY <1>2, Zenon DEF Pointers
  <2>2. QFULL(r) <=> r.head = 0 /\ r.tail = Cap
    BY <2>1, SizeFacts, SMTT(30) DEF QFULL, QFREESPACE
  <2>. QED  BY <1>2, <2>2, Zenon
<1>. QED  BY <1>1, <1>2, Zenon

(* What Layout says of the elements, one by one. *)
LEMMA LayoutFacts ==
  ASSUME NEW wrapped \in BOOLEAN, NEW r, NEW at, NEW es, Layout(wrapped, r, at, es)
  PROVE  /\ r.numelts \in Nat /\ es \in [1 .. r.numelts -> Elts] /\ at \in [1 .. r.numelts -> Addr]
         /\ Pointers(wrapped, r) /\ Chain(r, at, es)
         /\ \A i \in 1 .. r.numelts : Written(r.mem, at[i], es[i]) /\ Inside(wrapped, r, at, es, i)
         /\ \A i, j \in 1 .. r.numelts : i # j => Apart(at, es, i, j)
         /\ \A b \in Addr : Used(wrapped, r, b) <=>
               \E i \in 1 .. r.numelts : b \in at[i] .. (End(at, es, i) - 1)
  BY Zenon DEF Layout

(* The queue with one more element, where nothing of another one is. *)
Longer(f, n, x) == [i \in 1 .. (n + 1) |-> IF i \in 1 .. n THEN f[i] ELSE x]

(* Its elements are the old ones and x. *)
LEMMA LongerFacts ==
  ASSUME NEW n \in Nat, NEW S, NEW f \in [1 .. n -> S], NEW x \in S
  PROVE  /\ Longer(f, n, x) \in [1 .. (n + 1) -> S]
         /\ \A i \in 1 .. n : Longer(f, n, x)[i] = f[i] /\ i \in 1 .. (n + 1) /\ i # n + 1
         /\ Longer(f, n, x)[n + 1] = x /\ n + 1 \in 1 .. (n + 1) /\ n + 1 \notin 1 .. n
         /\ \A i \in 1 .. (n + 1) : i \in 1 .. n \/ i = n + 1
  BY DEF Longer

(* Where there is room behind the tail, storing an element there adds it to the
   layout and writes over none of the others. *)
LEMMA StoreLayout ==
  ASSUME NEW wrapped \in BOOLEAN, NEW r \in QueueType, NEW at, NEW es, Layout(wrapped, r, at, es),
         NEW e \in Elts, ~ QFULL(r), SpaceAvail(r) >= EltSize(e), NEW s, s = StoreElt(r, e)
  PROVE  /\ s \in QueueType /\ s.numelts = r.numelts + 1
         /\ Layout(wrapped, s, Longer(at, r.numelts, r.tail), Longer(es, r.numelts, e))
<1>1. PICK n, size, t : n = r.numelts /\ size = EltSize(e) /\ t = r.tail
  BY Zenon
<1>2. n \in Nat /\ size \in Nat \ {0} /\ t \in Nat /\ Cap \in Nat \ {0}
  BY <1>1, SizeFacts DEF QueueType
<1>3. Pointers(wrapped, r)
  BY LayoutFacts, Zenon
<1>4. t + size <= Cap /\ (wrapped => t + size <= r.head)
  <2>1. CASE wrapped
    <3>1. /\ r.head \in 0 .. Cap /\ r.tail <= r.head /\ r.head # r.tail
      BY <1>3, <2>1, FullFacts, Zenon DEF Pointers
    <3>2. t + size <= Cap /\ t + size <= r.head
      BY <1>1, <1>2, <3>1 DEF SpaceAvail
    <3>. QED  BY <3>2, Zenon
  <2>2. CASE ~wrapped
    <3>1. r.head \in 0 .. Cap /\ r.head <= r.tail
      BY <1>3, <2>2, Zenon DEF Pointers
    <3>2. t + size <= Cap
      BY <1>1, <1>2, <3>1 DEF SpaceAvail
    <3>. QED  BY <2>2, <3>2, Zenon
  <2>. QED  BY <2>1, <2>2, Zenon
<1>5. /\ s.head = r.head /\ s.wall = r.wall /\ s.tail = t + size /\ s.numelts = n + 1
      /\ s.bytesfree = r.bytesfree - size
      /\ s.mem = [a \in Addr |-> IF a \in t .. (t + size - 1)
                                 THEN [len |-> IF a = t THEN size ELSE 0, elt |-> e]
                                 ELSE r.mem[a]]
  BY <1>1 DEF StoreElt, QueueType
<1>6. size <= r.bytesfree
  <2>1. CASE wrapped
    <3>1. /\ r.head \in 0 .. Cap /\ r.wall \in 0 .. Cap /\ r.head <= r.wall
          /\ r.bytesfree = Cap - (r.wall - r.head) - r.tail
      BY <1>3, <2>1, Zenon DEF Pointers
    <3>. QED  BY <1>1, <1>2, <1>4, <2>1, <3>1
  <2>2. CASE ~wrapped
    <3>1. /\ r.head \in 0 .. Cap /\ r.bytesfree = Cap - (r.tail - r.head)
      BY <1>3, <2>2, Zenon DEF Pointers
    <3>. QED  BY <1>1, <1>2, <1>4, <3>1
  <2>. QED  BY <2>1, <2>2, Zenon
<1>7. s \in QueueType
  <2>1. s.bytesfree \in 0 .. Cap /\ s.tail \in 0 .. Cap /\ s.numelts \in Nat
    BY <1>1, <1>2, <1>4, <1>5, <1>6 DEF QueueType
  <2>2. s.mem \in [Addr -> [len : 0 .. Cap, elt : Elts \cup {NoElt}]]
    <3>1. size \in 0 .. Cap /\ 0 \in 0 .. Cap /\ e \in Elts \cup {NoElt}
      BY <1>2, <1>4
    <3>2. r.mem \in [Addr -> [len : 0 .. Cap, elt : Elts \cup {NoElt}]]
      BY Zenon DEF QueueType
    <3>. QED  BY <1>5, <3>1, <3>2
  <2>. QED  BY <2>1, <2>2, Zenon DEF QueueType, StoreElt
<1>8. PICK at2, es2 : at2 = Longer(at, n, t) /\ es2 = Longer(es, n, e)
  BY Zenon
<1>9. /\ at2 \in [1 .. (n + 1) -> Addr] /\ es2 \in [1 .. (n + 1) -> Elts]
      /\ \A i \in 1 .. n : at2[i] = at[i] /\ es2[i] = es[i] /\ i \in 1 .. (n + 1) /\ i # n + 1
      /\ at2[n + 1] = t /\ es2[n + 1] = e /\ n + 1 \in 1 .. (n + 1) /\ n + 1 \notin 1 .. n
      /\ \A i \in 1 .. (n + 1) : i \in 1 .. n \/ i = n + 1
  <2>1. t \in Addr
    BY <1>2, <1>4 DEF Addr
  <2>2. es \in [1 .. n -> Elts] /\ at \in [1 .. n -> Addr]
    BY <1>1, LayoutFacts, Zenon
  <2>3. /\ Longer(at, n, t) \in [1 .. (n + 1) -> Addr]
        /\ \A i \in 1 .. n : Longer(at, n, t)[i] = at[i] /\ i \in 1 .. (n + 1) /\ i # n + 1
        /\ Longer(at, n, t)[n + 1] = t /\ n + 1 \in 1 .. (n + 1) /\ n + 1 \notin 1 .. n
        /\ \A i \in 1 .. (n + 1) : i \in 1 .. n \/ i = n + 1
    BY <1>2, <2>1, <2>2, LongerFacts, Zenon
  <2>4. /\ Longer(es, n, e) \in [1 .. (n + 1) -> Elts]
        /\ \A i \in 1 .. n : Longer(es, n, e)[i] = es[i] /\ i \in 1 .. (n + 1) /\ i # n + 1
        /\ Longer(es, n, e)[n + 1] = e /\ n + 1 \in 1 .. (n + 1) /\ n + 1 \notin 1 .. n
        /\ \A i \in 1 .. (n + 1) : i \in 1 .. n \/ i = n + 1
    BY <1>2, <2>2, LongerFacts, Zenon
  <2>. QED  BY <1>8, <2>3, <2>4, Zenon
<1>10. /\ \A i \in 1 .. n : End(at2, es2, i) = End(at, es, i)
       /\ End(at2, es2, n + 1) = t + size
  BY <1>1, <1>9, Zenon DEF End
<1>11. \A i \in 1 .. n : /\ at[i] \in Nat /\ End(at, es, i) \in Nat /\ at[i] < End(at, es, i)
                         /\ End(at, es, i) <= t \/ t + size <= at[i]
  <2>1. SUFFICES ASSUME NEW i \in 1 .. n
                 PROVE  /\ at[i] \in Nat /\ End(at, es, i) \in Nat /\ at[i] < End(at, es, i)
                        /\ End(at, es, i) <= t \/ t + size <= at[i]
    BY Zenon
  <2>2. at[i] \in Addr /\ End(at, es, i) \in 1 .. Cap /\ at[i] < End(at, es, i)
    BY <1>1, ElementsInside, Zenon
  <2>3. Inside(wrapped, r, at, es, i)
    BY <1>1, LayoutFacts, Zenon
  <2>4. r.head \in 0 .. Cap
    BY <1>3, Zenon DEF Pointers
  <2>5. \/ End(at, es, i) <= t
        \/ r.head <= at[i] /\ t + size <= r.head
    BY <1>1, <1>4, <2>3, Zenon DEF Inside
  <2>. QED  BY <1>2, <2>2, <2>4, <2>5 DEF Addr
<1>12. \A i \in 1 .. (n + 1) : Written(s.mem, at2[i], es2[i])
  <2>1. ASSUME NEW i \in 1 .. n PROVE Written(s.mem, at[i], es[i])
    <3>1. Written(r.mem, at[i], es[i]) /\ es[i] \in Elts
      BY <1>1, LayoutFacts, ElementsInside, Zenon
    <3>2. \A b \in at[i] .. (at[i] + EltSize(es[i]) - 1) : b \in Addr /\ b \notin t .. (t + size - 1)
      <4>1. /\ at[i] \in Nat /\ at[i] + EltSize(es[i]) \in Nat
            /\ at[i] + EltSize(es[i]) <= t \/ t + size <= at[i]
            /\ EltSize(es[i]) \in Nat \ {0}
        BY <1>11, <3>1, SizeFacts, Zenon DEF End
      <4>2. \A b \in at[i] .. (at[i] + EltSize(es[i]) - 1) : b \notin t .. (t + size - 1)
        BY <1>2, <4>1
      <4>. QED  BY <3>1, <4>2, Zenon DEF Written
    <3>3. at[i] \in at[i] .. (at[i] + EltSize(es[i]) - 1)
      BY <1>11, <3>1, SizeFacts
    <3>4. \A b \in at[i] .. (at[i] + EltSize(es[i]) - 1) : s.mem[b] = r.mem[b]
      BY <1>5, <3>2, Zenon
    <3>. QED  BY <3>1, <3>3, <3>4, Zenon DEF Written
  <2>2. Written(s.mem, t, e)
    <3>1. t \in t .. (t + size - 1) /\ \A b \in t .. (t + size - 1) : b \in Addr
      BY <1>2, <1>4 DEF Addr
    <3>. QED  BY <1>1, <1>5, <3>1 DEF Written
  <2>. QED  BY <1>9, <2>1, <2>2, Zenon
<1>13. Pointers(wrapped, s)
  <2>1. CASE wrapped
    <3>1. /\ r.head \in 0 .. Cap /\ r.wall \in 0 .. Cap /\ r.tail <= r.head /\ r.head <= r.wall
          /\ r.bytesfree = Cap - (r.wall - r.head) - r.tail
      BY <1>3, <2>1, Zenon DEF Pointers
    <3>2. /\ s.tail <= s.head /\ s.bytesfree = Cap - (s.wall - s.head) - s.tail /\ s.tail \in 0 .. Cap
      BY <1>1, <1>2, <1>4, <1>5, <2>1, <3>1
    <3>. QED  BY <1>5, <2>1, <3>1, <3>2, Zenon DEF Pointers
  <2>2. CASE ~wrapped
    <3>1. /\ r.head \in 0 .. Cap /\ r.wall \in 0 .. Cap /\ r.head <= r.tail /\ r.wall = Cap
          /\ r.bytesfree = Cap - (r.tail - r.head)
      BY <1>3, <2>2, Zenon DEF Pointers
    <3>2. /\ s.head <= s.tail /\ s.bytesfree = Cap - (s.tail - s.head) /\ s.tail \in 0 .. Cap
      BY <1>1, <1>2, <1>4, <1>5, <3>1, SMTT(30)
    <3>. QED  BY <1>5, <2>2, <3>1, <3>2, Zenon DEF Pointers
  <2>. QED  BY <2>1, <2>2, Zenon
<1>14. Chain(s, at2, es2)
  <2>0. Chain(r, at, es)
    BY <1>1, LayoutFacts, Zenon
  <2>1. /\ n > 0 => at[1] = IF r.head = r.wall THEN 0 ELSE r.head
        /\ \A i \in 1 .. (n - 1) :
             at[i + 1] = IF End(at, es, i) = r.wall THEN 0 ELSE End(at, es, i)
    BY <1>1, <2>0, Zenon DEF Chain
  <2>2. t # r.wall
    <3>1. CASE wrapped
      <4>1. r.head \in 0 .. Cap /\ r.wall \in 0 .. Cap /\ r.head <= r.wall
        BY <1>3, <3>1, Zenon DEF Pointers
      <4>. QED  BY <1>2, <1>4, <3>1, <4>1
    <3>2. CASE ~wrapped
      <4>1. r.wall = Cap
        BY <1>3, <3>2, Zenon DEF Pointers
      <4>. QED  BY <1>2, <1>4, <4>1
    <3>. QED  BY <3>1, <3>2, Zenon
  <2>3. at2[1] = IF r.head = r.wall THEN 0 ELSE r.head
    <3>1. CASE n = 0
      <4>1. at2[1] = t
        BY <1>9, <3>1
      <4>2. IF wrapped THEN r.head = r.wall /\ t = 0 ELSE r.head = t
        BY <1>1, <3>1, EmptyWhenFree, Zenon
      <4>. QED  BY <2>2, <4>1, <4>2, Zenon
    <3>2. CASE n # 0
      <4>1. 1 \in 1 .. n /\ n > 0
        BY <1>2, <3>2
      <4>. QED  BY <1>9, <2>1, <4>1, Zenon
    <3>. QED  BY <3>1, <3>2, Zenon
  <2>4. ASSUME NEW i \in 1 .. n
        PROVE  at2[i + 1] = IF End(at, es, i) = r.wall THEN 0 ELSE End(at, es, i)
    <3>1. CASE i = n
      <4>1. n > 0
        BY <1>2, <3>1
      <4>2. End(at, es, n) = t \/ (End(at, es, n) = r.wall /\ t = 0)
        BY <1>1, <2>0, <4>1, Zenon DEF Chain
      <4>. QED  BY <1>9, <2>2, <3>1, <4>2, Zenon
    <3>2. CASE i # n
      <4>1. i \in 1 .. (n - 1) /\ i + 1 \in 1 .. n
        BY <1>2, <3>2
      <4>. QED  BY <1>9, <2>1, <4>1, Zenon
    <3>. QED  BY <3>1, <3>2, Zenon
  <2>5. n + 1 > 0 /\ (n + 1) - 1 = n
    BY <1>2
  <2>. QED  BY <1>5, <1>10, <2>3, <2>4, <2>5 DEF Chain
<1>15. \A i \in 1 .. (n + 1) : Inside(wrapped, s, at2, es2, i)
  <2>1. r.head \in 0 .. Cap
    BY <1>3, Zenon DEF Pointers
  <2>2. \A i \in 1 .. n : End(at, es, i) <= t => End(at, es, i) <= t + size
    BY <1>2, <1>11
  <2>3. ASSUME NEW i \in 1 .. n PROVE Inside(wrapped, s, at2, es2, i)
    <3>1. Inside(wrapped, r, at, es, i)
      BY <1>1, LayoutFacts, Zenon
    <3>2. at2[i] = at[i] /\ End(at2, es2, i) = End(at, es, i)
      BY <1>9, <1>10, Zenon
    <3>. QED  BY <1>1, <1>5, <2>2, <3>1, <3>2, Zenon DEF Inside
  <2>4. Inside(wrapped, s, at2, es2, n + 1)
    <3>1. t + size <= t + size
      BY <1>2
    <3>2. ~wrapped => r.head <= t
      BY <1>1, <1>3, Zenon DEF Pointers
    <3>. QED  BY <1>5, <1>9, <1>10, <3>1, <3>2, Zenon DEF Inside
  <2>. QED  BY <1>9, <2>3, <2>4, Zenon
<1>16. \A i, j \in 1 .. (n + 1) : i # j => Apart(at2, es2, i, j)
  <2>1. \A i, j \in 1 .. n : i # j => Apart(at, es, i, j)
    BY <1>1, LayoutFacts, Zenon
  <2>. QED  BY <1>9, <1>10, <1>11, <2>1, Zenon DEF Apart
<1>17. \A b \in Addr : Used(wrapped, s, b) <=>
          \E i \in 1 .. (n + 1) : b \in at2[i] .. (End(at2, es2, i) - 1)
  <2>1. SUFFICES ASSUME NEW b \in Addr
                 PROVE  Used(wrapped, s, b) <=>
                          \E i \in 1 .. (n + 1) : b \in at2[i] .. (End(at2, es2, i) - 1)
    BY Zenon
  <2>2. Used(wrapped, r, b) <=> \E i \in 1 .. n : b \in at2[i] .. (End(at2, es2, i) - 1)
    <3>1. Used(wrapped, r, b) <=> \E i \in 1 .. n : b \in at[i] .. (End(at, es, i) - 1)
      BY <1>1, LayoutFacts, Zenon
    <3>2. \A i \in 1 .. n : at2[i] = at[i] /\ End(at2, es2, i) = End(at, es, i)
      BY <1>9, <1>10, Zenon
    <3>. QED  BY <3>1, <3>2, Zenon
  <2>3. Used(wrapped, s, b) <=> Used(wrapped, r, b) \/ b \in t .. (t + size - 1)
    <3>1. r.head \in 0 .. Cap /\ r.wall \in 0 .. Cap /\ (~wrapped => r.head <= t)
      BY <1>1, <1>3, Zenon DEF Pointers
    <3>2. b \in 0 .. (t + size - 1) <=> b \in 0 .. (t - 1) \/ b \in t .. (t + size - 1)
      BY <1>2 DEF Addr
    <3>3. CASE wrapped
      <4>1. Used(wrapped, s, b) <=> b \in r.head .. (r.wall - 1) \/ b \in 0 .. (t + size - 1)
        <5>1. Used(wrapped, s, b) <=> b \in r.head .. (r.wall - 1) \/ b \in 0 .. (s.tail - 1)
          BY <1>5, <3>3, Zenon DEF Used
        <5>. QED  BY <1>2, <1>5, <5>1
      <4>2. Used(wrapped, r, b) <=> b \in r.head .. (r.wall - 1) \/ b \in 0 .. (t - 1)
        BY <1>1, <3>3, Zenon DEF Used
      <4>. QED  BY <3>2, <4>1, <4>2, Zenon
    <3>4. CASE ~wrapped
      <4>1. b \in r.head .. (t + size - 1) <=> b \in r.head .. (t - 1) \/ b \in t .. (t + size - 1)
        <5>1. r.head <= t /\ r.head \in Nat
          BY <1>2, <3>1, <3>4
        <5>. QED  BY <1>2, <5>1 DEF Addr
      <4>2. Used(wrapped, s, b) <=> b \in r.head .. (t + size - 1)
        <5>1. Used(wrapped, s, b) <=> b \in r.head .. (s.tail - 1)
          BY <1>5, <3>4, Zenon DEF Used
        <5>. QED  BY <1>2, <1>5, <5>1
      <4>3. Used(wrapped, r, b) <=> b \in r.head .. (t - 1)
        BY <1>1, <3>4, Zenon DEF Used
      <4>. QED  BY <4>1, <4>2, <4>3, Zenon
    <3>. QED  BY <3>3, <3>4, Zenon
  <2>4. b \in at2[n + 1] .. (End(at2, es2, n + 1) - 1) <=> b \in t .. (t + size - 1)
    BY <1>2, <1>9, <1>10
  <2>5. /\ n + 1 \in 1 .. (n + 1) /\ \A i \in 1 .. n : i \in 1 .. (n + 1)
        /\ \A i \in 1 .. (n + 1) : i \in 1 .. n \/ i = n + 1
    BY <1>9, Zenon
  <2>. QED  BY <2>2, <2>3, <2>4, <2>5, Zenon
<1>18. Layout(wrapped, s, at2, es2)
  <2>1. s.numelts = n + 1 /\ n + 1 \in Nat
    BY <1>2, <1>5
  <2>. QED  BY <1>9, <1>12, <1>13, <1>14, <1>15, <1>16, <1>17, <2>1, Zenon DEF Layout
<1>. QED  BY <1>1, <1>5, <1>7, <1>8, <1>18, Zenon

(* Where nothing wrapped, the elements lie between head and tail, the last one at
   the tail. *)
LEMMA StraightFacts ==
  ASSUME NEW r, NEW at, NEW es, Layout(FALSE, r, at, es), NEW i \in 1 .. r.numelts
  PROVE  /\ r.head <= at[i] /\ at[i] < End(at, es, i) /\ End(at, es, i) <= r.tail
         /\ at[i] \in Nat /\ End(at, es, i) \in Nat
         /\ i = r.numelts => End(at, es, i) = r.tail
         /\ i # r.numelts => End(at, es, i) < r.tail
<1>1. PICK n : n = r.numelts
  BY Zenon
<1>2. n \in Nat /\ r.head \in 0 .. Cap /\ r.tail \in 0 .. Cap /\ Cap \in Nat
  BY <1>1, LayoutFacts, SizeFacts, Zenon DEF Pointers
<1>3. \A k \in 1 .. n : /\ r.head <= at[k] /\ at[k] < End(at, es, k) /\ End(at, es, k) <= r.tail
                        /\ at[k] \in Nat /\ End(at, es, k) \in Nat /\ End(at, es, k) > 0
  <2>1. SUFFICES ASSUME NEW k \in 1 .. n
                 PROVE  /\ r.head <= at[k] /\ at[k] < End(at, es, k) /\ End(at, es, k) <= r.tail
                        /\ at[k] \in Nat /\ End(at, es, k) \in Nat /\ End(at, es, k) > 0
    BY Zenon
  <2>2. at[k] \in Addr /\ End(at, es, k) \in 1 .. Cap /\ at[k] < End(at, es, k)
    BY <1>1, ElementsInside, Zenon
  <2>3. r.head <= at[k] /\ End(at, es, k) <= r.tail
    BY <1>1, LayoutFacts, Zenon DEF Inside
  <2>. QED  BY <1>2, <2>2, <2>3 DEF Addr
<1>4. n \in 1 .. n /\ n > 0
  BY <1>1, <1>2
<1>5. End(at, es, n) = r.tail
  <2>1. End(at, es, n) = r.tail \/ (End(at, es, n) = r.wall /\ r.tail = 0)
    BY <1>1, <1>4, LayoutFacts, Zenon DEF Chain
  <2>. QED  BY <1>2, <1>3, <1>4, <2>1
<1>6. ASSUME i # n PROVE End(at, es, i) < r.tail
  <2>1. End(at, es, i) <= at[n] \/ End(at, es, n) <= at[i]
    BY <1>1, <1>4, <1>6, LayoutFacts, Zenon DEF Apart
  <2>. QED  BY <1>1, <1>2, <1>3, <1>4, <1>5, <2>1
<1>. QED  BY <1>1, <1>3, <1>5, <1>6, Zenon

(* The tail moves to the start of the buffer, and the wall to where it was. *)
LEMMA WrapLayout ==
  ASSUME NEW wrapped \in BOOLEAN, NEW r \in QueueType, NEW at, NEW es, Layout(wrapped, r, at, es),
         ~ QFULL(r), r.tail >= r.head, NEW s, s = WrapTail(r)
  PROVE  s \in QueueType /\ s.numelts = r.numelts /\ Layout(TRUE, s, at, es)
<1>1. PICK n, t, h : n = r.numelts /\ t = r.tail /\ h = r.head
  BY Zenon
<1>2. Cap \in Nat \ {0} /\ n \in Nat /\ t \in 0 .. Cap /\ h \in 0 .. Cap
  BY <1>1, SizeFacts, Zenon DEF QueueType
<1>3. ~ wrapped
  <2>1. ASSUME wrapped PROVE FALSE
    <3>1. t <= h /\ h # t
      BY <1>1, <2>1, LayoutFacts, FullFacts, Zenon DEF Pointers
    <3>. QED  BY <1>1, <1>2, <3>1
  <2>. QED  BY <2>1, Zenon
<1>4. Layout(FALSE, r, at, es)
  <2>1. wrapped = FALSE
    BY <1>3, Zenon
  <2>. QED  BY <2>1, Zenon
<1>5. h <= t /\ r.wall = Cap /\ r.bytesfree = Cap - (t - h)
  BY <1>1, <1>4, LayoutFacts, Zenon DEF Pointers
<1>6. /\ s.head = h /\ s.wall = t /\ s.tail = 0 /\ s.numelts = n /\ s.bytesfree = r.bytesfree
      /\ s.mem = [a \in Addr |-> IF a >= t THEN Blank ELSE r.mem[a]]
  BY <1>1 DEF WrapTail, QueueType
<1>7. s \in QueueType
  <2>1. Blank \in [len : 0 .. Cap, elt : Elts \cup {NoElt}] /\ 0 \in 0 .. Cap
    BY <1>2 DEF Blank
  <2>2. r.mem \in [Addr -> [len : 0 .. Cap, elt : Elts \cup {NoElt}]]
    BY Zenon DEF QueueType
  <2>3. s.mem \in [Addr -> [len : 0 .. Cap, elt : Elts \cup {NoElt}]]
    BY <1>6, <2>1, <2>2
  <2>. QED  BY <1>1, <1>2, <1>6, <2>1, <2>3, Zenon DEF QueueType, WrapTail
<1>8. \A i \in 1 .. n : /\ h <= at[i] /\ at[i] < End(at, es, i) /\ End(at, es, i) <= t
                        /\ at[i] \in Nat /\ End(at, es, i) \in Nat
                        /\ i = n => End(at, es, i) = t
                        /\ i # n => End(at, es, i) < t
  BY <1>1, <1>4, StraightFacts, Zenon
<1>9. \A i \in 1 .. n : Written(s.mem, at[i], es[i])
  <2>1. SUFFICES ASSUME NEW i \in 1 .. n PROVE Written(s.mem, at[i], es[i])
    BY Zenon
  <2>2. Written(r.mem, at[i], es[i]) /\ es[i] \in Elts
    BY <1>1, LayoutFacts, ElementsInside, Zenon
  <2>3. EltSize(es[i]) \in Nat \ {0}
    BY <2>2, SizeFacts, Zenon
  <2>4. at[i] + EltSize(es[i]) <= t /\ at[i] \in Nat
    BY <1>8, Zenon DEF End
  <2>5. /\ \A b \in at[i] .. (at[i] + EltSize(es[i]) - 1) : ~ (b >= t)
        /\ at[i] \in at[i] .. (at[i] + EltSize(es[i]) - 1)
    BY <1>2, <2>3, <2>4
  <2>6. \A b \in at[i] .. (at[i] + EltSize(es[i]) - 1) : b \in Addr /\ s.mem[b] = r.mem[b]
    BY <1>6, <2>2, <2>5, Zenon DEF Written
  <2>. QED  BY <2>2, <2>5, <2>6, Zenon DEF Written
<1>10. Pointers(TRUE, s)
  <2>1. s.tail <= s.head /\ s.head <= s.wall /\ s.bytesfree = Cap - (s.wall - s.head) - s.tail
    BY <1>2, <1>5, <1>6
  <2>2. 0 \in 0 .. Cap
    BY <1>2
  <2>. QED  BY <1>2, <1>6, <2>1, <2>2, Zenon DEF Pointers
<1>11. Chain(s, at, es)
  <2>1. /\ n > 0 => at[1] = IF h = Cap THEN 0 ELSE h
        /\ \A i \in 1 .. (n - 1) :
             at[i + 1] = IF End(at, es, i) = Cap THEN 0 ELSE End(at, es, i)
    BY <1>1, <1>5, LayoutFacts DEF Chain
  <2>2. ASSUME n > 0 PROVE at[1] = (IF h = t THEN 0 ELSE h) /\ End(at, es, n) = t
    <3>1. 1 \in 1 .. n /\ n \in 1 .. n
      BY <1>2, <2>2
    <3>2. h < t
      BY <1>2, <1>8, <3>1
    <3>3. h # Cap /\ h # t
      BY <1>2, <3>2
    <3>. QED  BY <1>8, <2>1, <2>2, <3>1, <3>3, Zenon
  <2>3. ASSUME NEW i \in 1 .. (n - 1)
        PROVE  at[i + 1] = IF End(at, es, i) = t THEN 0 ELSE End(at, es, i)
    <3>1. i \in 1 .. n /\ i # n
      BY <1>2
    <3>2. End(at, es, i) # t /\ End(at, es, i) # Cap
      BY <1>2, <1>8, <3>1
    <3>. QED  BY <2>1, <3>2, Zenon
  <2>. QED  BY <1>6, <2>2, <2>3 DEF Chain
<1>12. \A i \in 1 .. n : Inside(TRUE, s, at, es, i)
  BY <1>6, <1>8, Zenon DEF Inside
<1>13. \A b \in Addr : Used(TRUE, s, b) <=> \E i \in 1 .. n : b \in at[i] .. (End(at, es, i) - 1)
  <2>1. ASSUME NEW b \in Addr PROVE Used(TRUE, s, b) <=> Used(FALSE, r, b)
    <3>1. Used(TRUE, s, b) <=> b \in h .. (t - 1) \/ b \in 0 .. (0 - 1)
      BY <1>6, Zenon DEF Used
    <3>2. Used(FALSE, r, b) <=> b \in h .. (t - 1)
      BY <1>1, Zenon DEF Used
    <3>3. b \notin 0 .. (0 - 1)
      BY DEF Addr
    <3>. QED  BY <3>1, <3>2, <3>3, Zenon
  <2>. QED  BY <1>1, <1>4, <2>1, LayoutFacts, Zenon
<1>14. /\ es \in [1 .. n -> Elts] /\ at \in [1 .. n -> Addr]
       /\ \A i, j \in 1 .. n : i # j => Apart(at, es, i, j)
  BY <1>1, LayoutFacts, Zenon
<1>15. Layout(TRUE, s, at, es)
  BY <1>2, <1>6, <1>9, <1>10, <1>11, <1>12, <1>13, <1>14, Zenon DEF Layout
<1>. QED  BY <1>1, <1>6, <1>7, <1>15, Zenon

(* s is the queue r with e put in behind es, or r with its elements where they were. *)
Enqueued(s, r, at, es, e) ==
  \E w \in BOOLEAN :
    \/ s.ret = FALSE /\ s.q.numelts = r.numelts /\ Layout(w, s.q, at, es)
    \/ /\ s.ret = TRUE /\ s.q.numelts = r.numelts + 1
       /\ \E a : Layout(w, s.q, Longer(at, r.numelts, a), Longer(es, r.numelts, e))

(* enqueue_elt refuses the element, with the tail moved or not, or stores it
   behind the others. *)
LEMMA EnqueueLayout ==
  ASSUME NEW wrapped \in BOOLEAN, NEW r \in QueueType, NEW at, NEW es, Layout(wrapped, r, at, es),
         NEW e \in Elts, NEW s, s = EnqueueElt(r, e)
  PROVE  s.q \in QueueType /\ Enqueued(s, r, at, es, e)
<1>. SUFFICES /\ s.q \in QueueType
              /\ \E w \in BOOLEAN :
                   \/ s.ret = FALSE /\ s.q.numelts = r.numelts /\ Layout(w, s.q, at, es)
                   \/ /\ s.ret = TRUE /\ s.q.numelts = r.numelts + 1
                      /\ \E a : Layout(w, s.q, Longer(at, r.numelts, a), Longer(es, r.numelts, e))
  BY Zenon DEF Enqueued
<1>1. CASE QFULL(r)
  <2>1. s.q = r /\ s.ret = FALSE
    BY <1>1, Zenon DEF EnqueueElt
  <2>. QED  BY <2>1, Zenon
<1>2. CASE ~ QFULL(r)
  <2>1. ResetWall(r) = r
    <3>1. r.wall = Cap \/ ~ (r.tail >= r.wall)
      <4>1. Pointers(wrapped, r) /\ (wrapped => r.head # r.tail)
        BY <1>2, LayoutFacts, FullFacts, Zenon
      <4>2. r.head \in 0 .. Cap /\ r.tail \in 0 .. Cap /\ r.wall \in 0 .. Cap
        BY <4>1, Zenon DEF Pointers
      <4>3. r.wall = Cap \/ (r.tail <= r.head /\ r.head <= r.wall /\ r.head # r.tail)
        BY <4>1, Zenon DEF Pointers
      <4>. QED  BY <4>2, <4>3, SizeFacts
    <3>2. r.wall = Cap => [r EXCEPT !.wall = Cap] = r
      BY DEF QueueType
    <3>. QED  BY <3>1, <3>2, Zenon DEF ResetWall
  <2>2. CASE MustWrap(r, EltSize(e))
    <3>1. PICK u : u = WrapTail(r)
      BY Zenon
    <3>2. u \in QueueType /\ u.numelts = r.numelts /\ Layout(TRUE, u, at, es)
      BY <1>2, <2>2, <3>1, WrapLayout, ZenonT(60) DEF MustWrap
    <3>3. CASE QFULL(u) \/ SpaceAvail(u) < EltSize(e)
      <4>1. s.q = u /\ s.ret = FALSE
        BY <1>2, <2>1, <2>2, <3>1, <3>3, Zenon DEF EnqueueElt
      <4>. QED  BY <3>2, <4>1, Zenon
    <3>4. CASE ~ (QFULL(u) \/ SpaceAvail(u) < EltSize(e))
      <4>1. s.q = StoreElt(u, e) /\ s.ret = TRUE
        BY <1>2, <2>1, <2>2, <3>1, <3>4, Zenon DEF EnqueueElt
      <4>2. SpaceAvail(u) >= EltSize(e)
        BY <3>2, <3>4, SizeFacts DEF SpaceAvail, QueueType
      <4>3. /\ s.q \in QueueType /\ s.q.numelts = u.numelts + 1
            /\ Layout(TRUE, s.q, Longer(at, u.numelts, u.tail), Longer(es, u.numelts, e))
        BY <3>2, <3>4, <4>1, <4>2, StoreLayout, Zenon
      <4>. QED  BY <3>2, <4>1, <4>3, Zenon
    <3>. QED  BY <3>3, <3>4, Zenon
  <2>3. CASE ~ MustWrap(r, EltSize(e))
    <3>1. CASE SpaceAvail(r) < EltSize(e)
      <4>1. s.q = r /\ s.ret = FALSE
        BY <1>2, <2>1, <2>3, <3>1, Zenon DEF EnqueueElt
      <4>. QED  BY <4>1, Zenon
    <3>2. CASE ~ (SpaceAvail(r) < EltSize(e))
      <4>1. s.q = StoreElt(r, e) /\ s.ret = TRUE
        BY <1>2, <2>1, <2>3, <3>2, Zenon DEF EnqueueElt
      <4>2. SpaceAvail(r) >= EltSize(e)
        BY <3>2, SizeFacts DEF SpaceAvail, QueueType
      <4>3. /\ s.q \in QueueType /\ s.q.numelts = r.numelts + 1
            /\ Layout(wrapped, s.q, Longer(at, r.numelts, r.tail), Longer(es, r.numelts, e))
        BY <1>2, <4>1, <4>2, StoreLayout, Zenon
      <4>. QED  BY <4>1, <4>3, Zenon
    <3>. QED  BY <3>1, <3>2, Zenon
  <2>. QED  BY <2>2, <2>3, Zenon
<1>. QED  BY <1>1, <1>2, Zenon

(* dequeue_elt first brings a head that reached the wall back to the start. *)
LEMMA PassLayout ==
  ASSUME NEW wrapped \in BOOLEAN, NEW r \in QueueType, NEW at, NEW es, Layout(wrapped, r, at, es),
         r.numelts # 0, NEW s, s = PassWall(r)
  PROVE  /\ s \in QueueType /\ s.numelts = r.numelts /\ s.head = at[1] /\ s.mem = r.mem
         /\ \E w \in BOOLEAN : Layout(w, s, at, es)
<1>1. PICK n, t, h : n = r.numelts /\ t = r.tail /\ h = r.head
  BY Zenon
<1>2. /\ Cap \in Nat \ {0} /\ n \in Nat /\ t \in 0 .. Cap /\ h \in 0 .. Cap /\ r.wall \in 0 .. Cap
      /\ 1 \in 1 .. n /\ n \in 1 .. n /\ n > 0
  BY <1>1, SizeFacts DEF QueueType
<1>3. CASE h # r.wall
  <2>1. s = r
    BY <1>1, <1>3, Zenon DEF PassWall
  <2>2. at[1] = h
    BY <1>1, <1>2, <1>3, LayoutFacts, Zenon DEF Chain
  <2>. QED  BY <1>1, <2>1, <2>2, Zenon
<1>4. CASE h = r.wall
  <2>1. wrapped
    <3>1. ASSUME ~ wrapped PROVE FALSE
      <4>1. Layout(FALSE, r, at, es) /\ r.wall = Cap
        <5>1. wrapped = FALSE
          BY <3>1, Zenon
        <5>. QED  BY <5>1, LayoutFacts, Zenon DEF Pointers
      <4>2. r.head <= at[1] /\ at[1] < End(at, es, 1) /\ End(at, es, 1) <= r.tail
            /\ at[1] \in Nat /\ End(at, es, 1) \in Nat
        BY <1>1, <1>2, <4>1, StraightFacts, Zenon
      <4>. QED  BY <1>1, <1>2, <1>4, <4>1, <4>2
    <3>. QED  BY <3>1, Zenon
  <2>2. t <= h /\ r.bytesfree = Cap - (r.wall - h) - t
    BY <1>1, <2>1, LayoutFacts, Zenon DEF Pointers
  <2>3. /\ s.head = 0 /\ s.wall = Cap /\ s.tail = t /\ s.numelts = n /\ s.bytesfree = r.bytesfree
        /\ s.mem = r.mem /\ s \in QueueType
    <3>1. 0 \in 0 .. Cap /\ Cap \in 0 .. Cap
      BY <1>2
    <3>. QED  BY <1>1, <1>4, <3>1, Zenon DEF PassWall, QueueType
  <2>4. \A i \in 1 .. n : /\ at[i] \in Nat /\ End(at, es, i) \in Nat /\ at[i] < End(at, es, i)
                          /\ End(at, es, i) <= t /\ 0 <= at[i] /\ End(at, es, i) > 0
    <3>1. SUFFICES ASSUME NEW i \in 1 .. n
                   PROVE  /\ at[i] \in Nat /\ End(at, es, i) \in Nat /\ at[i] < End(at, es, i)
                          /\ End(at, es, i) <= t /\ 0 <= at[i] /\ End(at, es, i) > 0
      BY Zenon
    <3>2. at[i] \in Addr /\ End(at, es, i) \in 1 .. Cap /\ at[i] < End(at, es, i)
      BY <1>1, ElementsInside, Zenon
    <3>3. (h <= at[i] /\ End(at, es, i) <= r.wall) \/ End(at, es, i) <= t
      BY <1>1, <2>1, LayoutFacts, Zenon DEF Inside
    <3>. QED  BY <1>2, <1>4, <3>2, <3>3 DEF Addr
  <2>5. /\ at[1] = 0
        /\ End(at, es, n) = t \/ (End(at, es, n) = r.wall /\ t = 0)
        /\ \A i \in 1 .. (n - 1) :
             at[i + 1] = IF End(at, es, i) = r.wall THEN 0 ELSE End(at, es, i)
    <3>1. Chain(r, at, es)
      BY LayoutFacts, Zenon
    <3>2. /\ at[1] = IF h = r.wall THEN 0 ELSE h
          /\ End(at, es, n) = t \/ (End(at, es, n) = r.wall /\ t = 0)
      BY <1>1, <1>2, <3>1, Zenon DEF Chain
    <3>3. \A i \in 1 .. (n - 1) :
            at[i + 1] = IF End(at, es, i) = r.wall THEN 0 ELSE End(at, es, i)
      BY <1>1, <3>1 DEF Chain
    <3>. QED  BY <1>4, <3>2, <3>3, Zenon
  <2>6. End(at, es, n) = t
    BY <1>2, <2>4, <2>5
  <2>7. ASSUME NEW i \in 1 .. (n - 1) PROVE End(at, es, i) < t /\ i \in 1 .. n
    <3>1. i \in 1 .. n /\ i # n
      BY <1>2
    <3>2. End(at, es, i) <= at[n] \/ End(at, es, n) <= at[i]
      BY <1>1, <1>2, <3>1, LayoutFacts, Zenon DEF Apart
    <3>. QED  BY <1>2, <2>4, <2>6, <3>1, <3>2
  <2>8. Chain(s, at, es)
    <3>1. \A i \in 1 .. (n - 1) : at[i + 1] = IF End(at, es, i) = Cap THEN 0 ELSE End(at, es, i)
      <4>1. SUFFICES ASSUME NEW i \in 1 .. (n - 1)
                     PROVE  at[i + 1] = IF End(at, es, i) = Cap THEN 0 ELSE End(at, es, i)
        BY Zenon
      <4>2. End(at, es, i) # Cap /\ End(at, es, i) # r.wall
        BY <1>2, <1>4, <2>2, <2>4, <2>7
      <4>. QED  BY <2>5, <4>2, Zenon
    <3>. QED  BY <1>2, <2>3, <2>5, <2>6, <3>1 DEF Chain
  <2>9. Pointers(FALSE, s)
    <3>1. s.bytesfree = Cap - (s.tail - s.head) /\ s.head <= s.tail
      BY <1>2, <1>4, <2>2, <2>3
    <3>. QED  BY <2>3, <3>1, Zenon DEF Pointers, QueueType
  <2>10. \A i \in 1 .. n : Inside(FALSE, s, at, es, i)
    BY <2>3, <2>4, Zenon DEF Inside
  <2>11. \A b \in Addr : Used(FALSE, s, b) <=> Used(TRUE, r, b)
    <3>1. SUFFICES ASSUME NEW b \in Addr PROVE Used(FALSE, s, b) <=> Used(TRUE, r, b)
      BY Zenon
    <3>2. Used(FALSE, s, b) <=> b \in 0 .. (t - 1)
      BY <2>3, Zenon DEF Used
    <3>3. Used(TRUE, r, b) <=> b \in h .. (h - 1) \/ b \in 0 .. (t - 1)
      BY <1>1, <1>4, Zenon DEF Used
    <3>4. b \notin h .. (h - 1)
      BY <1>2
    <3>. QED  BY <3>2, <3>3, <3>4, Zenon
  <2>12. wrapped = TRUE
    BY <2>1, Zenon
  <2>13. /\ es \in [1 .. n -> Elts] /\ at \in [1 .. n -> Addr]
         /\ \A i \in 1 .. n : Written(s.mem, at[i], es[i])
         /\ \A i, j \in 1 .. n : i # j => Apart(at, es, i, j)
         /\ \A b \in Addr : Used(TRUE, r, b) <=> \E i \in 1 .. n : b \in at[i] .. (End(at, es, i) - 1)
    <3>1. Layout(TRUE, r, at, es)
      BY <2>12, Zenon
    <3>2. /\ es \in [1 .. r.numelts -> Elts] /\ at \in [1 .. r.numelts -> Addr]
          /\ \A i \in 1 .. r.numelts : Written(r.mem, at[i], es[i])
          /\ \A i, j \in 1 .. r.numelts : i # j => Apart(at, es, i, j)
          /\ \A b \in Addr : Used(TRUE, r, b) <=>
                \E i \in 1 .. r.numelts : b \in at[i] .. (End(at, es, i) - 1)
      BY <3>1, Zenon DEF Layout
    <3>. QED  BY <1>1, <2>3, <3>2, Zenon
  <2>14. Layout(FALSE, s, at, es)
    BY <1>2, <2>3, <2>8, <2>9, <2>10, <2>11, <2>13, Zenon DEF Layout
  <2>. QED  BY <1>1, <2>3, <2>5, <2>14, Zenon
<1>. QED  BY <1>3, <1>4, Zenon

(* The queue without its first element. *)
Shorter(f, n) == [i \in 1 .. (n - 1) |-> f[i + 1]]

(* Its elements are the others, one place earlier. *)
LEMMA ShorterFacts ==
  ASSUME NEW n \in Nat \ {0}, NEW S, NEW f \in [1 .. n -> S]
  PROVE  /\ Shorter(f, n) \in [1 .. (n - 1) -> S]
         /\ \A i \in 1 .. (n - 1) : /\ Shorter(f, n)[i] = f[i + 1] /\ i + 1 \in 1 .. n
                                    /\ i + 1 # 1
         /\ \A j \in 1 .. n : j # 1 => \E i \in 1 .. (n - 1) : j = i + 1
<1>1. \A i \in 1 .. (n - 1) : i + 1 \in 1 .. n /\ i + 1 # 1
  OBVIOUS
<1>2. ASSUME NEW j \in 1 .. n, j # 1 PROVE \E i \in 1 .. (n - 1) : j = i + 1
  <2>1. j - 1 \in 1 .. (n - 1) /\ j = (j - 1) + 1
    BY <1>2
  <2>. QED  BY <2>1, Zenon
<1>. QED  BY <1>1, <1>2 DEF Shorter

(* dequeue_elt reads the oldest element back and frees its bytes. *)
LEMMA TakeLayout ==
  ASSUME NEW wrapped \in BOOLEAN, NEW r \in QueueType, NEW at, NEW es, Layout(wrapped, r, at, es),
         r.numelts # 0, r.head = at[1], NEW s, s = TakeElt(r)
  PROVE  /\ s \in QueueType /\ s.numelts = r.numelts - 1 /\ ReadElt(r) = es[1]
         /\ Layout(wrapped, s, Shorter(at, r.numelts), Shorter(es, r.numelts))
<1>1. PICK n, h, size : n = r.numelts /\ h = r.head /\ size = EltSize(es[1])
  BY Zenon
<1>2. /\ Cap \in Nat \ {0} /\ n \in Nat \ {0} /\ h \in 0 .. Cap /\ 1 \in 1 .. n
      /\ r.bytesfree \in 0 .. Cap /\ r.tail \in 0 .. Cap /\ r.wall \in 0 .. Cap
  BY <1>1, SizeFacts DEF QueueType
<1>3. /\ size \in 1 .. Cap /\ r.mem[h].len = size /\ h \in Addr /\ End(at, es, 1) = h + size
      /\ h + size \in 1 .. Cap
  <2>1. /\ at[1] \in Addr /\ End(at, es, 1) \in 1 .. Cap
        /\ EltSize(es[1]) \in 1 .. Cap /\ r.mem[at[1]].len = EltSize(es[1])
    <3>1. 1 \in 1 .. r.numelts
      BY <1>1, <1>2, Zenon
    <3>. QED  BY <3>1, ElementsInside
  <2>2. End(at, es, 1) = h + size
    BY <1>1, Zenon DEF End
  <2>. QED  BY <1>1, <2>1, <2>2, Zenon
<1>4. Written(r.mem, h, es[1])
  BY <1>1, <1>2, LayoutFacts, Zenon
<1>5. ReadElt(r) = es[1]
  <2>1. h \in h .. (h + size - 1)
    BY <1>2, <1>3
  <2>2. r.mem[h].elt = es[1] /\ \A a \in h .. (h + size - 1) : a \in Addr /\ r.mem[a].elt = es[1]
    BY <1>1, <1>4, <2>1, Zenon DEF Written
  <2>. QED  BY <1>1, <1>3, <2>2, Zenon DEF ReadElt
<1>6. /\ s.head = h + size /\ s.tail = r.tail /\ s.wall = r.wall /\ s.numelts = n - 1
      /\ s.bytesfree = r.bytesfree + size
      /\ s.mem = [a \in Addr |-> IF a \in h .. (h + size - 1) THEN Blank ELSE r.mem[a]]
  BY <1>1, <1>3 DEF TakeElt, QueueType
<1>7. IF wrapped THEN r.tail <= h /\ h + size <= r.wall ELSE h + size <= r.tail
  <2>1. Inside(wrapped, r, at, es, 1)
    BY <1>1, <1>2, LayoutFacts, Zenon
  <2>2. CASE wrapped
    <3>1. r.tail <= h /\ (h + size <= r.wall \/ h + size <= r.tail)
      BY <1>1, <1>3, <2>1, <2>2, LayoutFacts, Zenon DEF Inside, Pointers
    <3>2. r.tail <= h /\ h + size <= r.wall
      BY <1>2, <1>3, <3>1
    <3>. QED  BY <2>2, <3>2, Zenon
  <2>3. CASE ~ wrapped
    BY <1>3, <2>1, <2>3, Zenon DEF Inside
  <2>. QED  BY <2>2, <2>3, Zenon
<1>8. Pointers(wrapped, s)
  <2>1. CASE wrapped
    <3>1. r.tail <= h /\ h + size <= r.wall /\ r.bytesfree = Cap - (r.wall - h) - r.tail
      BY <1>1, <1>7, <2>1, LayoutFacts, Zenon DEF Pointers
    <3>2. s.tail <= s.head /\ s.head <= s.wall /\ s.bytesfree = Cap - (s.wall - s.head) - s.tail
      BY <1>2, <1>3, <1>6, <3>1
    <3>3. s.head \in 0 .. Cap
      BY <1>3, <1>6
    <3>. QED  BY <1>2, <1>6, <2>1, <3>2, <3>3, Zenon DEF Pointers
  <2>2. CASE ~ wrapped
    <3>1. h + size <= r.tail /\ r.wall = Cap /\ r.bytesfree = Cap - (r.tail - h)
      BY <1>1, <1>7, <2>2, LayoutFacts, Zenon DEF Pointers
    <3>2. s.head <= s.tail /\ s.bytesfree = Cap - (s.tail - s.head)
      BY <1>2, <1>3, <1>6, <3>1
    <3>3. s.head \in 0 .. Cap
      BY <1>3, <1>6
    <3>. QED  BY <1>2, <1>6, <2>2, <3>1, <3>2, <3>3, Zenon DEF Pointers
  <2>. QED  BY <2>1, <2>2, Zenon
<1>9. s \in QueueType
  <2>1. s.bytesfree \in 0 .. Cap
    <3>1. CASE wrapped
      <4>1. s.tail <= s.head /\ s.head <= s.wall /\ s.bytesfree = Cap - (s.wall - s.head) - s.tail
            /\ s.wall \in 0 .. Cap /\ s.head \in 0 .. Cap /\ s.tail \in 0 .. Cap
        BY <1>8, <3>1, Zenon DEF Pointers
      <4>. QED  BY <1>2, <4>1
    <3>2. CASE ~ wrapped
      <4>1. /\ s.head <= s.tail /\ s.bytesfree = Cap - (s.tail - s.head)
            /\ s.head \in 0 .. Cap /\ s.tail \in 0 .. Cap
        BY <1>8, <3>2, Zenon DEF Pointers
      <4>. QED  BY <1>2, <4>1
    <3>. QED  BY <3>1, <3>2, Zenon
  <2>2. Blank \in [len : 0 .. Cap, elt : Elts \cup {NoElt}]
    BY <1>2 DEF Blank
  <2>3. r.mem \in [Addr -> [len : 0 .. Cap, elt : Elts \cup {NoElt}]]
    BY Zenon DEF QueueType
  <2>4. s.mem \in [Addr -> [len : 0 .. Cap, elt : Elts \cup {NoElt}]]
    BY <1>6, <2>2, <2>3
  <2>5. s.head \in 0 .. Cap /\ s.numelts \in Nat
    BY <1>2, <1>3, <1>6
  <2>. QED  BY <1>6, <2>1, <2>4, <2>5, Zenon DEF QueueType, TakeElt
<1>10. PICK at2, es2 : at2 = Shorter(at, n) /\ es2 = Shorter(es, n)
  BY Zenon
<1>11. /\ at2 \in [1 .. (n - 1) -> Addr] /\ es2 \in [1 .. (n - 1) -> Elts]
       /\ \A i \in 1 .. (n - 1) : /\ at2[i] = at[i + 1] /\ es2[i] = es[i + 1] /\ i + 1 \in 1 .. n
                                  /\ i + 1 # 1
       /\ \A j \in 1 .. n : j # 1 => \E i \in 1 .. (n - 1) : j = i + 1
  <2>1. es \in [1 .. n -> Elts] /\ at \in [1 .. n -> Addr]
    BY <1>1, LayoutFacts, Zenon
  <2>2. /\ Shorter(at, n) \in [1 .. (n - 1) -> Addr]
        /\ \A i \in 1 .. (n - 1) : Shorter(at, n)[i] = at[i + 1] /\ i + 1 \in 1 .. n /\ i + 1 # 1
        /\ \A j \in 1 .. n : j # 1 => \E i \in 1 .. (n - 1) : j = i + 1
    BY <1>2, <2>1, ShorterFacts, Zenon
  <2>3. /\ Shorter(es, n) \in [1 .. (n - 1) -> Elts]
        /\ \A i \in 1 .. (n - 1) : Shorter(es, n)[i] = es[i + 1] /\ i + 1 \in 1 .. n /\ i + 1 # 1
        /\ \A j \in 1 .. n : j # 1 => \E i \in 1 .. (n - 1) : j = i + 1
    BY <1>2, <2>1, ShorterFacts, Zenon
  <2>. QED  BY <1>10, <2>2, <2>3, Zenon
<1>12. \A i \in 1 .. (n - 1) : End(at2, es2, i) = End(at, es, i + 1)
  BY <1>11, Zenon DEF End
<1>13. \A j \in 1 .. n : j # 1 =>
          /\ at[j] \in Nat /\ End(at, es, j) \in Nat /\ at[j] < End(at, es, j)
          /\ h + size <= at[j] \/ End(at, es, j) <= h
  <2>1. SUFFICES ASSUME NEW j \in 1 .. n, j # 1
                 PROVE  /\ at[j] \in Nat /\ End(at, es, j) \in Nat /\ at[j] < End(at, es, j)
                        /\ h + size <= at[j] \/ End(at, es, j) <= h
    BY Zenon
  <2>2. at[j] \in Addr /\ End(at, es, j) \in 1 .. Cap /\ at[j] < End(at, es, j)
    BY <1>1, ElementsInside, Zenon
  <2>3. Apart(at, es, 1, j)
    BY <1>1, <1>2, <2>1, LayoutFacts, Zenon
  <2>4. h + size <= at[j] \/ End(at, es, j) <= h
    BY <1>1, <1>3, <2>3, Zenon DEF Apart
  <2>. QED  BY <1>2, <2>2, <2>4 DEF Addr
<1>14. \A j \in 1 .. n : j # 1 => Written(s.mem, at[j], es[j])
  <2>1. SUFFICES ASSUME NEW j \in 1 .. n, j # 1 PROVE Written(s.mem, at[j], es[j])
    BY Zenon
  <2>2. Written(r.mem, at[j], es[j]) /\ es[j] \in Elts
    BY <1>1, LayoutFacts, ElementsInside, Zenon
  <2>3. EltSize(es[j]) \in Nat \ {0} /\ at[j] \in Nat
    BY <1>13, <2>1, <2>2, SizeFacts, Zenon
  <2>4. h + size <= at[j] \/ at[j] + EltSize(es[j]) <= h
    BY <1>13, <2>1, Zenon DEF End
  <2>5. /\ \A b \in at[j] .. (at[j] + EltSize(es[j]) - 1) : b \notin h .. (h + size - 1)
        /\ at[j] \in at[j] .. (at[j] + EltSize(es[j]) - 1)
    BY <1>2, <1>3, <2>3, <2>4
  <2>6. \A b \in at[j] .. (at[j] + EltSize(es[j]) - 1) : b \in Addr /\ s.mem[b] = r.mem[b]
    BY <1>6, <2>2, <2>5, Zenon DEF Written
  <2>. QED  BY <2>2, <2>5, <2>6, Zenon DEF Written
<1>15. Chain(s, at2, es2)
  <2>1. Chain(r, at, es)
    BY LayoutFacts, Zenon
  <2>2. /\ End(at, es, n) = r.tail \/ (End(at, es, n) = r.wall /\ r.tail = 0)
        /\ \A i \in 1 .. (n - 1) :
             at[i + 1] = IF End(at, es, i) = r.wall THEN 0 ELSE End(at, es, i)
    <3>1. n > 0
      BY <1>2
    <3>. QED  BY <1>1, <2>1, <3>1 DEF Chain
  <2>3. ASSUME n - 1 > 0
        PROVE  /\ at2[1] = IF h + size = r.wall THEN 0 ELSE h + size
               /\ \/ End(at2, es2, n - 1) = r.tail
                  \/ End(at2, es2, n - 1) = r.wall /\ r.tail = 0
    <3>1. 1 \in 1 .. (n - 1) /\ n - 1 \in 1 .. (n - 1) /\ (n - 1) + 1 = n
      BY <1>2, <2>3
    <3>2. at2[1] = at[1 + 1] /\ End(at2, es2, n - 1) = End(at, es, n)
      BY <1>11, <1>12, <3>1
    <3>. QED  BY <1>3, <2>2, <3>1, <3>2, Zenon
  <2>4. ASSUME NEW i \in 1 .. ((n - 1) - 1)
        PROVE  at2[i + 1] = IF End(at2, es2, i) = r.wall THEN 0 ELSE End(at2, es2, i)
    <3>1. i \in 1 .. (n - 1) /\ i + 1 \in 1 .. (n - 1)
      BY <1>2
    <3>2. at2[i + 1] = at[(i + 1) + 1] /\ End(at2, es2, i) = End(at, es, i + 1)
      BY <1>11, <1>12, <3>1, Zenon
    <3>. QED  BY <2>2, <3>1, <3>2, Zenon
  <2>. QED  BY <1>6, <2>3, <2>4 DEF Chain
<1>16. \A j \in 1 .. n : j # 1 => Inside(wrapped, s, at, es, j)
  <2>1. SUFFICES ASSUME NEW j \in 1 .. n, j # 1 PROVE Inside(wrapped, s, at, es, j)
    BY Zenon
  <2>2. Inside(wrapped, r, at, es, j)
    BY <1>1, LayoutFacts, Zenon
  <2>3. PICK a, z : a = at[j] /\ z = End(at, es, j)
    BY Zenon
  <2>4. a \in Nat /\ z \in Nat /\ a < z /\ (h + size <= a \/ z <= h)
    BY <1>13, <2>1, <2>3, Zenon
  <2>5. h <= a => h + size <= a
    BY <1>2, <1>3, <2>4
  <2>. QED  BY <1>1, <1>6, <2>2, <2>3, <2>5, Zenon DEF Inside
<1>17. \A b \in Addr : Used(wrapped, s, b) <=>
          \E i \in 1 .. (n - 1) : b \in at2[i] .. (End(at2, es2, i) - 1)
  <2>1. SUFFICES ASSUME NEW b \in Addr
                 PROVE  Used(wrapped, s, b) <=>
                          \E i \in 1 .. (n - 1) : b \in at2[i] .. (End(at2, es2, i) - 1)
    BY Zenon
  <2>2. (\E i \in 1 .. (n - 1) : b \in at2[i] .. (End(at2, es2, i) - 1))
          <=> \E j \in 1 .. n : j # 1 /\ b \in at[j] .. (End(at, es, j) - 1)
    <3>1. ASSUME NEW i \in 1 .. (n - 1)
          PROVE  /\ at2[i] = at[i + 1] /\ End(at2, es2, i) = End(at, es, i + 1)
                 /\ i + 1 \in 1 .. n /\ i + 1 # 1
      BY <1>11, <1>12, Zenon
    <3>2. \A j \in 1 .. n : j # 1 => \E i \in 1 .. (n - 1) : j = i + 1
      BY <1>11, Zenon
    <3>. QED  BY <3>1, <3>2, Zenon
  <2>3. Used(wrapped, r, b) <=> \E j \in 1 .. n : b \in at[j] .. (End(at, es, j) - 1)
    BY <1>1, LayoutFacts, Zenon
  <2>4. b \in at[1] .. (End(at, es, 1) - 1) <=> b \in h .. (h + size - 1)
    BY <1>1, <1>2, <1>3
  <2>5. \A j \in 1 .. n : j # 1 /\ b \in at[j] .. (End(at, es, j) - 1) => b \notin h .. (h + size - 1)
    <3>1. SUFFICES ASSUME NEW j \in 1 .. n, j # 1, b \in at[j] .. (End(at, es, j) - 1)
                   PROVE  b \notin h .. (h + size - 1)
      BY Zenon
    <3>2. /\ at[j] \in Nat /\ End(at, es, j) \in Nat
          /\ h + size <= at[j] \/ End(at, es, j) <= h
      BY <1>13, <3>1, Zenon
    <3>. QED  BY <1>2, <1>3, <3>1, <3>2
  <2>6. Used(wrapped, s, b) <=> Used(wrapped, r, b) /\ b \notin h .. (h + size - 1)
    <3>1. CASE wrapped
      <4>1. Used(wrapped, s, b) <=> b \in (h + size) .. (r.wall - 1) \/ b \in 0 .. (r.tail - 1)
        <5>1. Used(wrapped, s, b) <=> b \in s.head .. (s.wall - 1) \/ b \in 0 .. (s.tail - 1)
          BY <3>1, Zenon DEF Used
        <5>. QED  BY <1>6, <5>1
      <4>2. Used(wrapped, r, b) <=> b \in h .. (r.wall - 1) \/ b \in 0 .. (r.tail - 1)
        BY <1>1, <3>1, Zenon DEF Used
      <4>3. r.tail <= h /\ h + size <= r.wall
        BY <1>7, <3>1, Zenon
      <4>. QED  BY <1>2, <1>3, <4>1, <4>2, <4>3 DEF Addr
    <3>2. CASE ~ wrapped
      <4>1. Used(wrapped, s, b) <=> b \in (h + size) .. (r.tail - 1)
        <5>1. Used(wrapped, s, b) <=> b \in s.head .. (s.tail - 1)
          BY <3>2, Zenon DEF Used
        <5>. QED  BY <1>6, <5>1
      <4>2. Used(wrapped, r, b) <=> b \in h .. (r.tail - 1)
        BY <1>1, <3>2, Zenon DEF Used
      <4>. QED  BY <1>2, <1>3, <4>1, <4>2 DEF Addr
    <3>. QED  BY <3>1, <3>2, Zenon
  <2>. QED  BY <1>2, <2>2, <2>3, <2>4, <2>5, <2>6, Zenon
<1>18. Layout(wrapped, s, at2, es2)
  <2>1. \A i \in 1 .. (n - 1) : Written(s.mem, at2[i], es2[i])
    BY <1>11, <1>14, Zenon
  <2>2. ASSUME NEW i \in 1 .. (n - 1) PROVE Inside(wrapped, s, at2, es2, i)
    <3>1. Inside(wrapped, s, at, es, i + 1)
      BY <1>11, <1>16, Zenon
    <3>2. at2[i] = at[i + 1] /\ End(at2, es2, i) = End(at, es, i + 1)
      BY <1>11, <1>12, Zenon
    <3>. QED  BY <3>1, <3>2, Zenon DEF Inside
  <2>3. ASSUME NEW i \in 1 .. (n - 1), NEW j \in 1 .. (n - 1), i # j PROVE Apart(at2, es2, i, j)
    <3>1. i + 1 \in 1 .. n /\ j + 1 \in 1 .. n /\ i + 1 # j + 1
      BY <1>2, <2>3
    <3>2. Apart(at, es, i + 1, j + 1)
      BY <1>1, <3>1, LayoutFacts, Zenon
    <3>3. /\ at2[i] = at[i + 1] /\ End(at2, es2, i) = End(at, es, i + 1)
          /\ at2[j] = at[j + 1] /\ End(at2, es2, j) = End(at, es, j + 1)
      BY <1>11, <1>12, Zenon
    <3>. QED  BY <3>2, <3>3, Zenon DEF Apart
  <2>4. s.numelts = n - 1 /\ n - 1 \in Nat
    BY <1>2, <1>6
  <2>. QED  BY <1>8, <1>11, <1>15, <1>17, <2>1, <2>2, <2>3, <2>4, Zenon DEF Layout
<1>. QED  BY <1>1, <1>5, <1>6, <1>9, <1>10, <1>18, Zenon

(* Adding x behind the others is appending it. *)
LEMMA LongerIsAppend ==
  ASSUME NEW n \in Nat, NEW S, NEW f \in [1 .. n -> S], NEW x \in S
  PROVE  Longer(f, n, x) = Append(f, x)
<1>1. f \in Seq(S) /\ Len(f) = n
  OBVIOUS
<1>2. Append(f, x) \in Seq(S) /\ Len(Append(f, x)) = n + 1
  BY <1>1
<1>3. Append(f, x) \in [1 .. (n + 1) -> S]
  BY <1>2, LenProperties, Zenon
<1>4. \A i \in 1 .. (n + 1) : Append(f, x)[i] = IF i = n + 1 THEN x ELSE f[i]
  BY <1>1
<1>5. Longer(f, n, x) \in [1 .. (n + 1) -> S]
  BY LongerFacts, Zenon
<1>6. \A i \in 1 .. (n + 1) : Longer(f, n, x)[i] = Append(f, x)[i]
  BY <1>4 DEF Longer
<1>. QED  BY <1>3, <1>5, <1>6

(* Dropping the first element is taking the tail. *)
LEMMA ShorterIsTail ==
  ASSUME NEW n \in Nat \ {0}, NEW S, NEW f \in [1 .. n -> S]
  PROVE  Shorter(f, n) = Tail(f) /\ Head(f) = f[1] /\ f # <<>>
<1>1. f \in Seq(S) /\ Len(f) = n
  OBVIOUS
<1>2. f # <<>> /\ Head(f) = f[1]
  BY <1>1
<1>3. Tail(f) \in Seq(S) /\ Len(Tail(f)) = n - 1 /\ n - 1 \in Nat
  BY <1>1, <1>2
<1>4. Tail(f) \in [1 .. (n - 1) -> S]
  BY <1>3, LenProperties, Zenon
<1>5. \A i \in 1 .. (n - 1) : Tail(f)[i] = f[i + 1]
  BY <1>1, <1>2
<1>. QED  BY <1>2, <1>4, <1>5, Zenon DEF Shorter

-----------------------------------------------------------------------------
(* The inductive invariant. *)

QueueInv == q \in QueueType /\ out \in [ret : BOOLEAN, elt : Elts \cup {NoElt}] /\ Tiled

(* A queue of no elements, as InitQueue and clear_queue leave it. *)
LEMMA EmptyLayout ==
  ASSUME NEW mem \in [Addr -> [len : 0 .. Cap, elt : Elts \cup {NoElt}]],
         NEW r, r = [EmptyQueue EXCEPT !.mem = mem]
  PROVE  r \in QueueType /\ r.numelts = 0 /\ Layout(FALSE, r, <<>>, <<>>)
<1>1. /\ r.head = 0 /\ r.tail = 0 /\ r.wall = Cap /\ r.bytesfree = Cap /\ r.numelts = 0
      /\ r = [head |-> 0, tail |-> 0, wall |-> Cap, bytesfree |-> Cap, numelts |-> 0, mem |-> mem]
  <2>. DEFINE blank == [a \in Addr |-> Blank]
  <2>. HIDE DEF blank
  <2>1. r = [[head |-> 0, tail |-> 0, wall |-> Cap, bytesfree |-> Cap, numelts |-> 0,
             mem |-> blank] EXCEPT !.mem = mem]
    BY Zenon DEF EmptyQueue, blank
  <2>. QED  BY <2>1, Zenon
<1>2. Cap \in Nat \ {0}
  BY SizeFacts, Zenon
<1>3. r \in QueueType
  <2>1. 0 \in 0 .. Cap /\ Cap \in 0 .. Cap /\ 0 \in Nat
    BY <1>2
  <2>. QED  BY <1>1, <2>1, Zenon DEF QueueType
<1>4. \A i \in 1 .. 0 : FALSE
  OBVIOUS
<1>5. \A i \in 1 .. (0 - 1) : FALSE
  OBVIOUS
<1>6. <<>> \in [1 .. 0 -> Elts] /\ <<>> \in [1 .. 0 -> Addr]
  OBVIOUS
<1>7. Pointers(FALSE, r)
  <2>1. 0 \in 0 .. Cap /\ Cap \in 0 .. Cap /\ 0 <= 0 /\ Cap = Cap - (0 - 0)
    BY <1>2
  <2>. QED  BY <1>1, <2>1, Zenon DEF Pointers
<1>8. Chain(r, <<>>, <<>>)
  <2>1. ~ (0 > 0)
    OBVIOUS
  <2>. QED  BY <1>1, <1>5, <2>1, Zenon DEF Chain
<1>9. \A b \in Addr : ~ Used(FALSE, r, b)
  <2>1. \A b : b \notin 0 .. (0 - 1)
    OBVIOUS
  <2>. QED  BY <1>1, <2>1, Zenon DEF Used
<1>10. 0 \in Nat
  OBVIOUS
<1>. QED  BY <1>1, <1>3, <1>4, <1>6, <1>7, <1>8, <1>9, <1>10, Zenon DEF Layout

(* InitQueue leaves a queue of no elements. *)
LEMMA QueueInvInit == Init => QueueInv /\ Contents = <<>>
<1>. SUFFICES ASSUME Init PROVE QueueInv /\ Contents = <<>>
  OBVIOUS
<1>1. [a \in Addr |-> Blank] \in [Addr -> [len : 0 .. Cap, elt : Elts \cup {NoElt}]]
  <2>1. 0 \in 0 .. Cap
    BY SizeFacts
  <2>2. Blank \in [len : 0 .. Cap, elt : Elts \cup {NoElt}]
    BY <2>1 DEF Blank
  <2>. QED  BY <2>2
<1>2. q = [EmptyQueue EXCEPT !.mem = [a \in Addr |-> Blank]]
  BY DEF Init, EmptyQueue
<1>3. q \in QueueType /\ q.numelts = 0 /\ Layout(FALSE, q, <<>>, <<>>)
  BY <1>1, <1>2, EmptyLayout, Zenon
<1>4. out \in [ret : BOOLEAN, elt : Elts \cup {NoElt}]
  BY DEF Init, Answer
<1>5. Contents = <<>>
  BY <1>3, WalkFindsLayout, LiveIsWalk, Zenon
<1>. QED  BY <1>3, <1>4, <1>5, Zenon DEF QueueInv, Tiled

(* Under the invariant the walk of the code reads the layout. *)
LEMMA LayoutIsContents ==
  /\ \A w \in BOOLEAN : \A at, es : Layout(w, q, at, es) => LiveAddr = at /\ Contents = es
  /\ \A w \in BOOLEAN : \A at, es : Layout(w, q', at, es) => LiveAddr' = at /\ Contents' = es
  BY WalkFindsLayout, LiveIsWalk, Zenon

-----------------------------------------------------------------------------
(* Every step keeps the invariant and is a step of the abstract queue. *)

(* enqueue_elt puts the element at the end, or refuses it and loses nothing, even
   when it moved the tail to the start of the buffer before refusing. *)
LEMMA EnqueueStep ==
  ASSUME QueueInv, NEW e \in Elts, Enqueue(e)
  PROVE  QueueInv' /\ (Abstract!Put(e) \/ Abstract!Refuse)
<1>1. PICK w0 \in BOOLEAN : \E at, es : Layout(w0, q, at, es)
  BY Zenon DEF QueueInv, Tiled
<1>2. PICK at, es : Layout(w0, q, at, es)
  BY <1>1, Zenon
<1>3. q \in QueueType /\ Contents = es
  BY <1>2, LayoutIsContents, Zenon DEF QueueInv
<1>4. q.numelts \in Nat /\ es \in [1 .. q.numelts -> Elts]
  BY <1>2, Zenon DEF Layout
<1>5. PICK s : s = EnqueueElt(q, e)
  BY Zenon
<1>6. q' = s.q /\ out' = [ret |-> s.ret, elt |-> NoElt]
  BY <1>5, Zenon DEF Enqueue, Answer
<1>7. s.q \in QueueType /\ Enqueued(s, q, at, es, e)
  BY <1>2, <1>3, <1>5, EnqueueLayout, Zenon
<1>8. PICK w \in BOOLEAN :
           \/ s.ret = FALSE /\ Layout(w, q', at, es)
           \/ /\ s.ret = TRUE
              /\ \E a : Layout(w, q', Longer(at, q.numelts, a), Longer(es, q.numelts, e))
  BY <1>6, <1>7, Zenon DEF Enqueued
<1>9. CASE s.ret = FALSE /\ Layout(w, q', at, es)
  <2>1. Contents' = es /\ Tiled'
    BY <1>9, LayoutIsContents, Zenon DEF Tiled
  <2>2. out' \in [ret : BOOLEAN, elt : Elts \cup {NoElt}]
    BY <1>6, <1>9, Zenon
  <2>3. Abstract!Refuse
    BY <1>3, <1>6, <1>9, <2>1, Zenon DEF Abstract!Refuse, Abstract!Answer, Abstract!NoElt, NoElt
  <2>. QED  BY <1>6, <1>7, <2>1, <2>2, <2>3, Zenon DEF QueueInv
<1>10. CASE /\ s.ret = TRUE
            /\ \E a : Layout(w, q', Longer(at, q.numelts, a), Longer(es, q.numelts, e))
  <2>1. Contents' = Longer(es, q.numelts, e) /\ Tiled'
    BY <1>10, LayoutIsContents, Zenon DEF Tiled
  <2>2. out' \in [ret : BOOLEAN, elt : Elts \cup {NoElt}]
    BY <1>6, <1>10, Zenon
  <2>3. Longer(es, q.numelts, e) = Append(es, e)
    BY <1>4, LongerIsAppend, Zenon
  <2>4. Abstract!Put(e)
    BY <1>3, <1>6, <1>10, <2>1, <2>3, Zenon DEF Abstract!Put, Abstract!Answer, Abstract!NoElt, NoElt
  <2>. QED  BY <1>6, <1>7, <2>1, <2>2, <2>4, Zenon DEF QueueInv
<1>. QED  BY <1>8, <1>9, <1>10, Zenon

(* dequeue_elt finds nothing exactly when there is nothing: bytesfree does not lie. *)
LEMMA DequeueNothingStep ==
  ASSUME QueueInv, DequeueNothing
  PROVE  QueueInv' /\ Abstract!GetNothing
<1>1. PICK w \in BOOLEAN : \E at, es : Layout(w, q, at, es)
  BY Zenon DEF QueueInv, Tiled
<1>2. PICK at, es : Layout(w, q, at, es)
  BY <1>1, Zenon
<1>3. q' = q /\ q.bytesfree = Cap /\ out' = [ret |-> FALSE, elt |-> NoElt]
  BY Zenon DEF DequeueNothing, QEMPTY, Answer
<1>4. q.numelts = 0 /\ Contents = es /\ Contents' = es /\ es \in [1 .. q.numelts -> Elts]
  BY <1>2, <1>3, EmptyWhenFree, LayoutIsContents, Zenon DEF Layout
<1>5. es = <<>>
  BY <1>4
<1>6. Abstract!GetNothing
  BY <1>3, <1>4, <1>5, Zenon DEF Abstract!GetNothing, Abstract!Answer, Abstract!NoElt, NoElt
<1>7. out' \in [ret : BOOLEAN, elt : Elts \cup {NoElt}]
  BY <1>3
<1>8. q' \in QueueType /\ Tiled'
  BY <1>3, Zenon DEF QueueInv, Tiled
<1>. QED  BY <1>6, <1>7, <1>8, Zenon DEF QueueInv

(* dequeue_elt returns the oldest element, as it was put in. *)
LEMMA DequeueStep ==
  ASSUME QueueInv, Dequeue
  PROVE  QueueInv' /\ Abstract!Get
<1>1. PICK w0 \in BOOLEAN : \E at, es : Layout(w0, q, at, es)
  BY Zenon DEF QueueInv, Tiled
<1>2. PICK at, es : Layout(w0, q, at, es)
  BY <1>1, Zenon
<1>3. q \in QueueType /\ Contents = es /\ q.numelts # 0
  BY <1>2, LayoutIsContents, EmptyWhenFree, Zenon DEF QueueInv, Dequeue, QEMPTY
<1>4. q.numelts \in Nat /\ es \in [1 .. q.numelts -> Elts]
  BY <1>2, Zenon DEF Layout
<1>5. PICK r : r = PassWall(q)
  BY Zenon
<1>6. /\ r \in QueueType /\ r.numelts = q.numelts /\ r.head = at[1]
      /\ \E w \in BOOLEAN : Layout(w, r, at, es)
  BY <1>2, <1>3, <1>5, PassLayout
<1>7. PICK w \in BOOLEAN : Layout(w, r, at, es)
  BY <1>6, Zenon
<1>8. q' = TakeElt(r) /\ out' = [ret |-> TRUE, elt |-> ReadElt(r)]
  BY <1>5, Zenon DEF Dequeue, Answer
<1>9. /\ q' \in QueueType /\ ReadElt(r) = es[1]
      /\ Layout(w, q', Shorter(at, r.numelts), Shorter(es, r.numelts))
  <2>1. r.numelts # 0
    BY <1>3, <1>6, Zenon
  <2>. QED  BY <1>6, <1>7, <1>8, <2>1, TakeLayout
<1>10. Contents' = Shorter(es, q.numelts) /\ Tiled'
  <2>1. Contents' = Shorter(es, r.numelts) /\ Tiled'
    BY <1>9, LayoutIsContents, Zenon DEF Tiled
  <2>. QED  BY <1>6, <2>1, Zenon
<1>11. Contents # <<>> /\ Contents' = Tail(Contents) /\ es[1] = Head(Contents)
  <2>1. Shorter(es, q.numelts) = Tail(es) /\ Head(es) = es[1] /\ es # <<>>
    <3>1. q.numelts \in Nat \ {0}
      BY <1>3, <1>4
    <3>. QED  BY <1>4, <3>1, ShorterIsTail, Zenon
  <2>. QED  BY <1>3, <1>10, <2>1, Zenon
<1>12. Abstract!Get
  BY <1>8, <1>9, <1>11, Zenon DEF Abstract!Get, Abstract!Answer
<1>13. out' \in [ret : BOOLEAN, elt : Elts \cup {NoElt}]
  <2>1. 1 \in 1 .. q.numelts
    BY <1>3, <1>4
  <2>2. es[1] \in Elts
    BY <1>4, <2>1, Zenon
  <2>. QED  BY <1>8, <1>9, <2>2
<1>. QED  BY <1>9, <1>10, <1>12, <1>13, Zenon DEF QueueInv

(* clear_queue forgets every element, though their bytes stay in the buffer. *)
LEMMA ClearStep ==
  ASSUME QueueInv, clear_queue
  PROVE  QueueInv' /\ Abstract!Clear
<1>1. q.mem \in [Addr -> [len : 0 .. Cap, elt : Elts \cup {NoElt}]]
  BY Zenon DEF QueueInv, QueueType
<1>2. q' = [EmptyQueue EXCEPT !.mem = q.mem] /\ out' = [ret |-> TRUE, elt |-> NoElt]
  BY Zenon DEF clear_queue, Answer
<1>3. q' \in QueueType /\ Layout(FALSE, q', <<>>, <<>>)
  BY <1>1, <1>2, EmptyLayout, Zenon
<1>4. Contents' = <<>> /\ Tiled'
  BY <1>3, LayoutIsContents, Zenon DEF Tiled
<1>5. Abstract!Clear
  BY <1>2, <1>4, Zenon DEF Abstract!Clear, Abstract!Answer, Abstract!NoElt, NoElt
<1>6. out' \in [ret : BOOLEAN, elt : Elts \cup {NoElt}]
  BY <1>2
<1>. QED  BY <1>3, <1>4, <1>5, <1>6, Zenon DEF QueueInv

(* The step of the induction, for every call. *)
LEMMA QueueInvStep ==
  ASSUME QueueInv, [Next]_vars
  PROVE  QueueInv' /\ [Abstract!Next]_(Abstract!vars)
<1>1. CASE \E e \in Elts : Enqueue(e)
  BY <1>1, EnqueueStep, Zenon DEF Abstract!Next
<1>2. CASE DequeueNothing
  BY <1>2, DequeueNothingStep, Zenon DEF Abstract!Next
<1>3. CASE Dequeue
  BY <1>3, DequeueStep, Zenon DEF Abstract!Next
<1>4. CASE clear_queue
  BY <1>4, ClearStep, Zenon DEF Abstract!Next
<1>5. CASE UNCHANGED vars
  <2>1. q' = q /\ out' = out
    BY <1>5, Zenon DEF vars
  <2>2. QueueInv'
    BY <2>1, Zenon DEF QueueInv, Tiled
  <2>3. Contents' = Contents
    BY <2>1, LiveIsWalk, Zenon
  <2>. QED  BY <2>1, <2>2, <2>3, Zenon DEF Abstract!vars
<1>. QED  BY <1>1, <1>2, <1>3, <1>4, <1>5, Zenon DEF Next

-----------------------------------------------------------------------------
(* What the layout says about the buffer. *)

(* Every element takes at least a byte, so a buffer of Cap bytes holds at most Cap. *)
LEMMA AtMostCap ==
  ASSUME NEW wrapped \in BOOLEAN, NEW r, NEW at, NEW es, Layout(wrapped, r, at, es)
  PROVE  r.numelts \in 0 .. Cap
<1>1. PICK n : n = r.numelts
  BY Zenon
<1>2. n \in Nat /\ at \in [1 .. n -> Addr] /\ \A i, j \in 1 .. n : i # j => Apart(at, es, i, j)
  BY <1>1, Zenon DEF Layout
<1>3. \A i \in 1 .. n : at[i] \in Addr /\ at[i] < End(at, es, i) /\ End(at, es, i) \in 1 .. Cap
  BY <1>1, ElementsInside, Zenon
<1>4. \A i, j \in 1 .. n : at[i] = at[j] => i = j
  <2>1. SUFFICES ASSUME NEW i \in 1 .. n, NEW j \in 1 .. n, at[i] = at[j], i # j PROVE FALSE
    BY Zenon
  <2>2. End(at, es, i) <= at[j] \/ End(at, es, j) <= at[i]
    BY <1>2, <2>1, Zenon DEF Apart
  <2>. QED  BY <1>3, <2>1, <2>2 DEF Addr
<1>5. at \in Injection(1 .. n, Addr)
  BY <1>2, <1>4 DEF Injection, IsInjective
<1>6. Cap \in Nat \ {0} /\ 0 \in Int /\ Cap - 1 \in Int /\ 1 \in Int /\ n \in Int
  BY <1>2, SizeFacts
<1>7. IsFiniteSet(Addr) /\ Cardinality(Addr) = IF 0 > Cap - 1 THEN 0 ELSE Cap - 1 - 0 + 1
  BY <1>6, FS_Interval, Zenon DEF Addr
<1>8. Cardinality(1 .. n) = IF 1 > n THEN 0 ELSE n - 1 + 1
  BY <1>6, FS_Interval, Zenon
<1>9. Cardinality(1 .. n) <= Cardinality(Addr)
  BY <1>5, <1>7, FS_Injection, Zenon
<1>. QED  BY <1>1, <1>2, <1>6, <1>7, <1>8, <1>9

(* How many bytes lie between head and tail. *)
LEMMA UsedBytes ==
  ASSUME NEW wrapped \in BOOLEAN, NEW r, Pointers(wrapped, r)
  PROVE  Cardinality({b \in Addr : Used(wrapped, r, b)}) = Cap - r.bytesfree
<1>1. PICK h, t, w, S : /\ h = r.head /\ t = r.tail /\ w = r.wall
                        /\ S = {b \in Addr : Used(wrapped, r, b)}
  BY Zenon
<1>2. /\ h \in 0 .. Cap /\ t \in 0 .. Cap /\ w \in 0 .. Cap /\ Cap \in Nat \ {0}
  BY <1>1, SizeFacts, Zenon DEF Pointers
<1>3. CASE ~ wrapped
  <2>1. h <= t /\ r.bytesfree = Cap - (t - h)
    BY <1>1, <1>3, Zenon DEF Pointers
  <2>2. \A b \in Addr : Used(wrapped, r, b) <=> b \in h .. (t - 1)
    BY <1>1, <1>3, Zenon DEF Used
  <2>3. h .. (t - 1) \subseteq Addr
    BY <1>2 DEF Addr
  <2>4. S = h .. (t - 1)
    BY <1>1, <2>2, <2>3, Zenon
  <2>5. h \in Int /\ t - 1 \in Int
    BY <1>2
  <2>6. Cardinality(S) = IF h > t - 1 THEN 0 ELSE t - 1 - h + 1
    BY <2>4, <2>5, FS_Interval, Zenon
  <2>. QED  BY <1>1, <1>2, <2>1, <2>6
<1>4. CASE wrapped
  <2>. DEFINE A == h .. (w - 1)
              B == 0 .. (t - 1)
  <2>1. t <= h /\ h <= w /\ r.bytesfree = Cap - (w - h) - t
    BY <1>1, <1>4, Zenon DEF Pointers
  <2>2. \A b \in Addr : Used(wrapped, r, b) <=> b \in A \/ b \in B
    BY <1>1, <1>4, Zenon DEF Used
  <2>3. A \subseteq Addr /\ B \subseteq Addr /\ A \cap B = {}
    BY <1>2, <2>1 DEF Addr
  <2>4. h \in Int /\ w - 1 \in Int /\ 0 \in Int /\ t - 1 \in Int
    BY <1>2
  <2>5. IsFiniteSet(A) /\ Cardinality(A) = IF h > w - 1 THEN 0 ELSE w - 1 - h + 1
    BY <2>4, FS_Interval, Zenon
  <2>6. IsFiniteSet(B) /\ Cardinality(B) = IF 0 > t - 1 THEN 0 ELSE t - 1 - 0 + 1
    BY <2>4, FS_Interval, Zenon
  <2>. HIDE DEF A, B
  <2>7. S = A \cup B
    BY <1>1, <2>2, <2>3, Zenon
  <2>8. Cardinality(S) = Cardinality(A) + Cardinality(B) - Cardinality(A \cap B)
    BY <2>5, <2>6, <2>7, FS_Union, Zenon
  <2>9. Cardinality(A \cap B) = 0
    BY <2>3, FS_EmptySet, Zenon
  <2>. QED  BY <1>1, <1>2, <2>1, <2>5, <2>6, <2>8, <2>9
<1>. QED  BY <1>3, <1>4, Zenon

(* The invariant is enough. *)
LEMMA InvImpliesTile == QueueInv => LiveElementsTile
<1>. SUFFICES ASSUME QueueInv PROVE LiveElementsTile
  OBVIOUS
<1>1. PICK w \in BOOLEAN : \E at, es : Layout(w, q, at, es)
  BY Zenon DEF QueueInv, Tiled
<1>2. PICK at, es : Layout(w, q, at, es)
  BY <1>1, Zenon
<1>3. q \in QueueType /\ LiveAddr = at /\ Pointers(w, q)
  BY <1>2, LayoutIsContents, Zenon DEF QueueInv, Layout
<1>4. TypeOK
  <2>1. q.numelts \in 0 .. Cap
    BY <1>2, AtMostCap, Zenon
  <2>. QED  BY <1>3, <2>1, Zenon DEF TypeOK, QueueType, QueueInv
<1>5. \A i \in 1 .. q.numelts : /\ at[i] \in Addr /\ q.mem[at[i]].len = EltSize(es[i])
                                /\ EltSize(es[i]) \in 1 .. Cap
                                /\ End(at, es, i) = at[i] + q.mem[at[i]].len
                                /\ End(at, es, i) \in 1 .. Cap /\ at[i] < End(at, es, i)
  <2>1. ASSUME NEW i \in 1 .. q.numelts
        PROVE  /\ at[i] \in Addr /\ es[i] \in Elts /\ End(at, es, i) \in 1 .. Cap
               /\ at[i] < End(at, es, i)
               /\ EltSize(es[i]) \in 1 .. Cap /\ q.mem[at[i]].len = EltSize(es[i])
    BY <1>2, <2>1, ElementsInside
  <2>2. \A i \in 1 .. q.numelts : End(at, es, i) = at[i] + EltSize(es[i])
    BY Zenon DEF End
  <2>. QED  BY <2>1, <2>2, Zenon
<1>6. q.numelts # 0 => 1 \in 1 .. q.numelts /\ q.numelts \in 1 .. q.numelts /\ q.numelts > 0
  BY <1>3 DEF QueueType
<1>7. ~ Corrupt(q)
  <2>1. SUFFICES ASSUME ~ QEMPTY(q)
                 PROVE  /\ ~ (q.head > q.wall) /\ PassWall(q).head \in Addr
                        /\ PassWall(q).mem[PassWall(q).head].len # 0
    BY Zenon DEF Corrupt
  <2>2. q.numelts # 0
    BY <1>2, <2>1, EmptyWhenFree, Zenon DEF QEMPTY
  <2>3. PassWall(q).head = at[1] /\ PassWall(q).mem = q.mem
    <3>1. PICK s : s = PassWall(q)
      BY Zenon
    <3>2. /\ s \in QueueType /\ s.numelts = q.numelts /\ s.head = at[1] /\ s.mem = q.mem
          /\ \E w1 \in BOOLEAN : Layout(w1, s, at, es)
      BY <1>2, <1>3, <2>2, <3>1, PassLayout
    <3>. QED  BY <3>1, <3>2, Zenon
  <2>4. at[1] \in Addr /\ q.mem[at[1]].len \in 1 .. Cap
    BY <1>5, <1>6, <2>2, Zenon
  <2>5. q.mem[at[1]].len # 0
    BY <2>4
  <2>6. q.head \in 0 .. Cap /\ q.wall \in 0 .. Cap /\ (q.head <= q.wall \/ q.wall = Cap)
    BY <1>3, Zenon DEF Pointers
  <2>7. ~ (q.head > q.wall)
    BY <2>6, SizeFacts
  <2>. QED  BY <2>3, <2>4, <2>5, <2>7, Zenon
<1>8. q.head = q.tail /\ ~ QFULL(q) => q.numelts = 0
  <2>1. SUFFICES ASSUME q.head = q.tail, ~ QFULL(q) PROVE q.bytesfree = Cap
    BY <1>2, EmptyWhenFree, Zenon
  <2>2. ~ w
    BY <1>3, <2>1, FullFacts, Zenon
  <2>3. q.bytesfree = Cap - (q.tail - q.head) /\ q.tail \in 0 .. Cap
    BY <1>3, <2>2, Zenon DEF Pointers
  <2>. QED  BY <2>1, <2>3, SizeFacts
<1>9. ASSUME q.numelts = 0 PROVE q.bytesfree = Cap
  BY <1>2, <1>9, EmptyWhenFree, Zenon
<1>10. ASSUME q.numelts # 0
       PROVE  /\ \/ at[q.numelts] + q.mem[at[q.numelts]].len = q.tail
                 \/ at[q.numelts] + q.mem[at[q.numelts]].len = q.wall /\ q.tail = 0
              /\ \A i, j \in 1 .. q.numelts : i # j =>
                   at[j] \notin at[i] .. (at[i] + q.mem[at[i]].len - 1)
              /\ Cardinality({a \in Addr : \E i \in 1 .. q.numelts :
                   a \in at[i] .. (at[i] + q.mem[at[i]].len - 1)}) = Cap - q.bytesfree
  <2>1. \/ End(at, es, q.numelts) = q.tail
        \/ End(at, es, q.numelts) = q.wall /\ q.tail = 0
    BY <1>2, <1>6, <1>10, Zenon DEF Layout, Chain
  <2>2. ASSUME NEW i \in 1 .. q.numelts, NEW j \in 1 .. q.numelts, i # j
        PROVE  at[j] \notin at[i] .. (End(at, es, i) - 1)
    <3>1. End(at, es, i) <= at[j] \/ End(at, es, j) <= at[i]
      BY <1>2, <2>2, Zenon DEF Layout, Apart
    <3>. QED  BY <1>5, <3>1 DEF Addr
  <2>3. \A b \in Addr : Used(w, q, b) <=>
                          \E i \in 1 .. q.numelts : b \in at[i] .. (End(at, es, i) - 1)
    BY <1>2, Zenon DEF Layout
  <2>4. ASSUME NEW i \in 1 .. q.numelts
        PROVE  at[i] .. (at[i] + q.mem[at[i]].len - 1) = at[i] .. (End(at, es, i) - 1)
    <3>1. PICK a, b, c : a = at[i] /\ b = q.mem[at[i]].len /\ c = End(at, es, i)
      BY Zenon
    <3>2. a \in Nat /\ b \in Nat /\ c \in Nat /\ a + b = c
      BY <1>5, <3>1 DEF Addr
    <3>3. a .. (a + b - 1) = a .. (c - 1)
      BY <3>2
    <3>. QED  BY <3>1, <3>3, Zenon
  <2>5. {a \in Addr : \E i \in 1 .. q.numelts : a \in at[i] .. (at[i] + q.mem[at[i]].len - 1)}
          = {b \in Addr : Used(w, q, b)}
    BY <2>3, <2>4, Zenon
  <2>6. Cardinality({b \in Addr : Used(w, q, b)}) = Cap - q.bytesfree
    BY <1>3, UsedBytes, Zenon
  <2>7. at[q.numelts] + q.mem[at[q.numelts]].len = End(at, es, q.numelts)
    BY <1>5, <1>6, <1>10, Zenon
  <2>8. \A i, j \in 1 .. q.numelts : i # j =>
          at[j] \notin at[i] .. (at[i] + q.mem[at[i]].len - 1)
    BY <2>2, <2>4, Zenon
  <2>. QED  BY <2>1, <2>5, <2>6, <2>7, <2>8, Zenon
<1>. QED  BY <1>3, <1>4, <1>7, <1>8, <1>9, <1>10, Zenon DEF LiveElementsTile

-----------------------------------------------------------------------------
(* However often the buffer wraps, the walk of dequeue_elt finds the elements
   of enqueue_elt: they tile the bytes between head and tail, bytesfree counts
   the rest, and the "RESULTQ: ..." error exits are never taken. *)
THEOREM QueueTiled == Spec => []LiveElementsTile
<1>1. Init => QueueInv
  BY QueueInvInit, Zenon
<1>2. QueueInv /\ [Next]_vars => QueueInv'
  BY QueueInvStep, Zenon
<1>. QED  BY <1>1, <1>2, InvImpliesTile, PTL DEF Spec

(* enqueue_elt, dequeue_elt and clear_queue on the byte buffer are put, get and
   clear on a first-in first-out queue of whole elements. *)
THEOREM QueueRefinesFifo == Spec => RefinesFifo
<1>1. Init => QueueInv
  BY QueueInvInit, Zenon
<1>2. QueueInv /\ [Next]_vars => QueueInv'
  BY QueueInvStep, Zenon
<1>3. Init => Abstract!Init
  BY QueueInvInit, Zenon DEF Init, Answer, NoElt, Abstract!Init, Abstract!Answer, Abstract!NoElt
<1>4. QueueInv /\ [Next]_vars => [Abstract!Next]_(Abstract!vars)
  BY QueueInvStep, Zenon
<1>. QED  BY <1>1, <1>2, <1>3, <1>4, PTL DEF Spec, RefinesFifo, Abstract!Spec
=============================================================================
