----------------------------- MODULE TSB_proofs -----------------------------
(***************************************************************************)
(* Proofs that every routine of the transient skew buffer keeps the list   *)
(* of a partition in order, for lists and sequence numbers of any size.    *)
(***************************************************************************)
EXTENDS TSB, WellFoundedInduction, TLAPS

(* A partition as the routines find it. *)
Partitions ==
  [dmask : UNION {[D -> SUBSET AllMasks] : D \in SUBSET (0 .. (End - 1))},
   last : BOOLEAN, ack : [AllMasks -> 0 .. End], head : [Roles -> 0 .. End]]

(* The fields of a partition. *)
LEMMA PartitionFields ==
  ASSUME NEW t \in Partitions
  PROVE  /\ Entries(t) \subseteq 0 .. (End - 1)
         /\ t.dmask \in [Entries(t) -> SUBSET AllMasks]
         /\ t.ack \in [AllMasks -> 0 .. End] /\ t.head \in [Roles -> 0 .. End]
         /\ t.last \in BOOLEAN
<1>1. PICK D \in SUBSET (0 .. (End - 1)) : t.dmask \in [D -> SUBSET AllMasks]
  BY DEF Partitions
<1>2. Entries(t) = D
  BY <1>1 DEF Entries
<1> QED
  BY <1>1, <1>2 DEF Partitions

(* A set of numbers that is not empty has a least element, which Min is. *)
LEMMA MinFacts ==
  ASSUME NEW T, T \subseteq Nat, T # {}
  PROVE  Min(T) \in T /\ \A j \in T : Min(T) <= j
<1> DEFINE R == {ss \in Nat \X Nat : ss[1] < ss[2]}
<1>1. IsWellFoundedOn(R, Nat)
  BY NatLessThanWellFounded DEF OpToRel
<1> HIDE DEF R
<1>2. PICK i \in T : \A j \in T : ~ (<<j, i>> \in R)
  BY <1>1, WFMin
<1>3. \A j, k \in Nat : j < k => <<j, k>> \in R
  BY DEF R
<1>4. \A j \in T : i <= j
  <2> SUFFICES ASSUME NEW j \in T PROVE i <= j
    OBVIOUS
  <2>1. i \in Nat /\ j \in Nat
    OBVIOUS
  <2>2. ~ (j < i)
    BY <1>2, <1>3, <2>1
  <2> QED
    BY <2>1, <2>2
<1>5. \E x \in T : \A y \in T : x =< y
  BY <1>4
<1> QED
  BY <1>5 DEF Min

(* advance_head_TSB: sending the tuple at the head moves the
   head to the next entry or to the end, and never behind the acknowledgements. *)
THEOREM SendKeepsOrder ==
  ASSUME NEW t \in Partitions, NEW fmask \in SUBSET AllMasks, NEW r \in fmask \cap Roles,
         ListInOrder(t, fmask), t.head[r] # End
  PROVE  ListInOrder([t EXCEPT !.head[r] = AfterHead(t, r)], fmask)
<1> DEFINE T == {e \in Entries(t) \cup {End} : e > t.head[r]}
           u == [t EXCEPT !.head[r] = AfterHead(t, r)]
<1>1. Entries(t) \subseteq 0 .. (End - 1) /\ t.ack \in [AllMasks -> 0 .. End]
        /\ t.head \in [Roles -> 0 .. End]
  BY PartitionFields
<1>2. T \subseteq Nat /\ End \in T
  BY <1>1, EndAssumption DEF Roles
<1>3. AfterHead(t, r) \in T
  BY <1>2, MinFacts DEF AfterHead
<1>4. AfterHead(t, r) \in Entries(t) \cup {End} /\ AfterHead(t, r) > t.head[r]
  BY <1>3
<1>5. Entries(u) = Entries(t) /\ u.dmask = t.dmask /\ u.ack = t.ack
        /\ u.head = [t.head EXCEPT ![r] = AfterHead(t, r)]
  BY DEF Entries, Partitions
<1>6. ASSUME NEW s \in fmask \cap Roles
      PROVE  {u.ack[s], u.head[s]} \subseteq Entries(u) \cup {End} /\ u.head[s] >= u.ack[s]
  <2>1. {t.ack[s], t.head[s]} \subseteq Entries(t) \cup {End} /\ t.head[s] >= t.ack[s]
    BY <1>6 DEF ListInOrder
  <2>2. t.ack[s] \in Int /\ t.head[s] \in Int /\ AfterHead(t, r) \in Int
    BY <1>1, <1>4, <1>6, EndAssumption DEF Roles, AllMasks
  <2>3. CASE s = r
    <3>1. u.head[s] = AfterHead(t, r)
      BY <1>1, <1>5, <2>3
    <3> QED
      BY <1>4, <1>5, <2>1, <2>2, <2>3, <3>1
  <2>4. CASE s # r
    <3>1. u.head[s] = t.head[s]
      BY <1>1, <1>5, <1>6, <2>4
    <3> QED
      BY <1>5, <2>1, <3>1
  <2> QED
    BY <2>3, <2>4
<1> HIDE DEF u
<1>7. ListInOrder(u, fmask)
  BY <1>5, <1>6 DEF ListInOrder
<1> QED
  BY <1>7 DEF u

(* reset_cursors_TSB, when the other copy says that it starts to copy its state:
   the new copy counts from now on, and its cursors stand where the state ends.
   That works only because an entry the other copy is done with was deleted. *)
THEOREM ResumeKeepsOrder ==
  ASSUME NEW t \in Partitions, NEW r \in Roles,
         ListInOrder(t, AllMasks \ {r})
  PROVE  ListInOrder(reset_cursors_TSB(t, r), AllMasks)
<1> DEFINE o == OtherRole(r)
           from == t.ack[o]
           u == reset_cursors_TSB(t, r)
<1>1. /\ Entries(t) \subseteq 0 .. (End - 1) /\ t.dmask \in [Entries(t) -> SUBSET AllMasks]
      /\ t.ack \in [AllMasks -> 0 .. End] /\ t.head \in [Roles -> 0 .. End]
  BY PartitionFields
<1>2. o \in Roles /\ o # r /\ Roles = {r, o} /\ AllMasks = {r, o, PRODUCED}
      /\ PRODUCED \notin Roles /\ AllMasks \ {r} = {o, PRODUCED}
  BY DEF Roles, OtherRole, PRIMARY, SECONDARY, PRODUCED, AllMasks
<1>3. /\ Entries(u) = Entries(t)
      /\ u.dmask = [e \in Entries(t) |-> IF e >= from THEN t.dmask[e] \ {r} ELSE t.dmask[e]]
      /\ u.ack = [t.ack EXCEPT ![r] = from] /\ u.head = [t.head EXCEPT ![r] = from]
  BY DEF reset_cursors_TSB, Entries, Partitions
<1>4. \A e \in Entries(t) : PRODUCED \in t.dmask[e] /\ ~({o, PRODUCED} \subseteq t.dmask[e])
  BY <1>2 DEF ListInOrder
<1>5. /\ {t.ack[o], t.head[o]} \subseteq Entries(t) \cup {End} /\ t.head[o] >= t.ack[o]
      /\ \A e \in Entries(t) : o \in t.dmask[e] <=> e < t.ack[o]
  BY <1>2 DEF ListInOrder
<1>6. t.ack[PRODUCED] = End
  BY DEF ListInOrder
<1>7. from \in Int /\ End \in Int /\ \A e \in Entries(t) : e \in Int
  BY <1>1, <1>2, EndAssumption
<1>8. \A e \in Entries(t) : e >= from
  BY <1>4, <1>5, <1>7
<1>9. \A e \in Entries(t) : u.dmask[e] = t.dmask[e] \ {r}
  BY <1>3, <1>8
<1>10. /\ u.ack[PRODUCED] = End /\ u.ack[r] = from /\ u.head[r] = from
       /\ u.ack[o] = from /\ u.head[o] = t.head[o]
  BY <1>1, <1>2, <1>3, <1>6
<1>11. \A e \in Entries(t) : PRODUCED \in u.dmask[e] /\ r \notin u.dmask[e] /\ o \notin u.dmask[e]
  BY <1>2, <1>4, <1>9
<1> HIDE DEF u, from, o
<1>12. \A s \in {r, o} : /\ {u.ack[s], u.head[s]} \subseteq Entries(u) \cup {End}
                         /\ u.head[s] >= u.ack[s]
                         /\ \A e \in Entries(u) : s \in u.dmask[e] <=> e < u.ack[s]
  <2>1. t.head[o] \in Int /\ from \in Entries(t) \cup {End} /\ t.head[o] \in Entries(t) \cup {End}
        /\ t.head[o] >= from
    BY <1>1, <1>2, <1>5 DEF from
  <2>2. \A e \in Entries(t) : ~(e < from)
    BY <1>7, <1>8
  <2> QED
    BY <1>3, <1>7, <1>10, <1>11, <2>1, <2>2
<1>13. \A e \in Entries(u) : PRODUCED \in u.dmask[e] /\ ~(AllMasks \subseteq u.dmask[e])
  BY <1>2, <1>3, <1>11
<1>14. AllMasks \cap Roles = {r, o}
  BY <1>2
<1> QED
  BY <1>10, <1>12, <1>13, <1>14 DEF ListInOrder, u

-----------------------------------------------------------------------------
(* What the loop of put_ack_TSB passes, deletes and leaves. *)
Passed(t, n, m) == {e \in Entries(t) : t.ack[m] <= e /\ e <= n}
Done(t, n, m, fmask) == {e \in Passed(t, n, m) : fmask \subseteq t.dmask[e] \cup {m}}
NewAck(t, n, m) == Min({e \in Entries(t) \cup {End} : e >= t.ack[m] /\ e > n})
AfterPass(t, free, n, m, fmask) == Pass(t, free, n, m, fmask).t

IsAfterPass(u, t, n, m, fmask) ==
  /\ Entries(u) = Entries(t) \ Done(t, n, m, fmask)
  /\ \A e \in Entries(u) :
       u.dmask[e] = IF e \in Passed(t, n, m) THEN t.dmask[e] \cup {m} ELSE t.dmask[e]
  /\ u.ack = [t.ack EXCEPT ![m] = NewAck(t, n, m)] /\ u.head = t.head

(* The loop of put_ack_TSB, field by field. *)
LEMMA PassFields ==
  ASSUME NEW t \in Partitions, NEW free \in Nat, NEW n \in 0 .. (End - 1), NEW m \in AllMasks,
         NEW fmask \in SUBSET AllMasks, NEW u, u = AfterPass(t, free, n, m, fmask)
  PROVE  IsAfterPass(u, t, n, m, fmask)
<1> DEFINE marked == [e \in Entries(t) |->
                       IF e \in Passed(t, n, m) THEN t.dmask[e] \cup {m} ELSE t.dmask[e]]
           v == [t EXCEPT !.dmask = marked, !.ack[m] = NewAck(t, n, m)]
           gone == {e \in Passed(t, n, m) : fmask \subseteq marked[e]}
<1>1. u = del_entries(v, free, gone).t
  BY DEF AfterPass, Pass, Passed, NewAck
<1>2. Entries(v) = Entries(t) /\ v.dmask = marked /\ v.head = t.head
        /\ v.ack = [t.ack EXCEPT ![m] = NewAck(t, n, m)]
  BY DEF Entries, Partitions
<1>3. DOMAIN v = {"dmask", "last", "ack", "head"}
  BY DEF Partitions
<1>4. gone = Done(t, n, m, fmask)
  BY DEF Done, Passed
<1> HIDE DEF v, gone, marked
<1>5. u.dmask = [e \in Entries(t) \ gone |-> marked[e]] /\ u.ack = v.ack /\ u.head = v.head
  <2>1. u = [v EXCEPT !.dmask = [e \in Entries(v) \ gone |-> v.dmask[e]],
                      !.last = @ \/ gone # {}]
    BY <1>1 DEF del_entries
  <2> QED
    BY <1>2, <1>3, <2>1
<1>6. Entries(u) = Entries(t) \ gone
  BY <1>5 DEF Entries
<1>7. \A e \in Entries(t) :
        marked[e] = IF e \in Passed(t, n, m) THEN t.dmask[e] \cup {m} ELSE t.dmask[e]
  BY DEF marked
<1> QED
  BY <1>2, <1>4, <1>5, <1>6, <1>7 DEF IsAfterPass

(* Where the acknowledgement cursor stops. *)
LEMMA NewAckFacts ==
  ASSUME NEW t \in Partitions, NEW n \in 0 .. (End - 1), NEW m \in AllMasks
  PROVE  /\ NewAck(t, n, m) \in Entries(t) \cup {End}
         /\ NewAck(t, n, m) >= t.ack[m] /\ NewAck(t, n, m) > n
         /\ \A e \in Entries(t) \cup {End} : e >= t.ack[m] /\ e > n => NewAck(t, n, m) <= e
<1> DEFINE T == {e \in Entries(t) \cup {End} : e >= t.ack[m] /\ e > n}
<1>1. Entries(t) \subseteq 0 .. (End - 1) /\ t.ack \in [AllMasks -> 0 .. End]
  BY PartitionFields
<1>2. t.ack[m] \in 0 .. End
  BY <1>1
<1>3. T \subseteq Nat /\ End \in T
  BY <1>1, <1>2, EndAssumption
<1>4. Min(T) \in T /\ \A j \in T : Min(T) <= j
  BY <1>3, MinFacts
<1> QED
  BY <1>4 DEF NewAck

(* The loop for copy r leaves the cursors of the other copy in the list, and
   deletes what everyone is done with. *)
LEMMA PassOthers ==
  ASSUME NEW t \in Partitions, NEW free \in Nat, NEW n \in 0 .. (End - 1),
         NEW fmask \in SUBSET AllMasks, NEW r \in fmask \cap Roles, ListInOrder(t, fmask),
         NEW u, u = AfterPass(t, free, n, r, fmask)
  PROVE  /\ \A e \in Entries(u) : PRODUCED \in u.dmask[e] /\ ~(fmask \subseteq u.dmask[e])
         /\ u.ack[PRODUCED] = End
         /\ \A s \in (fmask \cap Roles) \ {r} :
              /\ {u.ack[s], u.head[s]} \subseteq Entries(u) \cup {End}
              /\ u.head[s] >= u.ack[s]
              /\ \A e \in Entries(u) : s \in u.dmask[e] <=> e < u.ack[s]
<1>0. r \in AllMasks /\ r # PRODUCED /\ PRODUCED \in AllMasks
  BY DEF AllMasks, Roles, PRODUCED, PRIMARY, SECONDARY
<1>1. /\ Entries(u) = Entries(t) \ Done(t, n, r, fmask)
      /\ \A e \in Entries(u) :
           u.dmask[e] = IF e \in Passed(t, n, r) THEN t.dmask[e] \cup {r} ELSE t.dmask[e]
      /\ u.ack = [t.ack EXCEPT ![r] = NewAck(t, n, r)] /\ u.head = t.head
  <2>1. IsAfterPass(u, t, n, r, fmask)
    BY <1>0, PassFields
  <2> QED
    BY <2>1 DEF IsAfterPass
<1>2. Entries(t) \subseteq 0 .. (End - 1) /\ t.ack \in [AllMasks -> 0 .. End]
        /\ t.head \in [Roles -> 0 .. End]
  BY PartitionFields
<1>3. \A e \in Entries(u) : PRODUCED \in u.dmask[e] /\ ~(fmask \subseteq u.dmask[e])
  <2> SUFFICES ASSUME NEW e \in Entries(u)
               PROVE  PRODUCED \in u.dmask[e] /\ ~(fmask \subseteq u.dmask[e])
    OBVIOUS
  <2>1. e \in Entries(t) /\ PRODUCED \in t.dmask[e] /\ ~(fmask \subseteq t.dmask[e])
    BY <1>1 DEF ListInOrder
  <2>2. CASE e \in Passed(t, n, r)
    <3>1. ~(fmask \subseteq t.dmask[e] \cup {r})
      BY <1>1, <2>2 DEF Done
    <3> QED
      BY <1>1, <2>1, <2>2, <3>1
  <2>3. CASE e \notin Passed(t, n, r)
    BY <1>1, <2>1, <2>3
  <2> QED
    BY <2>2, <2>3
<1>4. u.ack[PRODUCED] = End
  BY <1>0, <1>1, <1>2 DEF ListInOrder
<1>5. ASSUME NEW s \in (fmask \cap Roles) \ {r}
      PROVE  /\ {u.ack[s], u.head[s]} \subseteq Entries(u) \cup {End}
             /\ u.head[s] >= u.ack[s]
             /\ \A e \in Entries(u) : s \in u.dmask[e] <=> e < u.ack[s]
  <2>1. u.ack[s] = t.ack[s] /\ u.head[s] = t.head[s] /\ t.ack[s] \in Int /\ t.head[s] \in Int
    BY <1>1, <1>2, <1>5 DEF AllMasks
  <2>2. /\ {t.ack[s], t.head[s]} \subseteq Entries(t) \cup {End} /\ t.head[s] >= t.ack[s]
        /\ \A e \in Entries(t) : s \in t.dmask[e] <=> e < t.ack[s]
    BY <1>5 DEF ListInOrder
  <2>3. \A e \in Done(t, n, r, fmask) : e \in Entries(t) /\ s \in t.dmask[e]
    BY <1>5 DEF Done, Passed
  <2>4. \A e \in Done(t, n, r, fmask) : e \in Int /\ e < t.ack[s] /\ e < t.head[s]
    BY <1>2, <2>1, <2>2, <2>3
  <2>5. {t.ack[s], t.head[s]} \subseteq Entries(u) \cup {End}
    BY <1>1, <2>1, <2>2, <2>4
  <2>6. \A e \in Entries(u) : s \in u.dmask[e] <=> s \in t.dmask[e]
    BY <1>1, <1>5
  <2> QED
    BY <1>1, <2>1, <2>2, <2>5, <2>6
<1> QED
  BY <1>3, <1>4, <1>5

(* put_ack_TSB on an acknowledgement: the copy is done with the entries up to
   the one it names, which it was sent and had not acknowledged; what everyone
   is done with is deleted, and no cursor is left behind on a deleted entry. *)
THEOREM AckKeepsOrder ==
  ASSUME NEW t \in Partitions, NEW free \in Nat, NEW fmask \in SUBSET AllMasks,
         NEW r \in fmask \cap Roles, ListInOrder(t, fmask),
         NEW n \in Entries(t), t.ack[r] <= n, n < t.head[r]
  PROVE  ListInOrder(put_ack_TSB(t, free, n, r, fmask).t, fmask)
<1>1. /\ Entries(t) \subseteq 0 .. (End - 1)
      /\ t.ack \in [AllMasks -> 0 .. End] /\ t.head \in [Roles -> 0 .. End]
  BY PartitionFields
<1>2. n \in 0 .. (End - 1) /\ r \in AllMasks
  BY <1>1
<1>3. PICK u : u = AfterPass(t, free, n, r, fmask)
  OBVIOUS
<1>4. put_ack_TSB(t, free, n, r, fmask).t = u
  BY <1>3 DEF put_ack_TSB, AfterPass
<1>5. IsAfterPass(u, t, n, r, fmask)
  BY <1>2, <1>3, PassFields
<1>6. /\ \A e \in Entries(u) : PRODUCED \in u.dmask[e] /\ ~(fmask \subseteq u.dmask[e])
      /\ u.ack[PRODUCED] = End
      /\ \A s \in (fmask \cap Roles) \ {r} :
           /\ {u.ack[s], u.head[s]} \subseteq Entries(u) \cup {End}
           /\ u.head[s] >= u.ack[s]
           /\ \A e \in Entries(u) : s \in u.dmask[e] <=> e < u.ack[s]
  BY <1>2, <1>3, PassOthers
<1>7. /\ {u.ack[r], u.head[r]} \subseteq Entries(u) \cup {End}
      /\ u.head[r] >= u.ack[r]
      /\ \A e \in Entries(u) : r \in u.dmask[e] <=> e < u.ack[r]
  <2> DEFINE a == NewAck(t, n, r)
  <2>1. /\ a \in Entries(t) \cup {End} /\ a >= t.ack[r] /\ a > n
        /\ \A e \in Entries(t) \cup {End} : e >= t.ack[r] /\ e > n => a <= e
    BY <1>2, NewAckFacts
  <2> HIDE DEF a
  <2>2. u.ack[r] = a /\ u.head[r] = t.head[r] /\ Entries(u) = Entries(t) \ Done(t, n, r, fmask)
    BY <1>1, <1>2, <1>5 DEF IsAfterPass, a
  <2>3. /\ {t.ack[r], t.head[r]} \subseteq Entries(t) \cup {End} /\ t.head[r] >= t.ack[r]
        /\ \A e \in Entries(t) : r \in t.dmask[e] <=> e < t.ack[r]
    BY DEF ListInOrder
  <2>4. /\ a \in Int /\ t.ack[r] \in Int /\ t.head[r] \in Int /\ n \in Int
        /\ \A e \in Entries(t) : e \in Int
    BY <1>1, <1>2, <2>1, EndAssumption
  <2>5. \A e \in Done(t, n, r, fmask) : e <= n /\ e \in Entries(t)
    BY DEF Done, Passed
  <2>6. a \in Entries(u) \cup {End} /\ t.head[r] \in Entries(u) \cup {End}
    BY <2>1, <2>2, <2>3, <2>4, <2>5
  <2>7. t.head[r] >= a
    BY <2>1, <2>3, <2>4
  <2>8. ASSUME NEW e \in Entries(u) PROVE r \in u.dmask[e] <=> e < a
    <3>1. e \in Entries(t) /\ e \in Int
      BY <2>2, <2>4
    <3>2. u.dmask[e] = IF e \in Passed(t, n, r) THEN t.dmask[e] \cup {r} ELSE t.dmask[e]
      BY <1>5 DEF IsAfterPass
    <3>3. e \in Passed(t, n, r) <=> t.ack[r] <= e /\ e <= n
      BY <3>1 DEF Passed
    <3>4. r \in u.dmask[e] <=> (e \in Passed(t, n, r) \/ r \in t.dmask[e])
      BY <3>2
    <3>5. r \in u.dmask[e] <=> ((t.ack[r] <= e /\ e <= n) \/ e < t.ack[r])
      BY <2>3, <3>1, <3>3, <3>4
    <3> QED
      BY <2>1, <2>4, <3>1, <3>5
  <2> QED
    BY <2>2, <2>6, <2>7, <2>8
<1>8. ListInOrder(u, fmask)
  BY <1>6, <1>7 DEF ListInOrder
<1> QED
  BY <1>4, <1>8

(* ack_all_TSB, when copy r fails: every entry counts as acknowledged by r, and
   the list is in order for the copy that is left, which is the only one that
   counts now; the entries that waited for r alone are gone. *)
THEOREM FailOverKeepsOrder ==
  ASSUME NEW t \in Partitions, NEW free \in Nat, NEW r \in Roles, End > 0,
         ListInOrder(t, AllMasks)
  PROVE  ListInOrder(ack_all_TSB(t, free, r, AllMasks).t, AllMasks \ {r})
<1> DEFINE n == End - 1
           w == ack_all_TSB(t, free, r, AllMasks).t
<1>1. /\ Entries(t) \subseteq 0 .. (End - 1)
      /\ t.ack \in [AllMasks -> 0 .. End] /\ t.head \in [Roles -> 0 .. End]
  BY PartitionFields
<1>2. n \in 0 .. (End - 1) /\ r \in AllMasks /\ r \in AllMasks \cap Roles /\ r # PRODUCED
  BY EndAssumption DEF AllMasks, Roles, PRIMARY, SECONDARY, PRODUCED
<1>3. PICK u : u = AfterPass(t, free, n, r, AllMasks)
  OBVIOUS
<1>4. IsAfterPass(u, t, n, r, AllMasks)
  BY <1>2, <1>3, PassFields
<1>5. /\ \A e \in Entries(u) : PRODUCED \in u.dmask[e] /\ ~(AllMasks \subseteq u.dmask[e])
      /\ u.ack[PRODUCED] = End
      /\ \A s \in (AllMasks \cap Roles) \ {r} :
           /\ {u.ack[s], u.head[s]} \subseteq Entries(u) \cup {End}
           /\ u.head[s] >= u.ack[s]
           /\ \A e \in Entries(u) : s \in u.dmask[e] <=> e < u.ack[s]
  BY <1>2, <1>3, PassOthers
<1>6. \A e \in Entries(u) : r \in u.dmask[e]
  <2> SUFFICES ASSUME NEW e \in Entries(u) PROVE r \in u.dmask[e]
    OBVIOUS
  <2>1. e \in Entries(t) /\ e \in Int /\ e <= n /\ t.ack[r] \in Int
    BY <1>1, <1>2, <1>4, EndAssumption DEF IsAfterPass
  <2>2. r \in t.dmask[e] <=> e < t.ack[r]
    BY <1>2, <2>1 DEF ListInOrder
  <2>3. e \in Passed(t, n, r) <=> t.ack[r] <= e
    BY <2>1 DEF Passed
  <2>4. u.dmask[e] = IF e \in Passed(t, n, r) THEN t.dmask[e] \cup {r} ELSE t.dmask[e]
    BY <1>4 DEF IsAfterPass
  <2> QED
    BY <2>1, <2>2, <2>3, <2>4
<1>7. w = reset_head_TSB(u, r)
  BY <1>3 DEF ack_all_TSB, AfterPass
<1>8. /\ Entries(w) = Entries(u) /\ w.dmask = u.dmask /\ w.ack = u.ack
      /\ w.head = [u.head EXCEPT ![r] = u.ack[r]]
  BY <1>7 DEF reset_head_TSB, Entries
<1> HIDE DEF w, n
<1>9. \A s \in Roles \ {r} : w.head[s] = u.head[s]
  BY <1>1, <1>4, <1>8 DEF IsAfterPass
<1>10. \A e \in Entries(w) : ~((AllMasks \ {r}) \subseteq w.dmask[e])
  BY <1>5, <1>6, <1>8
<1>11. (AllMasks \ {r}) \cap Roles = (AllMasks \cap Roles) \ {r}
  OBVIOUS
<1>12. ListInOrder(w, AllMasks \ {r})
  BY <1>5, <1>8, <1>9, <1>10, <1>11 DEF ListInOrder
<1> QED
  BY <1>12 DEF w

(* put_ack_TSB on a new tuple, which is called with all masks whatever copies
   are left: "XXX It really should be fmasks[dest] not fmask, but we can get
   away with it".  It can: the number is larger than every number of the list,
   so the call passes nothing, and the new entry is in order for any fmask with
   a copy in it.  Without room the list stays as it is. *)
THEOREM PutKeepsOrder ==
  ASSUME NEW t \in Partitions, NEW free \in Nat, NEW fmask \in SUBSET AllMasks,
         fmask \cap Roles # {}, ListInOrder(t, fmask),
         NEW n \in 0 .. (End - 1), \A e \in Entries(t) : e < n
  PROVE  ListInOrder(put_ack_TSB(t, free, n, PRODUCED, AllMasks).t, fmask)
<1> DEFINE w == put_ack_TSB(t, free, n, PRODUCED, AllMasks).t
<1>1. /\ Entries(t) \subseteq 0 .. (End - 1)
      /\ t.ack \in [AllMasks -> 0 .. End] /\ t.head \in [Roles -> 0 .. End]
  BY PartitionFields
<1>2. PRODUCED \in AllMasks /\ PRODUCED \notin Roles /\ Roles \subseteq AllMasks
        /\ t.ack[PRODUCED] = End
  BY DEF AllMasks, Roles, PRIMARY, SECONDARY, PRODUCED, ListInOrder
<1>3. PICK p : p = Pass(t, free, n, PRODUCED, AllMasks)
  OBVIOUS
<1>4. PICK u : u = AfterPass(t, free, n, PRODUCED, AllMasks)
  OBVIOUS
<1>5. u = p.t
  BY <1>3, <1>4 DEF AfterPass
<1>6. IsAfterPass(u, t, n, PRODUCED, AllMasks)
  BY <1>2, <1>4, PassFields
<1>7. Passed(t, n, PRODUCED) = {}
  BY <1>1, <1>2, EndAssumption DEF Passed
<1>8. Entries(u) = Entries(t) /\ \A e \in Entries(t) : u.dmask[e] = t.dmask[e]
  BY <1>6, <1>7 DEF IsAfterPass, Done
<1>9. NewAck(t, n, PRODUCED) = End
  <2>1. /\ NewAck(t, n, PRODUCED) \in Entries(t) \cup {End}
        /\ NewAck(t, n, PRODUCED) >= t.ack[PRODUCED]
    BY <1>2, NewAckFacts
  <2> QED
    BY <1>1, <1>2, <2>1, EndAssumption
<1>10. u.ack = t.ack /\ u.head = t.head
  BY <1>1, <1>2, <1>6, <1>9 DEF IsAfterPass
<1>11. ListInOrder(u, fmask)
  BY <1>8, <1>10 DEF ListInOrder
<1>12. PICK v : v = AddEntry(u, p.free, n, PRODUCED).t
  OBVIOUS
<1>13. w = u \/ w = v
  BY <1>3, <1>5, <1>12 DEF put_ack_TSB
<1>14. /\ v.dmask = [e \in Entries(u) \cup {n} |-> IF e = n THEN {PRODUCED} ELSE u.dmask[e]]
       /\ v.ack = [m \in AllMasks |-> IF m # PRODUCED /\ u.ack[m] = End THEN n ELSE u.ack[m]]
       /\ v.head = [r \in Roles |-> IF u.head[r] = End THEN n ELSE u.head[r]]
  BY <1>12 DEF AddEntry
<1>15. Entries(v) = Entries(t) \cup {n}
  BY <1>8, <1>14 DEF Entries
<1> HIDE DEF w
<1>16. ListInOrder(v, fmask)
  <2>1. n \notin Entries(t) /\ v.dmask[n] = {PRODUCED}
        /\ \A e \in Entries(t) : v.dmask[e] = t.dmask[e]
    BY <1>1, <1>8, <1>14
  <2>2. \A e \in Entries(v) : PRODUCED \in v.dmask[e] /\ ~(fmask \subseteq v.dmask[e])
    BY <1>2, <1>15, <2>1 DEF ListInOrder
  <2>3. v.ack[PRODUCED] = End
    BY <1>2, <1>10, <1>14
  <2>4. ASSUME NEW s \in fmask \cap Roles
        PROVE  /\ {v.ack[s], v.head[s]} \subseteq Entries(v) \cup {End}
               /\ v.head[s] >= v.ack[s]
               /\ \A e \in Entries(v) : s \in v.dmask[e] <=> e < v.ack[s]
    <3>1. /\ {t.ack[s], t.head[s]} \subseteq Entries(t) \cup {End} /\ t.head[s] >= t.ack[s]
          /\ \A e \in Entries(t) : s \in t.dmask[e] <=> e < t.ack[s]
      BY DEF ListInOrder
    <3>2. /\ v.ack[s] = IF t.ack[s] = End THEN n ELSE t.ack[s]
          /\ v.head[s] = IF t.head[s] = End THEN n ELSE t.head[s]
      BY <1>2, <1>10, <1>14
    <3>3. /\ n \in Int /\ End \in Int /\ n < End /\ t.ack[s] \in Int /\ t.head[s] \in Int
          /\ \A e \in Entries(t) : e \in Int /\ e < n
      BY <1>1, <1>2, EndAssumption
    <3>4. {v.ack[s], v.head[s]} \subseteq Entries(v) \cup {End} /\ v.head[s] >= v.ack[s]
      BY <1>15, <3>1, <3>2, <3>3
    <3>5. \A e \in Entries(t) : s \in v.dmask[e] <=> e < v.ack[s]
      BY <2>1, <3>1, <3>2, <3>3
    <3>6. s \in v.dmask[n] <=> n < v.ack[s]
      BY <1>2, <2>1, <3>1, <3>2, <3>3
    <3> QED
      BY <1>15, <3>4, <3>5, <3>6
  <2> QED
    BY <2>2, <2>3, <2>4 DEF ListInOrder
<1> QED
  BY <1>11, <1>13, <1>16 DEF w

=============================================================================
