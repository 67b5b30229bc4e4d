-------------------------------- MODULE TSB --------------------------------
(***************************************************************************)
(* The transient skew buffer (executor/tsb.c): for each partition a list   *)
(* of tuples that the operator below has produced and that the primary or  *)
(* the secondary copy of the partition has not acknowledged yet.           *)
(*                                                                         *)
(* A partition is a record.  Its entries are known by their sequence       *)
(* numbers, which grow along the list; dmask says who is done with an      *)
(* entry.  Cursors are sequence numbers too, or End for the empty entry   *)
(* that ends the list.  A cursor that is neither an entry nor End points  *)
(* to freed memory.                                                        *)
(***************************************************************************)
EXTENDS Integers, FiniteSets, FiniteSetsExt

CONSTANT End    \* the last, invalid entry (dmask -1); sequence numbers are smaller

ASSUME EndAssumption == End \in Nat

PRODUCED == "PRODUCED"
PRIMARY == "PRIMARY"
SECONDARY == "SECONDARY"
Roles == {PRIMARY, SECONDARY}
AllMasks == Roles \cup {PRODUCED}
OtherRole(r) == IF r = PRIMARY THEN SECONDARY ELSE PRIMARY

(* One partition after init_TSB; `last' is its reserved entry, last_ents. *)
EmptyPart ==
  [dmask |-> [e \in {} |-> {}], last |-> TRUE,
   ack |-> [m \in AllMasks |-> End], head |-> [r \in Roles |-> End]]

Entries(t) == DOMAIN t.dmask

(* del_entry and free_entry_w_last: the reserved entry is refilled first, the
   rest goes to the free list shared by the partitions. *)
del_entries(t, free, gone) ==
  [t |-> [t EXCEPT !.dmask = [e \in Entries(t) \ gone |-> t.dmask[e]],
                   !.last = @ \/ gone # {}],
   free |-> free + Cardinality(gone) - (IF t.last \/ gone = {} THEN 0 ELSE 1)]

(* The loop of put_ack_TSB: the cursor of `mask' passes the entries up to
   seqno, marks them, and deletes those that all of fmask is done with. *)
Pass_mutant(t, free, seqno, mask, fmask) ==   \* mutant: one of fmask is enough
  LET passed == {e \in Entries(t) : t.ack[mask] <= e /\ e <= seqno}
      marked == [e \in Entries(t) |-> IF e \in passed THEN t.dmask[e] \cup {mask} ELSE t.dmask[e]]
      rest   == {e \in Entries(t) \cup {End} : e >= t.ack[mask] /\ e > seqno}
  IN  del_entries([t EXCEPT !.dmask = marked, !.ack[mask] = Min(rest)], free,
                  {e \in passed : marked[e] \cap fmask \cap Roles # {}})

Pass(t, free, seqno, mask, fmask) ==
  LET passed == {e \in Entries(t) : t.ack[mask] <= e /\ e <= seqno}
      marked == [e \in Entries(t) |-> IF e \in passed THEN t.dmask[e] \cup {mask} ELSE t.dmask[e]]
      rest   == {e \in Entries(t) \cup {End} : e >= t.ack[mask] /\ e > seqno}
  IN  del_entries([t EXCEPT !.dmask = marked, !.ack[mask] = Min(rest)], free,
                  {e \in passed : fmask \subseteq marked[e]})

(* The rest of put_ack_TSB: what was not found is added at the tail, from the
   free list or else from the reserved entry.  The old last entry takes the
   number, so every cursor at the tail but `mask' now stands on it. *)
AddEntry(t, free, seqno, mask) ==
  [t |-> [dmask |-> [e \in Entries(t) \cup {seqno} |-> IF e = seqno THEN {mask} ELSE t.dmask[e]],
          last  |-> t.last /\ free > 0,
          ack   |-> [m \in AllMasks |-> IF m # mask /\ t.ack[m] = End THEN seqno ELSE t.ack[m]],
          head  |-> [r \in Roles |-> IF t.head[r] = End THEN seqno ELSE t.head[r]]],
   free |-> IF free > 0 THEN free - 1 ELSE 0]

(* An acknowledgement that passes other entries, or finds a larger number,
   goes to sleep for 10000 seconds. *)
OutOfStep(t, seqno, mask) == t.ack[mask] # seqno /\ t.ack[mask] # End

put_ack_TSB(t, free, seqno, mask, fmask) ==
  LET found == seqno \in Entries(t) /\ t.ack[mask] <= seqno
      p     == Pass(t, free, seqno, mask, fmask)
      add   == ~found /\ p.t.ack[mask] = End
      room  == p.free > 0 \/ p.t.last
      q     == IF add /\ room THEN AddEntry(p.t, p.free, seqno, mask) ELSE p
  IN  [t |-> q.t, free |-> q.free, ok |-> add => room]

reset_head_TSB(t, r) == [t EXCEPT !.head[r] = t.ack[r]]

(* ack_all_TSB acknowledges every entry in turn. *)
ack_all_TSB(t, free, r, fmask) ==
  LET p == Pass(t, free, End - 1, r, fmask) IN [p EXCEPT !.t = reset_head_TSB(p.t, r)]

(* reset_cursors_TSB: the cursors of r go to where the other copy's
   acknowledgements are, and r has everything from there on to do again. *)
reset_cursors_mutant(t, r) ==             \* mutant: resumes where the other copy's connection is
  LET from == t.head[OtherRole(r)] IN
  [t EXCEPT !.ack[r] = from, !.head[r] = from,
            !.dmask = [e \in Entries(t) |-> IF e >= from THEN t.dmask[e] \ {r} ELSE t.dmask[e]]]

reset_cursors_TSB(t, r) ==
  LET from == t.ack[OtherRole(r)] IN
  [t EXCEPT !.ack[r] = from, !.head[r] = from,
            !.dmask = [e \in Entries(t) |-> IF e >= from THEN t.dmask[e] \ {r} ELSE t.dmask[e]]]

(* The entry behind the head (advance_head_TSB). *)
AfterHead(t, r) == Min({e \in Entries(t) \cup {End} : e > t.head[r]})

-----------------------------------------------------------------------------
(* The list of a partition is in order when fmask is who must be done with its
   entries: "Invariant that all routines must maintain, head >= ack in the list".
   Both cursors of a copy that counts stand on entries or at the end, never on a
   freed entry; the copy is done with exactly the entries in front of its ack
   cursor; and no entry that everyone is done with is left. *)
ListInOrder(t, fmask) ==
  /\ \A e \in Entries(t) : PRODUCED \in t.dmask[e] /\ ~(fmask \subseteq t.dmask[e])
  /\ t.ack[PRODUCED] = End
  /\ \A r \in fmask \cap Roles :
       /\ {t.ack[r], t.head[r]} \subseteq Entries(t) \cup {End}
       /\ t.head[r] >= t.ack[r]
       /\ \A e \in Entries(t) : r \in t.dmask[e] <=> e < t.ack[r]

=============================================================================
