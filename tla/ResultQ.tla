------------------------------- MODULE ResultQ -------------------------------
(***************************************************************************)
(* The variable-length circular queue of rqueue/resultq.c, as its          *)
(* lock holder sees it: every operation here runs under the queue's mutex. *)
(*                                                                         *)
(* An address is an offset from q->start, so q->start = 0 and q->end =     *)
(* Cap.  An element occupies a header of QHDRSZ bytes (ELTCHECK and its    *)
(* length), its serialized form and PADSIZE bytes of padding, contiguous;  *)
(* when it does not fit before q->end the tail moves to q->start and       *)
(* q->wall remembers where the used part of the buffer stops.  A byte is   *)
(* abstracted to the element written over it: `len' is the length at the   *)
(* first byte of a header and 0 elsewhere.                                 *)
(***************************************************************************)
EXTENDS Integers, Sequences, FiniteSets

CONSTANTS Cap,      \* q->end - q->start
          QHDRSZ,   \* sizeof(struct qelt)
          PADSIZE,  \* bytes of padding behind every element
          Sizes,    \* serialized sizes (determineSize) of the elements in use
          Payloads  \* what an element carries

ASSUME QueueConstants ==
  /\ Cap \in Nat \ {0} /\ QHDRSZ \in Nat \ {0} /\ PADSIZE \in Nat
  /\ Sizes \subseteq Nat /\ Payloads \subseteq Nat \ {0}

VARIABLES q,    \* the Queue struct and its buffer
          out   \* what the last call returned

vars == <<q, out>>

Addr == 0 .. (Cap - 1)
Elts == [size : Sizes, data : Payloads]
NoElt == [size |-> 0, data |-> 0]   \* no element: 0 is not a payload
Answer(ret, e) == [ret |-> ret, elt |-> e]

EltSize(e) == e.size + QHDRSZ + PADSIZE

Blank == [len |-> 0, elt |-> NoElt]   \* a zeroed or 0xff-filled byte

EmptyQueue == [head |-> 0, tail |-> 0, wall |-> Cap, bytesfree |-> Cap,
               numelts |-> 0, mem |-> [a \in Addr |-> Blank]]

-----------------------------------------------------------------------------
(* The macros of resultq.h. *)

QEMPTY(r) == r.bytesfree = Cap
QFREESPACE(r) == r.bytesfree - (Cap - r.wall)

QFULL_mutant(r) == r.bytesfree = 0              \* mutant: the wall is forgotten

QFULL(r) == QFREESPACE(r) = 0

-----------------------------------------------------------------------------
(* enqueue_elt *)

ResetWall(r) == IF r.tail >= r.wall THEN [r EXCEPT !.wall = Cap] ELSE r

WrapTail(r) ==
  [r EXCEPT !.wall = r.tail, !.tail = 0,
            !.mem = [a \in Addr |-> IF a >= r.tail THEN Blank ELSE @[a]]]

MustWrap(r, size) == r.tail >= r.head /\ Cap - r.tail < size

SpaceAvail_mutant(r) == Cap - r.tail            \* mutant: ignores the head

SpaceAvail(r) == IF r.tail < r.head THEN r.head - r.tail ELSE Cap - r.tail

StoreElt(r, e) ==
  LET size == EltSize(e)
  IN [r EXCEPT !.mem = [a \in Addr |->
                          IF a \in r.tail .. (r.tail + size - 1)
                          THEN [len |-> IF a = r.tail THEN size ELSE 0, elt |-> e]
                          ELSE @[a]],
               !.tail = @ + size,
               !.numelts = @ + 1,
               !.bytesfree = @ - size]

(* The new queue and the value returned.  A refusal after the tail wrapped
   leaves the tail and the wall where the wrap put them. *)
EnqueueElt(r, e) ==
  IF QFULL(r) THEN [q |-> r, ret |-> FALSE]
  ELSE LET reset   == ResetWall(r)
           wraps   == MustWrap(reset, EltSize(e))
           aligned == IF wraps THEN WrapTail(reset) ELSE reset
       IN IF (wraps /\ QFULL(aligned)) \/ SpaceAvail(aligned) < EltSize(e)
          THEN [q |-> aligned, ret |-> FALSE]
          ELSE [q |-> StoreElt(aligned, e), ret |-> TRUE]

-----------------------------------------------------------------------------
(* dequeue_elt *)

PassWall(r) == IF r.head = r.wall THEN [r EXCEPT !.head = 0, !.wall = Cap] ELSE r

(* The two elog(ERROR) exits: the head is past the wall, or there is no
   ELTCHECK where it points. *)
Corrupt(r) == ~QEMPTY(r) /\ (r.head > r.wall \/ PassWall(r).head \notin Addr
                             \/ PassWall(r).mem[PassWall(r).head].len = 0)

(* The bytes read back are the element only if none was overwritten. *)
ReadElt(r) ==
  LET hdr == r.mem[r.head]
  IN IF \A a \in r.head .. (r.head + hdr.len - 1) : a \in Addr /\ r.mem[a].elt = hdr.elt
     THEN hdr.elt ELSE NoElt

TakeElt(r) ==
  LET size == r.mem[r.head].len
  IN [r EXCEPT !.mem = [a \in Addr |-> IF a \in r.head .. (r.head + size - 1)
                                       THEN Blank ELSE @[a]],
               !.head = @ + size,
               !.bytesfree = @ + size,
               !.numelts = @ - 1]

-----------------------------------------------------------------------------
(* The calls a client makes. *)

Init == q = EmptyQueue /\ out = Answer(TRUE, NoElt)

Enqueue(e) ==
  LET r == EnqueueElt(q, e)
  IN q' = r.q /\ out' = Answer(r.ret, NoElt)

DequeueNothing == QEMPTY(q) /\ UNCHANGED q /\ out' = Answer(FALSE, NoElt)

Dequeue ==
  /\ ~QEMPTY(q) /\ ~Corrupt(q)
  /\ q' = TakeElt(PassWall(q))
  /\ out' = Answer(TRUE, ReadElt(PassWall(q)))

clear_queue ==
  /\ q' = [EmptyQueue EXCEPT !.mem = q.mem]   \* the buffer is not touched
  /\ out' = Answer(TRUE, NoElt)

Next == (\E e \in Elts : Enqueue(e)) \/ DequeueNothing \/ Dequeue \/ clear_queue

Spec == Init /\ [][Next]_vars

-----------------------------------------------------------------------------
(* Where the live elements are: element i starts where element i - 1 ends,
   or at the start of the buffer when that is the wall. *)

LiveAddr ==
  LET first == IF q.head = q.wall THEN 0 ELSE q.head
      addr[i \in 1 .. q.numelts] ==
        IF i = 1 THEN first
        ELSE LET end == addr[i - 1] + q.mem[addr[i - 1]].len
             IN IF end = q.wall THEN 0 ELSE end
  IN addr

Contents == [i \in 1 .. q.numelts |-> q.mem[LiveAddr[i]].elt]

Abstract == INSTANCE Fifo WITH contents <- Contents

-----------------------------------------------------------------------------
(* The fields of the Queue struct stay inside the buffer. *)
TypeOK ==
  /\ q.head \in 0 .. Cap /\ q.tail \in 0 .. Cap /\ q.wall \in 0 .. Cap
  /\ q.bytesfree \in 0 .. Cap /\ q.numelts \in 0 .. Cap
  /\ q.mem \in [Addr -> [len : 0 .. Cap, elt : Elts \cup {NoElt}]]
  /\ out \in [ret : BOOLEAN, elt : Elts \cup {NoElt}]

(* The layout of the buffer, whatever mixture of element sizes went through and
   however often it wrapped.  dequeue_elt never takes one of its "RESULTQ: ..."
   error exits; "since we checked for full head==tail means empty here"; and
   the live elements tile the part between head and tail, while bytesfree counts
   exactly the bytes they leave. *)
LiveElementsTile ==
  /\ TypeOK /\ ~Corrupt(q)
  /\ q.head = q.tail /\ ~QFULL(q) => q.numelts = 0
  /\ LET n == q.numelts
         last == LiveAddr[n] + q.mem[LiveAddr[n]].len
     IN IF n = 0 THEN q.bytesfree = Cap
        ELSE /\ last = q.tail \/ (last = q.wall /\ q.tail = 0)
             /\ \A i, j \in 1 .. n : i # j =>
                  LiveAddr[j] \notin LiveAddr[i] .. (LiveAddr[i] + q.mem[LiveAddr[i]].len - 1)
             /\ Cardinality({a \in Addr : \E i \in 1 .. n :
                  a \in LiveAddr[i] .. (LiveAddr[i] + q.mem[LiveAddr[i]].len - 1)}) = Cap - q.bytesfree

(* Every run of the byte-level queue is a run of the abstract one. *)
RefinesFifo == Abstract!Spec
=============================================================================
