-------------------------------- MODULE Fifo --------------------------------
(***************************************************************************)
(* What a Queue of rqueue/resultq.c promises to its users: an element is   *)
(* either taken or refused as a whole, elements come out once, intact and  *)
(* in the order they went in, and dequeue returns false only when the      *)
(* queue holds nothing.  How much room there is, is not promised: a put    *)
(* may be refused at any time.                                             *)
(***************************************************************************)
EXTENDS Naturals, Sequences

CONSTANTS Elts      \* what callers put in the queue

VARIABLES contents, \* the elements in the queue, oldest first
          out       \* what the last call returned

vars == <<contents, out>>

NoElt == [size |-> 0, data |-> 0]

Answer(ret, e) == [ret |-> ret, elt |-> e]

Init == contents = <<>> /\ out = Answer(TRUE, NoElt)

Put(e) == contents' = Append(contents, e) /\ out' = Answer(TRUE, NoElt)

Refuse == UNCHANGED contents /\ out' = Answer(FALSE, NoElt)

Get == /\ contents # <<>>
       /\ contents' = Tail(contents)
       /\ out' = Answer(TRUE, Head(contents))

GetNothing == contents = <<>> /\ UNCHANGED contents /\ out' = Answer(FALSE, NoElt)

Clear == contents' = <<>> /\ out' = Answer(TRUE, NoElt)

Next == (\E e \in Elts : Put(e)) \/ Refuse \/ Get \/ GetNothing \/ Clear

Spec == Init /\ [][Next]_vars
=============================================================================
