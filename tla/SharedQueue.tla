----------------------------- MODULE SharedQueue -----------------------------
(***************************************************************************)
(* enqueue and dequeue of rqueue/resultq.c on a queue with a semaphore     *)
(* lock (the plan queue, the control queue and the result queues), called  *)
(* by several processes.                                                   *)
(*                                                                         *)
(* One step is one semaphore operation or one call made under the mutex.   *)
(* The buffer is abstracted to the number of its elements: enqueue_elt may *)
(* take an element while there are fewer than MaxSlots and may refuse one  *)
(* once there are MinSlots, because elements differ in size (ResultQ       *)
(* models the buffer itself).                                              *)
(***************************************************************************)
EXTENDS Integers, FiniteSets

CONSTANTS Producers, Consumers,  \* the processes that enqueue and dequeue
          MayBlock,              \* those that call with isBlocking
          MayTry,                \* those that call without
          Mortal,                \* those that may be sent SIGTERM
          Clearers,              \* those that call clear_queue
          Empties,               \* QUEUELOCK_SEM_EMPTY as make_queue sets it
          Tries,                 \* (q->end - q->start) / QHDRSZ
          MinSlots, MaxSlots

Procs == Producers \cup Consumers

ASSUME ProcAssumption ==
  /\ IsFiniteSet(Producers) /\ IsFiniteSet(Consumers)
  /\ Producers \cap Consumers = {}
  /\ MayBlock \subseteq Procs /\ MayTry \subseteq Procs
  /\ Mortal \subseteq Procs /\ Clearers \subseteq Producers

ASSUME SizeAssumption ==
  /\ Empties \in Nat /\ Tries \in Nat \ {0} /\ Tries <= Empties
  /\ MinSlots \in Nat /\ MaxSlots \in Nat /\ MinSlots <= MaxSlots

VARIABLES
  pc,       \* where each process is inside enqueue or dequeue
  blk,      \* its isBlocking argument
  tries,    \* attempts enqueue has left
  res,      \* what enqueue_elt or dequeue_elt last told it
  mutex, full, empty,  \* the three semaphores
  numelts   \* q->numelts

vars == <<pc, blk, tries, res, mutex, full, empty, numelts>>

Goto(p, from, to) == pc[p] = from /\ pc' = [pc EXCEPT ![p] = to]

InCS(p) == pc[p] \in {"elt", "unlock"}

-----------------------------------------------------------------------------
(* make_queue and make_lock_sem *)
Init ==
  /\ pc = [p \in Procs |-> "idle"]
  /\ blk = [p \in Procs |-> FALSE]
  /\ tries = [p \in Procs |-> 0]
  /\ res = [p \in Procs |-> "none"]
  /\ mutex = 1 /\ full = 0 /\ empty = Empties
  /\ numelts = 0

Begin(p, down) ==
  /\ Goto(p, "idle", down)
  /\ \/ p \in MayBlock /\ blk' = [blk EXCEPT ![p] = TRUE]
     \/ p \in MayTry /\ blk' = [blk EXCEPT ![p] = FALSE]
  /\ tries' = [tries EXCEPT ![p] = Tries]
  /\ res' = [res EXCEPT ![p] = "none"]
  /\ UNCHANGED <<mutex, full, empty, numelts>>

MutexLock_mutant(p) ==   \* mutant: tests the mutex without taking it
  Goto(p, "lock", "elt") /\ mutex > 0 /\ UNCHANGED <<blk, tries, res, mutex, full, empty, numelts>>

MutexLock(p) ==
  /\ Goto(p, "lock", "elt")
  /\ mutex > 0 /\ mutex' = mutex - 1
  /\ UNCHANGED <<blk, tries, res, full, empty, numelts>>

-----------------------------------------------------------------------------
(* enqueue *)

BeginEnqueue(p) == p \in Producers /\ Begin(p, "empty_down")

EmptyDown_mutant(p) ==   \* mutant: trylock for every caller
  /\ Goto(p, "empty_down", "lock")
  /\ empty' = IF empty > 0 THEN empty - 1 ELSE empty
  /\ tries' = [tries EXCEPT ![p] = @ - 1]
  /\ UNCHANGED <<blk, res, mutex, full, numelts>>

(* A blocking caller waits for a slot; the result of the other's trylock is
   ignored. *)
EmptyDown(p) ==
  /\ Goto(p, "empty_down", "lock")
  /\ blk[p] => empty > 0
  /\ empty' = IF empty > 0 THEN empty - 1 ELSE empty
  /\ tries' = [tries EXCEPT ![p] = @ - 1]
  /\ UNCHANGED <<blk, res, mutex, full, numelts>>

EnqueueElt(p) ==
  /\ p \in Producers
  /\ Goto(p, "elt", "unlock")
  /\ \/ /\ numelts < MaxSlots
        /\ numelts' = numelts + 1
        /\ res' = [res EXCEPT ![p] = "ok"]
     \/ /\ numelts >= MinSlots
        /\ res' = [res EXCEPT ![p] = IF numelts = 0 THEN "breakout" ELSE "refused"]
        /\ UNCHANGED numelts
  /\ UNCHANGED <<blk, tries, mutex, full, empty>>


(* Where enqueue goes from the end of its critical section: the loop
   repeats for a blocking caller that was refused and has attempts left. *)
AfterEnqueue(p) ==
  IF res[p] = "ok" THEN "full_up"
  ELSE IF res[p] = "refused" /\ blk[p] /\ tries[p] > 0 THEN "empty_down" ELSE "idle"

EnqueueUnlock(p) ==
  /\ p \in Producers
  /\ Goto(p, "unlock", AfterEnqueue(p))
  /\ mutex' = mutex + 1
  /\ UNCHANGED <<blk, tries, res, full, empty, numelts>>

FullUp_mutant(p) ==   \* mutant: counts only the element that ends an empty spell
  /\ Goto(p, "full_up", "idle")
  /\ full' = IF numelts = 1 THEN full + 1 ELSE full
  /\ UNCHANGED <<blk, tries, res, mutex, empty, numelts>>

FullUp(p) ==
  /\ Goto(p, "full_up", "idle")
  /\ full' = full + 1
  /\ UNCHANGED <<blk, tries, res, mutex, empty, numelts>>

-----------------------------------------------------------------------------
(* dequeue *)

BeginDequeue(c) == c \in Consumers /\ Begin(c, "full_down")

FullDown_mutant(c) ==   \* mutant: trylock for every caller
  /\ Goto(c, "full_down", "lock")
  /\ full' = IF full > 0 THEN full - 1 ELSE full
  /\ UNCHANGED <<blk, tries, res, mutex, empty, numelts>>

FullDown(c) ==
  /\ Goto(c, "full_down", "lock")
  /\ blk[c] => full > 0
  /\ full' = IF full > 0 THEN full - 1 ELSE full
  /\ UNCHANGED <<blk, tries, res, mutex, empty, numelts>>

DequeueElt(c) ==
  /\ c \in Consumers
  /\ Goto(c, "elt", "unlock")
  /\ \/ numelts > 0 /\ numelts' = numelts - 1 /\ res' = [res EXCEPT ![c] = "ok"]
     \/ numelts = 0 /\ UNCHANGED numelts /\ res' = [res EXCEPT ![c] = "nothing"]
  /\ UNCHANGED <<blk, tries, mutex, full, empty>>

AfterDequeue(c) == IF res[c] = "ok" THEN "empty_up" ELSE "idle"

DequeueUnlock(c) ==
  /\ c \in Consumers
  /\ Goto(c, "unlock", AfterDequeue(c))
  /\ mutex' = mutex + 1
  /\ UNCHANGED <<blk, tries, res, full, empty, numelts>>

EmptyUp_mutant(c) ==   \* mutant: the slot is not given back
  Goto(c, "empty_up", "idle") /\ UNCHANGED <<blk, tries, res, mutex, full, empty, numelts>>

EmptyUp(c) ==
  /\ Goto(c, "empty_up", "idle")
  /\ empty' = empty + 1
  /\ UNCHANGED <<blk, tries, res, mutex, full, numelts>>

-----------------------------------------------------------------------------
(* clear_queue.  The only caller on a shared queue is remove_query, in the
   backend, after the frontend that reads the result queue has let go of it
   (QueryLifecycle), so nobody else is inside an operation. *)
ClearQueue(p) ==
  /\ p \in Clearers
  /\ \A o \in Procs : pc[o] \in {"idle", "dead"}
  /\ pc[p] = "idle" /\ mutex > 0
  /\ numelts' = 0 /\ full' = 0 /\ empty' = Tries
  /\ UNCHANGED <<pc, blk, tries, res, mutex>>

(* SIGTERM.  TCQSemaphoreLock runs with ImmediateInterruptOK set from before
   its semop until just after it, so die() may end the process while it
   waits, *)
DieWaiting(p) ==
  /\ p \in Mortal
  /\ pc[p] \in {"empty_down", "full_down", "lock"}
  /\ pc' = [pc EXCEPT ![p] = "dead"]
  /\ UNCHANGED <<blk, tries, res, mutex, full, empty, numelts>>

(* or when the semop has succeeded and nothing records it yet. *)
DieAcquired(p) ==
  /\ p \in Mortal
  /\ \/ /\ pc[p] = "lock" /\ mutex > 0 /\ mutex' = mutex - 1
        /\ UNCHANGED <<full, empty>>
     \/ /\ pc[p] = "empty_down" /\ blk[p] /\ empty > 0 /\ empty' = empty - 1
        /\ UNCHANGED <<mutex, full>>
     \/ /\ pc[p] = "full_down" /\ blk[p] /\ full > 0 /\ full' = full - 1
        /\ UNCHANGED <<mutex, empty>>
  /\ pc' = [pc EXCEPT ![p] = "dead"]
  /\ UNCHANGED <<blk, tries, res, numelts>>

-----------------------------------------------------------------------------
EnqueueStep(p) ==
  EmptyDown(p) \/ MutexLock(p) \/ EnqueueElt(p) \/ EnqueueUnlock(p) \/ FullUp(p)

DequeueStep(c) ==
  FullDown(c) \/ MutexLock(c) \/ DequeueElt(c) \/ DequeueUnlock(c) \/ EmptyUp(c)

Next ==
  \/ \E p \in Producers : BeginEnqueue(p) \/ EnqueueStep(p) \/ ClearQueue(p)
  \/ \E c \in Consumers : BeginDequeue(c) \/ DequeueStep(c)
  \/ \E p \in Procs : DieWaiting(p) \/ DieAcquired(p)

Spec == Init /\ [][Next]_vars

(* Every process inside an operation keeps running, the kernel serves the
   waiters of a semaphore in turn, and a consumer keeps coming back: the
   backend's main loop reads the plan queue on every pass. *)
Fairness ==
  /\ \A p \in Producers : /\ SF_vars(EmptyDown(p)) /\ SF_vars(MutexLock(p))
                          /\ WF_vars(EnqueueElt(p) \/ EnqueueUnlock(p) \/ FullUp(p))
  /\ \A c \in Consumers : /\ SF_vars(FullDown(c)) /\ SF_vars(MutexLock(c))
                          /\ WF_vars(BeginDequeue(c) \/ DequeueElt(c) \/ DequeueUnlock(c) \/ EmptyUp(c))

FairSpec == Spec /\ Fairness

-----------------------------------------------------------------------------
(* The values the variables take. *)
TypeOK ==
  /\ pc \in [Procs -> {"idle", "empty_down", "full_down", "lock", "elt",
                       "unlock", "full_up", "empty_up", "dead"}]
  /\ blk \in [Procs -> BOOLEAN]
  /\ tries \in [Procs -> 0 .. Tries]
  /\ res \in [Procs -> {"none", "ok", "refused", "breakout", "nothing"}]
  /\ mutex \in {0, 1} /\ full \in Nat /\ empty \in Nat
  /\ numelts \in 0 .. MaxSlots

(* At most one process is between mutex_lock and mutex_unlock. *)
MutualExclusion == \A p, o \in Procs : InCS(p) /\ InCS(o) => p = o

(* A taken mutex has a holder that will release it.  The comment in
   TCQSemaphoreLock explains why a process must not be interrupted between
   acquiring a lock and recording that it did. *)
MutexHasHolder == mutex = 0 => \E p \in Procs : InCS(p)

(* Producers whose element is in the queue and not yet counted, and
   consumers that have taken a count and not yet an element. *)
Unannounced == {p \in Producers : pc[p] = "full_up" \/ (pc[p] = "unlock" /\ res[p] = "ok")}
Claiming == {c \in Consumers : pc[c] \in {"lock", "elt"}}

(* No wakeup is lost: every element in the queue is counted by
   QUEUELOCK_SEM_FULL, about to be counted by the producer that put it there,
   or about to be taken by a consumer that has used up its count.  A blocked
   dequeue therefore never sleeps on a queue with an element nobody is
   handling. *)
NoLostWakeup == numelts <= full + Cardinality(Unannounced) + Cardinality(Claiming)

(* A blocking dequeue that returns, returns an element ("clients block on
   dequeue ... if the queue is ... empty", resultq.h). *)
BlockingDequeueDelivers ==
  \A c \in Consumers : pc[c] = "unlock" /\ blk[c] => res[c] = "ok"

(* A blocking enqueue never uses up its attempts while it is being refused,
   so that it never returns false because the queue is full.  Frontends
   ignore the result of their blocking enqueue on the plan queue. *)
BlockingEnqueueNeverGivesUp ==
  \A p \in Producers : pc[p] = "unlock" /\ blk[p] /\ res[p] = "refused" => tries[p] > 0

(* An element in the queue is taken while a consumer waits for one. *)
WaitingConsumerServed ==
  \A c \in Consumers : (pc[c] = "full_down" /\ numelts > 0) ~> (pc[c] = "idle")

(* A blocking enqueue returns, although every refused attempt costs the
   queue a count of QUEUELOCK_SEM_EMPTY for good. *)
BlockingEnqueueReturns ==
  \A p \in Producers : (pc[p] = "empty_down") ~> (pc[p] = "idle")
=============================================================================
