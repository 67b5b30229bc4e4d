------------------------- MODULE SharedQueue_proofs -------------------------
(***************************************************************************)
(* Proofs of the safety properties of SharedQueue, for any number of       *)
(* processes and any sizes.                                                *)
(***************************************************************************)
EXTENDS SharedQueue, FiniteSetTheorems, TLAPS

(* The mutex is 1 only while nobody is in the critical section, and two
   processes are never in it together.  A dead process may have left it 0. *)
MutexInv ==
  /\ mutex = 1 => \A p \in Procs : ~InCS(p)
  /\ MutualExclusion

(* A process about to make an attempt has one left, and only producers wait
   for empty slots, only consumers for elements. *)
ControlInv ==
  /\ \A p \in Procs : pc[p] = "empty_down" => p \in Producers /\ tries[p] > 0
  /\ \A p \in Procs : pc[p] \in {"full_down", "empty_up"} => p \in Consumers
  /\ \A p \in Procs : pc[p] = "full_up" => p \in Producers

Safe == TypeOK /\ MutexInv /\ ControlInv

LEMMA InitSafe == Init => Safe
  BY ProcAssumption, SizeAssumption
  DEF Init, Safe, TypeOK, MutexInv, MutualExclusion, ControlInv, InCS

(* Stated apart because the SMT backend does not reason about Booleans in
   functions. *)
LEMMA BeginTypes ==
  ASSUME NEW p \in Procs, NEW down, TypeOK, Begin(p, down)
  PROVE  blk' \in [Procs -> BOOLEAN]
<1>1. blk' = [blk EXCEPT ![p] = TRUE] \/ blk' = [blk EXCEPT ![p] = FALSE]
  BY DEF Begin
<1> QED
  BY <1>1, Zenon DEF TypeOK

LEMMA NextSafe == Safe /\ [Next]_vars => Safe'
<1> SUFFICES ASSUME Safe, [Next]_vars PROVE Safe'
  OBVIOUS
<1> USE ProcAssumption, SizeAssumption DEF Safe, TypeOK, MutexInv, MutualExclusion, ControlInv, InCS, Procs
<1>1. ASSUME NEW p \in Producers, BeginEnqueue(p) PROVE Safe'
  <2>1. Begin(p, "empty_down")
    BY <1>1 DEF BeginEnqueue
  <2>2. blk' \in [Procs -> BOOLEAN]
    BY <2>1, BeginTypes
  <2> QED
    BY <2>1, <2>2 DEF Begin, Goto
<1>2. ASSUME NEW p \in Procs, MutexLock(p) PROVE Safe'
  BY <1>2 DEF MutexLock, Goto
<1>3. ASSUME NEW p \in Producers, EmptyDown(p) PROVE Safe'
  BY <1>3 DEF EmptyDown, Goto
<1>4. ASSUME NEW p \in Producers, EnqueueElt(p) PROVE Safe'
  BY <1>4 DEF EnqueueElt, Goto
<1>5. ASSUME NEW p \in Producers, EnqueueUnlock(p) PROVE Safe'
  BY <1>5 DEF EnqueueUnlock, AfterEnqueue, Goto
<1>6. ASSUME NEW p \in Producers, FullUp(p) PROVE Safe'
  BY <1>6 DEF FullUp, Goto
<1>7. ASSUME NEW p \in Producers, ClearQueue(p) PROVE Safe'
  BY <1>7 DEF ClearQueue
<1>8. ASSUME NEW c \in Consumers, BeginDequeue(c) PROVE Safe'
  <2>1. Begin(c, "full_down")
    BY <1>8 DEF BeginDequeue
  <2>2. blk' \in [Procs -> BOOLEAN]
    BY <2>1, BeginTypes
  <2> QED
    BY <2>1, <2>2 DEF Begin, Goto
<1>9. ASSUME NEW c \in Consumers, FullDown(c) PROVE Safe'
  BY <1>9 DEF FullDown, Goto
<1>10. ASSUME NEW c \in Consumers, DequeueElt(c) PROVE Safe'
  BY <1>10 DEF DequeueElt, Goto
<1>11. ASSUME NEW c \in Consumers, DequeueUnlock(c) PROVE Safe'
  BY <1>11 DEF DequeueUnlock, AfterDequeue, Goto
<1>12. ASSUME NEW c \in Consumers, EmptyUp(c) PROVE Safe'
  BY <1>12 DEF EmptyUp, Goto
<1>13. ASSUME NEW p \in Procs, DieWaiting(p) PROVE Safe'
  BY <1>13 DEF DieWaiting
<1>14. ASSUME NEW p \in Procs, DieAcquired(p) PROVE Safe'
  BY <1>14 DEF DieAcquired
<1>15. CASE UNCHANGED vars
  BY <1>15 DEF vars
<1> QED
  BY <1>1, <1>2, <1>3, <1>4, <1>5, <1>6, <1>7, <1>8, <1>9, <1>10, <1>11, <1>12,
     <1>13, <1>14, <1>15 DEF Next, EnqueueStep, DequeueStep

(* Type correctness of enqueue, dequeue and clear_queue. *)
THEOREM TypeCorrect == Spec => []TypeOK
<1>1. Safe => TypeOK
  BY DEF Safe
<1> QED
  BY <1>1, InitSafe, NextSafe, PTL DEF Spec

(* mutex_lock and mutex_unlock give mutual exclusion, even when processes
   are terminated inside TCQSemaphoreLock. *)
THEOREM Exclusion == Spec => []MutualExclusion
<1>1. Safe => MutualExclusion
  BY DEF Safe, MutexInv
<1> QED
  BY <1>1, InitSafe, NextSafe, PTL DEF Spec

-----------------------------------------------------------------------------
(* A taken mutex has a live holder as long as no process can be terminated
   inside TCQSemaphoreLock. *)
THEOREM HolderExists ==
  ASSUME Mortal = {}
  PROVE  Spec => []MutexHasHolder
<1>1. Init => MutexHasHolder
  BY DEF Init, MutexHasHolder
<1>2. Safe /\ MutexHasHolder /\ [Next]_vars => MutexHasHolder'
  <2> SUFFICES ASSUME Safe, MutexHasHolder, [Next]_vars, mutex' = 0
               PROVE  \E p \in Procs : InCS(p)'
    BY DEF MutexHasHolder
  <2> USE DEF Safe, TypeOK, Procs, InCS
  <2>1. ASSUME NEW p \in Procs, MutexLock(p) PROVE InCS(p)'
    BY <2>1 DEF MutexLock, Goto
  <2>2. ASSUME NEW p \in Procs, EnqueueUnlock(p) \/ DequeueUnlock(p) PROVE FALSE
    BY <2>2 DEF EnqueueUnlock, DequeueUnlock
  <2>3. ASSUME NEW p \in Procs, EnqueueElt(p) \/ DequeueElt(p) PROVE InCS(p)'
    BY <2>3 DEF EnqueueElt, DequeueElt, Goto
  <2>4. ASSUME mutex' = mutex,
               \A p \in Procs : pc[p] = "unlock" \/ pc[p] = "elt" => pc'[p] = pc[p]
        PROVE  \E p \in Procs : InCS(p)'
    BY <2>4 DEF MutexHasHolder
  <2>5. ASSUME NEW p \in Producers,
               BeginEnqueue(p) \/ EmptyDown(p) \/ FullUp(p) \/ ClearQueue(p)
        PROVE  \E o \in Procs : InCS(o)'
    BY <2>5, <2>4 DEF BeginEnqueue, Begin, EmptyDown, FullUp, ClearQueue, Goto
  <2>6. ASSUME NEW c \in Consumers, BeginDequeue(c) \/ FullDown(c) \/ EmptyUp(c)
        PROVE  \E o \in Procs : InCS(o)'
    BY <2>6, <2>4 DEF BeginDequeue, Begin, FullDown, EmptyUp, Goto
  <2>7. CASE UNCHANGED vars
    BY <2>7, <2>4 DEF vars
  <2>8. ~ \E p \in Procs : DieWaiting(p) \/ DieAcquired(p)
    BY DEF DieWaiting, DieAcquired
  <2> QED
    BY <2>1, <2>2, <2>3, <2>5, <2>6, <2>7, <2>8 DEF Next, EnqueueStep, DequeueStep
<1> QED
  BY <1>1, <1>2, InitSafe, NextSafe, PTL DEF Spec

-----------------------------------------------------------------------------
(* What adding or removing a process does to the size of a finite set. *)
LEMMA CardStep ==
  ASSUME NEW S, IsFiniteSet(S), NEW x
  PROVE  /\ Cardinality(S) \in Nat
         /\ x \notin S => Cardinality(S \cup {x}) = Cardinality(S) + 1
         /\ x \in S => Cardinality(S \ {x}) = Cardinality(S) - 1
         /\ x \in S => Cardinality(S) > 0
<1>1. Cardinality(S) \in Nat /\ Cardinality(S \ {x}) \in Nat
  BY FS_CardinalityType, FS_RemoveElement
<1>2. x \notin S => Cardinality(S \cup {x}) = Cardinality(S) + 1
  BY FS_AddElement
<1>3. x \in S => Cardinality(S \ {x}) = Cardinality(S) - 1
  BY FS_RemoveElement
<1> QED
  BY <1>1, <1>2, <1>3

LEMMA FiniteProcs ==
  /\ IsFiniteSet(Unannounced) /\ IsFiniteSet(Claiming)
  /\ Cardinality(Unannounced) \in Nat /\ Cardinality(Claiming) \in Nat
<1>1. IsFiniteSet(Unannounced) /\ IsFiniteSet(Claiming)
  BY ProcAssumption, FS_Subset DEF Unannounced, Claiming
<1> QED
  BY <1>1, FS_CardinalityType

U == Cardinality(Unannounced)
C == Cardinality(Claiming)

(* What one step does to the numbers NoLostWakeup relates. *)
PutStep == numelts' = numelts + 1 /\ full' = full /\ U' = U + 1 /\ C' = C
AnnounceStep == numelts' = numelts /\ full' = full + 1 /\ U' = U - 1 /\ C' = C
ClaimStep == full > 0 /\ numelts' = numelts /\ full' = full - 1 /\ U' = U /\ C' = C + 1
TryStep == full = 0 /\ numelts' = numelts /\ full' = full /\ U' = U /\ C' = C + 1
TakeStep == numelts > 0 /\ numelts' = numelts - 1 /\ full' = full /\ U' = U /\ C' = C - 1
MissStep == numelts = 0 /\ numelts' = 0 /\ full' = full /\ U' = U /\ C' = C - 1
ClearStep == numelts' = 0 /\ full' = 0 /\ U' = 0 /\ C' = 0
QuietStep == numelts' = numelts /\ full' = full /\ U' = U /\ C' = C

LEMMA CountStep ==
  ASSUME Safe, [Next]_vars, Consumers \cap Mortal = {}
  PROVE  \/ PutStep \/ AnnounceStep \/ ClaimStep \/ TakeStep \/ ClearStep \/ QuietStep
         \/ MissStep /\ C > 0
         \/ TryStep /\ \E c \in Consumers : pc[c] = "full_down" /\ ~blk[c]
<1> USE ProcAssumption, FiniteProcs DEF Safe, TypeOK, Procs
<1>1. ASSUME UNCHANGED <<Unannounced, Claiming, numelts, full>> PROVE QuietStep
  BY <1>1 DEF QuietStep, U, C
<1>2. ASSUME NEW p \in Procs, MutexLock(p) PROVE QuietStep
  <2>1. UNCHANGED <<Unannounced, Claiming>>
    BY <1>2 DEF MutexLock, Goto, Unannounced, Claiming
  <2> QED
    BY <2>1, <1>1, <1>2 DEF MutexLock
<1>3. ASSUME NEW p \in Producers, BeginEnqueue(p) \/ EmptyDown(p) PROVE QuietStep
  <2>1. UNCHANGED <<Unannounced, Claiming>>
    BY <1>3 DEF BeginEnqueue, Begin, EmptyDown, Goto, Unannounced, Claiming
  <2> QED
    BY <2>1, <1>1, <1>3 DEF BeginEnqueue, Begin, EmptyDown
<1>4. ASSUME NEW p \in Producers, EnqueueElt(p) PROVE PutStep \/ QuietStep
  <2>1. Claiming' = Claiming
    BY <1>4 DEF EnqueueElt, Goto, Claiming
  <2>2. CASE res' = [res EXCEPT ![p] = "ok"] /\ numelts' = numelts + 1
    <3>1. p \notin Unannounced /\ Unannounced' = Unannounced \cup {p}
      BY <1>4, <2>2 DEF EnqueueElt, Goto, Unannounced
    <3> QED
      BY <1>4, <2>1, <2>2, <3>1, CardStep DEF PutStep, EnqueueElt, U, C
  <2>3. CASE /\ UNCHANGED numelts
             /\ res' = [res EXCEPT ![p] = IF numelts = 0 THEN "breakout" ELSE "refused"]
    <3>1. Unannounced' = Unannounced
      BY <1>4, <2>3 DEF EnqueueElt, Goto, Unannounced
    <3> QED
      BY <1>1, <1>4, <2>1, <2>3, <3>1 DEF EnqueueElt
  <2> QED
    BY <1>4, <2>2, <2>3 DEF EnqueueElt
<1>5. ASSUME NEW p \in Producers, EnqueueUnlock(p) PROVE QuietStep
  <2>1. UNCHANGED <<Unannounced, Claiming>>
    BY <1>5 DEF EnqueueUnlock, AfterEnqueue, Goto, Unannounced, Claiming
  <2> QED
    BY <2>1, <1>1, <1>5 DEF EnqueueUnlock
<1>6. ASSUME NEW p \in Producers, FullUp(p) PROVE AnnounceStep
  <2>1. Claiming' = Claiming /\ p \in Unannounced /\ Unannounced' = Unannounced \ {p}
    BY <1>6 DEF FullUp, Goto, Unannounced, Claiming
  <2> QED
    BY <1>6, <2>1, CardStep DEF AnnounceStep, FullUp, U, C
<1>7. ASSUME NEW p \in Producers, ClearQueue(p) PROVE ClearStep
  <2>1. Unannounced' = {} /\ Claiming' = {}
    BY <1>7 DEF ClearQueue, Unannounced, Claiming
  <2> QED
    BY <1>7, <2>1, FS_EmptySet DEF ClearStep, ClearQueue, U, C
<1>8. ASSUME NEW c \in Consumers, BeginDequeue(c) \/ DequeueUnlock(c) \/ EmptyUp(c)
      PROVE  QuietStep
  <2>1. UNCHANGED <<Unannounced, Claiming>>
    BY <1>8 DEF BeginDequeue, Begin, DequeueUnlock, AfterDequeue, EmptyUp, Goto,
                Unannounced, Claiming
  <2> QED
    BY <2>1, <1>1, <1>8 DEF BeginDequeue, Begin, DequeueUnlock, EmptyUp
<1>9. ASSUME NEW c \in Consumers, FullDown(c)
      PROVE  ClaimStep \/ (TryStep /\ pc[c] = "full_down" /\ ~blk[c])
  <2>1. Unannounced' = Unannounced /\ c \notin Claiming /\ Claiming' = Claiming \cup {c}
    BY <1>9 DEF FullDown, Goto, Unannounced, Claiming
  <2>2. U' = U /\ C' = C + 1
    BY <2>1, CardStep DEF U, C
  <2>3. CASE full > 0
    BY <1>9, <2>2, <2>3 DEF ClaimStep, FullDown
  <2>4. CASE ~(full > 0)
    BY <1>9, <2>2, <2>4 DEF TryStep, FullDown, Goto
  <2> QED
    BY <2>3, <2>4
<1>10. ASSUME NEW c \in Consumers, DequeueElt(c) PROVE TakeStep \/ (MissStep /\ C > 0)
  <2>1. Unannounced' = Unannounced /\ c \in Claiming /\ Claiming' = Claiming \ {c}
    BY <1>10 DEF DequeueElt, Goto, Unannounced, Claiming
  <2>2. U' = U /\ C' = C - 1 /\ C > 0
    BY <2>1, CardStep DEF U, C
  <2> QED
    BY <1>10, <2>2 DEF TakeStep, MissStep, DequeueElt
<1>11. ASSUME NEW p \in Procs, DieWaiting(p) \/ DieAcquired(p) PROVE QuietStep
  <2>1. p \in Producers /\ p \notin Consumers
    BY <1>11 DEF DieWaiting, DieAcquired
  <2>2. UNCHANGED <<Unannounced, Claiming, numelts, full>>
    BY <1>11, <2>1 DEF DieWaiting, DieAcquired, Unannounced, Claiming, ControlInv
  <2> QED
    BY <2>2, <1>1
<1>12. CASE UNCHANGED vars
  <2>1. UNCHANGED <<Unannounced, Claiming, numelts, full>>
    BY <1>12 DEF vars, Unannounced, Claiming
  <2> QED
    BY <2>1, <1>1
<1> QED
  BY <1>2, <1>3, <1>4, <1>5, <1>6, <1>7, <1>8, <1>9, <1>10, <1>11, <1>12
  DEF Next, EnqueueStep, DequeueStep

(* A blocked dequeue never sleeps on a queue with an unhandled element, for
   any mixture of blocking and nonblocking callers, and even when producers
   are terminated.  (A terminated consumer takes its count with it.) *)
THEOREM WakeupKept ==
  ASSUME Consumers \cap Mortal = {}
  PROVE  Spec => []NoLostWakeup
<1>1. Init => NoLostWakeup
  BY FiniteProcs DEF Init, NoLostWakeup
<1>2. Safe /\ NoLostWakeup /\ [Next]_vars => NoLostWakeup'
  <2> SUFFICES ASSUME Safe, NoLostWakeup, [Next]_vars PROVE NoLostWakeup'
    OBVIOUS
  <2>1. U \in Nat /\ C \in Nat /\ full \in Nat /\ numelts \in Nat /\ numelts <= full + U + C
    BY FiniteProcs, SizeAssumption DEF U, C, NoLostWakeup, Safe, TypeOK
  <2>2. numelts' <= full' + U' + C'
    BY <2>1, CountStep DEF PutStep, AnnounceStep, ClaimStep, TryStep, TakeStep, MissStep,
                           ClearStep, QuietStep
  <2> QED
    BY <2>2 DEF NoLostWakeup, U, C
<1> QED
  BY <1>1, <1>2, InitSafe, NextSafe, PTL DEF Spec

-----------------------------------------------------------------------------
(* Where every dequeue blocks and no consumer is terminated, the semaphore
   count is exact, and a consumer that holds a count finds an element. *)
ExactInv ==
  /\ numelts = full + U + C
  /\ \A c \in Consumers : pc[c] = "full_down" => blk[c]
  /\ BlockingDequeueDelivers

(* A blocking dequeue on a result queue, whose only reader is the frontend's
   ScanQueue node, returns an element: false never reaches ExecScanQueue,
   which would take it for the end of the results. *)
THEOREM DequeueDelivers ==
  ASSUME Consumers \cap Mortal = {}, Consumers \cap MayTry = {}
  PROVE  Spec => []BlockingDequeueDelivers
<1>1. Init => ExactInv
  <2> SUFFICES ASSUME Init PROVE ExactInv
    OBVIOUS
  <2>1. Unannounced = {} /\ Claiming = {}
    BY DEF Init, Unannounced, Claiming, Procs
  <2> QED
    BY <2>1, FS_EmptySet DEF Init, ExactInv, U, C, BlockingDequeueDelivers, Procs
<1>2. Safe /\ ExactInv /\ [Next]_vars => ExactInv'
  <2> SUFFICES ASSUME Safe, ExactInv, [Next]_vars PROVE ExactInv'
    OBVIOUS
  <2>1. U \in Nat /\ C \in Nat /\ full \in Nat /\ numelts \in Nat
    BY FiniteProcs, SizeAssumption DEF U, C, Safe, TypeOK
  <2>2. numelts' = full' + U' + C'
    BY <2>1, CountStep DEF ExactInv, PutStep, AnnounceStep, ClaimStep, TryStep, TakeStep,
                           MissStep, ClearStep, QuietStep
  <2> USE ProcAssumption DEF Safe, TypeOK, Procs
  <2>3. ASSUME NEW c \in Consumers, pc'[c] = "full_down" PROVE blk'[c]
    <3>1. CASE pc[c] = "full_down" /\ blk'[c] = blk[c]
      BY <3>1 DEF ExactInv
    <3>2. CASE BeginDequeue(c)
      <4>1. blk' = [blk EXCEPT ![c] = TRUE]
        BY <3>2 DEF BeginDequeue, Begin
      <4> QED
        BY <4>1, Zenon
    <3>3. CASE \E p \in Producers : BeginEnqueue(p)
      <4> PICK p \in Producers : Begin(p, "empty_down")
        BY <3>3 DEF BeginEnqueue
      <4>1. pc[c] = "full_down" /\ blk'[c] = blk[c]
        BY <2>3 DEF Begin, Goto
      <4> QED
        BY <4>1 DEF ExactInv
    <3>4. CASE \E o \in Consumers \ {c} : BeginDequeue(o)
      <4> PICK o \in Consumers \ {c} : Begin(o, "full_down")
        BY <3>4 DEF BeginDequeue
      <4>1. pc[c] = "full_down" /\ blk'[c] = blk[c]
        BY <2>3 DEF Begin, Goto
      <4> QED
        BY <4>1 DEF ExactInv
    <3>5. ASSUME ~BeginDequeue(c), ~ \E p \in Producers : BeginEnqueue(p),
                 ~ \E o \in Consumers \ {c} : BeginDequeue(o)
          PROVE  pc[c] = "full_down" /\ blk' = blk
      BY <2>3, <3>5 DEF Next, EnqueueStep, DequeueStep, MutexLock, EmptyDown, EnqueueElt,
         EnqueueUnlock, AfterEnqueue, FullUp, FullDown, DequeueElt, DequeueUnlock, AfterDequeue,
         EmptyUp, ClearQueue, DieWaiting, DieAcquired, Goto, vars
    <3> QED
      BY <3>1, <3>2, <3>3, <3>4, <3>5
  <2>4. ASSUME NEW c \in Consumers, pc'[c] = "unlock" PROVE blk'[c] => res'[c] = "ok"
    <3>1. CASE DequeueElt(c)
      <4>1. c \in Claiming
        BY <3>1 DEF DequeueElt, Goto, Claiming
      <4>2. C > 0
        BY <4>1, FiniteProcs, CardStep, Zenon DEF C
      <4>3. numelts > 0
        BY <2>1, <4>2 DEF ExactInv
      <4> QED
        BY <3>1, <4>3 DEF DequeueElt
    <3>2. ASSUME ~DequeueElt(c)
          PROVE  pc[c] = "unlock" /\ blk'[c] = blk[c] /\ res'[c] = res[c]
      BY <2>4, <3>2 DEF Next, EnqueueStep, DequeueStep, BeginEnqueue, BeginDequeue, Begin,
         MutexLock, EmptyDown, EnqueueElt, EnqueueUnlock, AfterEnqueue, FullUp, FullDown,
         DequeueElt, DequeueUnlock, AfterDequeue, EmptyUp, ClearQueue, DieWaiting, DieAcquired,
         Goto, vars
    <3> QED
      BY <3>1, <3>2, Zenon DEF ExactInv, BlockingDequeueDelivers
  <2> QED
    BY <2>2, <2>3, <2>4 DEF ExactInv, BlockingDequeueDelivers
<1>3. ExactInv => BlockingDequeueDelivers
  BY DEF ExactInv
<1> QED
  BY <1>1, <1>2, <1>3, InitSafe, NextSafe, PTL DEF Spec

-----------------------------------------------------------------------------
(* Producers that have taken a count of QUEUELOCK_SEM_EMPTY and not yet used
   or wasted it, and consumers that have yet to give one back. *)
Holding == {p \in Producers : pc[p] \in {"lock", "elt"}}
Returning == {c \in Consumers : pc[c] = "empty_up" \/ (pc[c] = "unlock" /\ res[c] = "ok")}

H == Cardinality(Holding)
R == Cardinality(Returning)

(* The counts in existence. *)
Credits == empty + numelts + H + R

(* The counts the enqueue in progress in p has wasted so far. *)
Wasted(p) ==
  IF pc[p] = "empty_down" \/ (pc[p] = "unlock" /\ res[p] = "refused") THEN Tries - tries[p]
  ELSE IF pc[p] \in {"lock", "elt"} THEN Tries - tries[p] - 1 ELSE 0

(* A wasted count is gone for good, so that a producer that keeps being
   refused drains the counts every other producer would need to keep the
   queue full. *)
CreditInv ==
  /\ \A p \in Producers : Credits + Wasted(p) <= Empties
  /\ \A p \in Producers : pc[p] = "empty_down" => blk[p]
  /\ \A p \in Producers : pc[p] \in {"lock", "elt"} => tries[p] < Tries
  /\ \A p \in Producers : pc[p] = "unlock" /\ res[p] = "refused" => tries[p] > 0

LEMMA CreditTypes ==
  ASSUME Safe
  PROVE  /\ IsFiniteSet(Holding) /\ IsFiniteSet(Returning)
         /\ H \in Nat /\ R \in Nat /\ Credits \in Nat
         /\ \A p \in Producers : Wasted(p) \in Int /\ Wasted(p) <= Tries
<1>1. IsFiniteSet(Holding) /\ IsFiniteSet(Returning)
  BY ProcAssumption, FS_Subset DEF Holding, Returning
<1>2. H \in Nat /\ R \in Nat
  BY <1>1, FS_CardinalityType DEF H, R
<1>3. Credits \in Nat
  BY <1>2, SizeAssumption DEF Credits, Safe, TypeOK
<1>4. \A p \in Producers : Wasted(p) \in Int /\ Wasted(p) <= Tries
  BY SizeAssumption DEF Wasted, Safe, TypeOK, Procs
<1> QED
  BY <1>1, <1>2, <1>3, <1>4

(* No step raises a producer's sum of existing and wasted counts above the
   initial count. *)
LEMMA CreditStep ==
  ASSUME Safe, CreditInv, [Next]_vars, NEW o \in Producers
  PROVE  Credits' + Wasted(o)' <= Empties
<1> USE ProcAssumption, SizeAssumption, CreditTypes DEF Safe, TypeOK, Procs
<1>1. /\ Credits + Wasted(o) <= Empties /\ Credits \in Nat
      /\ Wasted(o) \in Int /\ Wasted(o) >= 0
  BY DEF CreditInv, Wasted
<1>2. ASSUME UNCHANGED <<Holding, Returning, empty, numelts>> PROVE Credits' = Credits
  BY <1>2 DEF Credits, H, R
<1>3. ASSUME NEW p \in Producers, BeginEnqueue(p) PROVE Credits' + Wasted(o)' <= Empties
  <2>1. UNCHANGED <<Holding, Returning, empty, numelts>>
    BY <1>3 DEF BeginEnqueue, Begin, Goto, Holding, Returning
  <2>2. Wasted(o)' = Wasted(o)
    BY <1>3 DEF BeginEnqueue, Begin, Goto, Wasted
  <2> QED
    BY <1>1, <1>2, <2>1, <2>2
<1>4. ASSUME NEW p \in Producers, EmptyDown(p) PROVE Credits' + Wasted(o)' <= Empties
  <2>1. p \notin Holding /\ Holding' = Holding \cup {p} /\ Returning' = Returning
    BY <1>4 DEF EmptyDown, Goto, Holding, Returning
  <2>2. H' = H + 1 /\ R' = R
    BY <2>1, CardStep DEF H, R
  <2>3. empty' = empty - 1 /\ numelts' = numelts
    BY <1>4 DEF EmptyDown, Goto, CreditInv
  <2>4. Credits' = Credits
    BY <2>2, <2>3 DEF Credits
  <2>5. Wasted(o)' = Wasted(o)
    BY <1>4 DEF EmptyDown, Goto, Wasted
  <2> QED
    BY <1>1, <2>4, <2>5
<1>5. ASSUME NEW p \in Procs, MutexLock(p) PROVE Credits' + Wasted(o)' <= Empties
  <2>1. UNCHANGED <<Holding, Returning, empty, numelts>>
    BY <1>5 DEF MutexLock, Goto, Holding, Returning
  <2>2. Wasted(o)' = Wasted(o)
    BY <1>5 DEF MutexLock, Goto, Wasted
  <2> QED
    BY <1>1, <1>2, <2>1, <2>2
<1>6. ASSUME NEW p \in Producers, EnqueueElt(p) PROVE Credits' + Wasted(o)' <= Empties
  <2>1. p \in Holding /\ Holding' = Holding \ {p} /\ Returning' = Returning
    BY <1>6 DEF EnqueueElt, Goto, Holding, Returning
  <2>2. H' = H - 1 /\ R' = R /\ empty' = empty
    BY <1>6, <2>1, CardStep DEF H, R, EnqueueElt
  <2>3. CASE numelts' = numelts + 1 /\ res' = [res EXCEPT ![p] = "ok"]
    <3>1. Credits' = Credits
      BY <2>2, <2>3 DEF Credits
    <3>2. Wasted(o)' <= Wasted(o) /\ Wasted(o)' \in Int
      BY <1>1, <1>6, <2>3 DEF EnqueueElt, Goto, Wasted
    <3> QED
      BY <1>1, <3>1, <3>2
  <2>4. CASE /\ UNCHANGED numelts
             /\ res' = [res EXCEPT ![p] = IF numelts = 0 THEN "breakout" ELSE "refused"]
    <3>1. Credits' = Credits - 1
      BY <2>2, <2>4 DEF Credits
    <3>2. Wasted(o)' <= Wasted(o) + 1 /\ Wasted(o)' \in Int
      BY <1>1, <1>6, <2>4 DEF EnqueueElt, Goto, Wasted
    <3> QED
      BY <1>1, <3>1, <3>2
  <2> QED
    BY <1>6, <2>3, <2>4 DEF EnqueueElt
<1>7. ASSUME NEW p \in Producers, EnqueueUnlock(p) PROVE Credits' + Wasted(o)' <= Empties
  <2>1. UNCHANGED <<Holding, Returning, empty, numelts>>
    BY <1>7 DEF EnqueueUnlock, AfterEnqueue, Goto, Holding, Returning
  <2>2. Wasted(o)' <= Wasted(o) /\ Wasted(o)' \in Int
    BY <1>1, <1>7 DEF EnqueueUnlock, AfterEnqueue, Goto, Wasted
  <2> QED
    BY <1>1, <1>2, <2>1, <2>2
<1>8. ASSUME NEW p \in Producers, FullUp(p) PROVE Credits' + Wasted(o)' <= Empties
  <2>1. UNCHANGED <<Holding, Returning, empty, numelts>>
    BY <1>8 DEF FullUp, Goto, Holding, Returning
  <2>2. Wasted(o)' = Wasted(o)
    BY <1>8 DEF FullUp, Goto, Wasted
  <2> QED
    BY <1>1, <1>2, <2>1, <2>2
<1>9. ASSUME NEW p \in Producers, ClearQueue(p) PROVE Credits' + Wasted(o)' <= Empties
  <2>1. Holding' = {} /\ Returning' = {}
    BY <1>9 DEF ClearQueue, Holding, Returning
  <2>2. Credits' = Tries
    BY <1>9, <2>1, FS_EmptySet DEF ClearQueue, Credits, H, R
  <2>3. Wasted(o)' = 0
    BY <1>9 DEF ClearQueue, Wasted
  <2> QED
    BY <2>2, <2>3
<1>10. ASSUME NEW c \in Consumers, BeginDequeue(c) \/ FullDown(c) \/ DequeueUnlock(c)
       PROVE  Credits' + Wasted(o)' <= Empties
  <2>1. UNCHANGED <<Holding, Returning, empty, numelts>>
    BY <1>10 DEF BeginDequeue, Begin, FullDown, DequeueUnlock, AfterDequeue, Goto, Holding, Returning
  <2>2. Wasted(o)' = Wasted(o)
    BY <1>10 DEF BeginDequeue, Begin, FullDown, DequeueUnlock, Goto, Wasted
  <2> QED
    BY <1>1, <1>2, <2>1, <2>2
<1>11. ASSUME NEW c \in Consumers, DequeueElt(c) PROVE Credits' + Wasted(o)' <= Empties
  <2>1. Wasted(o)' = Wasted(o) /\ Holding' = Holding /\ empty' = empty
    BY <1>11 DEF DequeueElt, Goto, Wasted, Holding
  <2>2. CASE numelts' = numelts - 1 /\ res' = [res EXCEPT ![c] = "ok"]
    <3>1. c \notin Returning /\ Returning' = Returning \cup {c}
      BY <1>11, <2>2 DEF DequeueElt, Goto, Returning
    <3>2. H' = H /\ R' = R + 1
      BY <2>1, <3>1, CardStep DEF H, R
    <3>3. Credits' = Credits
      BY <2>1, <2>2, <3>2 DEF Credits
    <3> QED
      BY <1>1, <2>1, <3>3
  <2>3. CASE UNCHANGED numelts /\ res' = [res EXCEPT ![c] = "nothing"]
    <3>1. Returning' = Returning
      BY <1>11, <2>3 DEF DequeueElt, Goto, Returning
    <3> QED
      BY <1>1, <1>2, <2>1, <2>3, <3>1
  <2> QED
    BY <1>11, <2>2, <2>3 DEF DequeueElt
<1>12. ASSUME NEW c \in Consumers, EmptyUp(c) PROVE Credits' + Wasted(o)' <= Empties
  <2>1. /\ Wasted(o)' = Wasted(o) /\ Holding' = Holding
        /\ c \in Returning /\ Returning' = Returning \ {c}
    BY <1>12 DEF EmptyUp, Goto, Wasted, Holding, Returning
  <2>2. H' = H /\ R' = R - 1
    BY <2>1, CardStep DEF H, R
  <2>3. Credits' = Credits
    BY <1>12, <2>2 DEF Credits, EmptyUp
  <2> QED
    BY <1>1, <2>1, <2>3
<1>13. ASSUME NEW p \in Procs, DieWaiting(p) \/ DieAcquired(p)
       PROVE  Credits' + Wasted(o)' <= Empties
  <2>1. Wasted(o)' <= Wasted(o) /\ Wasted(o)' \in Int
    BY <1>1, <1>13 DEF DieWaiting, DieAcquired, Wasted
  <2>2. Returning' = Returning /\ Holding' = Holding \ {p}
    BY <1>13 DEF DieWaiting, DieAcquired, Returning, Holding
  <2>3. R' = R /\ H' \in Int /\ H' <= H
    <3>1. CASE p \in Holding
      BY <2>2, <3>1, CardStep DEF H, R
    <3>2. CASE p \notin Holding
      <4>1. Holding' = Holding
        BY <2>2, <3>2
      <4>2. R' = R /\ H' = H
        BY <2>2, <4>1, Zenon DEF H, R
      <4> QED
        BY <4>2, <1>1
    <3> QED
      BY <3>1, <3>2, Zenon
  <2>4. numelts' = numelts /\ empty' \in Int /\ empty' <= empty
    BY <1>13 DEF DieWaiting, DieAcquired
  <2>5. Credits' \in Int /\ Credits' <= Credits
    BY <2>3, <2>4 DEF Credits
  <2> QED
    BY <1>1, <2>1, <2>5
<1>14. CASE UNCHANGED vars
  <2>1. UNCHANGED <<Holding, Returning, empty, numelts>> /\ Wasted(o)' = Wasted(o)
    BY <1>14 DEF vars, Holding, Returning, Wasted
  <2> QED
    BY <1>1, <1>2, <2>1
<1> QED
  BY <1>3, <1>4, <1>5, <1>6, <1>7, <1>8, <1>9, <1>10, <1>11, <1>12, <1>13, <1>14
  DEF Next, EnqueueStep, DequeueStep

(* A blocking enqueue never returns false on a full queue, if every enqueue
   on the queue blocks and the queue always has room for more elements than
   the initial count exceeds the attempts by.  The plan queue is such a queue
   until a shutdown (wakeup_eddy does not block): it has room for over a
   thousand plans, against an excess of sizeof(Queue) / QHDRSZ.
   A frontend ignores the result of its enqueue, so giving up would lose the
   query. *)
THEOREM EnqueueNeverGivesUp ==
  ASSUME Producers \cap MayTry = {}, MinSlots > Empties - Tries
  PROVE  Spec => []BlockingEnqueueNeverGivesUp
<1> USE ProcAssumption, SizeAssumption
<1>1. Init => CreditInv
  <2> SUFFICES ASSUME Init PROVE CreditInv
    OBVIOUS
  <2>1. Holding = {} /\ Returning = {}
    BY DEF Init, Holding, Returning, Procs
  <2>2. Credits = Empties
    BY <2>1, FS_EmptySet DEF Init, Credits, H, R
  <2> QED
    BY <2>2 DEF Init, CreditInv, Wasted, Procs
<1>2. Safe /\ CreditInv /\ [Next]_vars => CreditInv'
  <2> SUFFICES ASSUME Safe, CreditInv, [Next]_vars PROVE CreditInv'
    OBVIOUS
  <2>1. \A p \in Producers : Credits' + Wasted(p)' <= Empties
    BY CreditStep
  <2> USE DEF Safe, TypeOK, Procs
  <2>2. ASSUME NEW p \in Producers, pc'[p] = "empty_down" PROVE blk'[p]
    <3>1. CASE BeginEnqueue(p)
      <4>1. blk' = [blk EXCEPT ![p] = TRUE]
        BY <3>1 DEF BeginEnqueue, Begin
      <4> QED
        BY <4>1, Zenon
    <3>2. CASE EnqueueUnlock(p)
      BY <2>2, <3>2 DEF EnqueueUnlock, AfterEnqueue, Goto
    <3>3. ASSUME ~BeginEnqueue(p), ~EnqueueUnlock(p)
          PROVE  pc[p] = "empty_down" /\ blk'[p] = blk[p]
      BY <2>2, <3>3 DEF Next, EnqueueStep, DequeueStep, BeginEnqueue, BeginDequeue, Begin,
         MutexLock, EmptyDown, EnqueueElt, EnqueueUnlock, AfterEnqueue, FullUp, FullDown,
         DequeueElt, DequeueUnlock, AfterDequeue, EmptyUp, ClearQueue, DieWaiting, DieAcquired,
         Goto, vars
    <3> QED
      BY <3>1, <3>2, <3>3 DEF CreditInv
  <2>3. ASSUME NEW p \in Producers, pc'[p] \in {"lock", "elt"} PROVE tries'[p] < Tries
    BY <2>3 DEF CreditInv, Next, EnqueueStep, DequeueStep, BeginEnqueue, BeginDequeue, Begin,
       MutexLock, EmptyDown, EnqueueElt, EnqueueUnlock, AfterEnqueue, FullUp, FullDown,
       DequeueElt, DequeueUnlock, AfterDequeue, EmptyUp, ClearQueue, DieWaiting, DieAcquired,
       Goto, vars
  <2>4. ASSUME NEW p \in Producers, pc'[p] = "unlock", res'[p] = "refused"
        PROVE  tries'[p] > 0
    <3>1. CASE EnqueueElt(p)
      <4>1. pc[p] = "elt" /\ numelts >= MinSlots /\ tries'[p] = tries[p]
        BY <2>4, <3>1 DEF EnqueueElt, Goto
      <4>2. p \in Holding
        BY <4>1 DEF Holding
      <4>3. H \in Nat /\ R \in Nat /\ H > 0
        BY <4>2, CreditTypes, CardStep, Zenon DEF H
      <4>4. Credits >= MinSlots + 1 /\ Credits \in Nat
        BY <4>1, <4>3, CreditTypes DEF Credits
      <4>5. Credits + (Tries - tries[p] - 1) <= Empties
        BY <4>1 DEF CreditInv, Wasted
      <4> QED
        BY <4>1, <4>4, <4>5
    <3>2. ASSUME ~EnqueueElt(p)
          PROVE  pc[p] = "unlock" /\ res[p] = "refused" /\ tries'[p] = tries[p]
      BY <2>4, <3>2 DEF Next, EnqueueStep, DequeueStep, BeginEnqueue, BeginDequeue, Begin,
         MutexLock, EmptyDown, EnqueueElt, EnqueueUnlock, AfterEnqueue, FullUp, FullDown,
         DequeueElt, DequeueUnlock, AfterDequeue, EmptyUp, ClearQueue, DieWaiting, DieAcquired,
         Goto, vars
    <3> QED
      BY <3>1, <3>2 DEF CreditInv
  <2> QED
    BY <2>1, <2>2, <2>3, <2>4 DEF CreditInv
<1>3. CreditInv => BlockingEnqueueNeverGivesUp
  BY DEF CreditInv, BlockingEnqueueNeverGivesUp
<1> QED
  BY <1>1, <1>2, <1>3, InitSafe, NextSafe, PTL DEF Spec
=============================================================================
