------------------------------ MODULE IngresQ ------------------------------
(***************************************************************************)
(* The table of ingress queues in shared memory (rqueue/ingresq.c): one    *)
(* queue per stream name, shared by the connections of the wrapper         *)
(* clearinghouse that feed the stream and by the stream scans of the       *)
(* backend, and counted by reference.                                      *)
(*                                                                         *)
(* Each operation runs under p_qp_spinlock, so each is one step; `lock'    *)
(* says whether the last operation released it.                            *)
(***************************************************************************)
EXTENDS Integers, FiniteSets

CONSTANTS NumSlots,  \* NUM_INGRES_QUEUES
          Names,     \* stream names
          Conns,     \* connections of the wrapper clearinghouse
          MaxScans   \* bound: stream scans the backend starts

NULL == "NULL"

ASSUME IngresConstants ==
  /\ NumSlots \in Nat \ {0} /\ MaxScans \in Nat
  /\ IsFiniteSet(Conns) /\ NULL \notin Names

VARIABLES init,      \* shmIngresQueuesInit: the name of each queue, or NULL
          refCount,  \* shmIngresQueuesRefCount
          lock,      \* p_qp_spinlock
          conn,      \* uinfo of each connection: its stream and queue index
          scans      \* stream scans that took a reference, per slot

vars == <<init, refCount, lock, conn, scans>>

Slots == 0 .. (NumSlots - 1)
NoIndex == -1
Closed == [name |-> NULL, idx |-> NoIndex]

(* The slot the loop of allocIngresQ stops at: the first that is unused or
   has the name. *)
Matches(n) == {i \in Slots : init[i] \in {NULL, n}}

AllocIdx(n) ==
  IF Matches(n) = {} THEN NoIndex
  ELSE CHOOSE i \in Matches(n) : \A j \in Matches(n) : i <= j

(* allocIngresQ leaves an index behind; -1 when no slot matches. *)
allocIngresQ_mutant(n) ==             \* mutant: no count for a queue found by name
  /\ lock = "free"
  /\ init' = [i \in Slots |-> IF i = AllocIdx(n) THEN n ELSE init[i]]
  /\ refCount' = [i \in Slots |-> IF i = AllocIdx(n) /\ init[i] = NULL THEN 1 ELSE refCount[i]]
  /\ UNCHANGED lock

allocIngresQ(n) ==
  /\ lock = "free"
  /\ init' = [i \in Slots |-> IF i = AllocIdx(n) THEN n ELSE init[i]]
  /\ refCount' = [i \in Slots |-> IF i = AllocIdx(n) THEN refCount[i] + 1 ELSE refCount[i]]
  /\ UNCHANGED lock

(* freeIngresQ releases the lock only if the slot was in use. *)
freeIngresQ(i) ==
  /\ lock = "free"
  /\ IF init[i] # NULL
     THEN /\ refCount' = [refCount EXCEPT ![i] = @ - 1]
          /\ init' = [init EXCEPT ![i] = IF refCount[i] - 1 = 0 THEN NULL ELSE @]
          /\ UNCHANGED lock
     ELSE /\ lock' = "held"
          /\ UNCHANGED <<init, refCount>>

-----------------------------------------------------------------------------
Init ==
  /\ init = [i \in Slots |-> NULL] /\ refCount = [i \in Slots |-> 0]
  /\ lock = "free"
  /\ conn = [c \in Conns |-> Closed] /\ scans = [i \in Slots |-> 0]

(* A source connects (setupUnarchivedStreamInfo).  With index -1 getIngresQ
   would read outside the table; such a connection is not followed further. *)
OpenConn(c) ==
  \E n \in Names :
    /\ conn[c] = Closed
    /\ allocIngresQ(n)
    /\ conn' = [conn EXCEPT ![c] = [name |-> n, idx |-> AllocIdx(n)]]
    /\ UNCHANGED scans

(* The source ends (cleanupUnarchivedStream, send_end_and_close_q). *)
CloseConn(c) ==
  /\ conn[c].idx \in Slots
  /\ freeIngresQ(conn[c].idx)
  /\ conn' = [conn EXCEPT ![c] = Closed]
  /\ UNCHANGED scans

ScanCount[k \in 0 .. NumSlots] == IF k = 0 THEN 0 ELSE ScanCount[k - 1] + scans[k - 1]

(* ExecInitStrmScan (and a dynamic catalog, whose queue is never freed
   either).  INGRESQ_REMOVE, which would drop the reference
   (endUnarchivedStreamScan), is sent by nobody, so a scan keeps it. *)
StartScan(n) ==
  /\ ScanCount[NumSlots] < MaxScans
  /\ allocIngresQ(n)
  /\ scans' = [i \in Slots |-> IF i = AllocIdx(n) THEN scans[i] + 1 ELSE scans[i]]
  /\ UNCHANGED conn

Next ==
  \/ \E c \in Conns : OpenConn(c) \/ CloseConn(c)
  \/ \E n \in Names : StartScan(n)

Spec == Init /\ [][Next]_vars

-----------------------------------------------------------------------------
(* Every variable has its type. *)
TypeOK ==
  /\ init \in [Slots -> Names \cup {NULL}] /\ refCount \in [Slots -> Nat]
  /\ lock \in {"free", "held"}
  /\ conn \in [Conns -> [name : Names, idx : Slots \cup {NoIndex}] \cup {Closed}]
  /\ scans \in [Slots -> Nat]

HoldersOf(i) == {c \in Conns : conn[c].idx = i}

(* The reference count of a queue is the number of connections and scans that
   hold it, and a queue exists exactly while it has a holder: allocIngresQ and
   freeIngresQ of different processes never drop a queue that is in use, nor
   keep one that is not. *)
CountsHolders ==
  \A i \in Slots :
    /\ refCount[i] = Cardinality(HoldersOf(i)) + scans[i]
    /\ refCount[i] = 0 <=> init[i] = NULL

(* The slot a connection holds keeps the name of its stream until the
   connection is closed, however often the slot's other users come and go. *)
HeldQueueKeepsName == \A c \in Conns : conn[c].idx \in Slots => init[conn[c].idx] = conn[c].name

(* freeIngresQ never meets an unused slot, on which it would keep the spinlock
   and stop every process that uses an ingress queue. *)
LockAlwaysReleased == lock = "free"

=============================================================================
