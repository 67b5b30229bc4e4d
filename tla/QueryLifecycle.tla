--------------------------- MODULE QueryLifecycle ---------------------------
(***************************************************************************)
(* The life of a continuous query, from the frontend that plans it to the  *)
(* number that becomes free again.                                         *)
(*                                                                         *)
(* A frontend takes a result queue (AllocQueue); its number is the query   *)
(* id.  It sends the plan over the plan queue to the backend, whose CQ     *)
(* eddy integrates it, and reads results.  The query ends with a           *)
(* QUERY_REMOVE on the control queue; the eddy keeps the request in        *)
(* queriesToRemove until no tuple is in flight, then removes the query,    *)
(* clears its queue and frees the number.  The postmaster shuts the eddy   *)
(* down over the same control queue, and the wrapper clearinghouse reports *)
(* stream errors on it.                                                    *)
(*                                                                         *)
(* The queues are FIFOs here (module ResultQ), a blocking call on one      *)
(* waits for room or for an element (module SharedQueue).                  *)
(***************************************************************************)
EXTENDS Integers, Sequences, FiniteSets, Functions

CONSTANTS Frontends,      \* frontend processes
          NumQueues,      \* numResultQueues
          PlanCap,        \* entries the plan queue holds
          ControlCap,     \* entries the control queue holds
          ResultCap,      \* entries a result queue holds
          MaxBatch,       \* queries in one recursive batch
          Cancels,        \* frontends whose statements can be cancelled
          Cursors,        \* frontends that declare cursors
          Exits,          \* frontends that exit
          Explainers,     \* frontends that issue EXPLAIN EDDY
          WrapperErrors   \* whether wrappers of archived streams report errors

ASSUME LifecycleConstants ==
  /\ {NumQueues, PlanCap, ControlCap, ResultCap, MaxBatch} \subseteq Nat \ {0}
  /\ Cancels \cup Cursors \cup Exits \cup Explainers \subseteq Frontends
  /\ WrapperErrors \in BOOLEAN

VARIABLES
  bitmap,       \* shmResultQueueBitmap: the numbers in use
  planQ,        \* the plan queue: the query ids of one batch, <<>> for a NULL plan
  controlQ,     \* the control queue
  resultQ,      \* the result queues
  refused,      \* commands for which enqueue on the control queue returned false
  fst,          \* what a frontend is doing
  cur,          \* the query ids of a frontend's statement, the output query last
  declare,      \* whether the statement is a DECLARE CURSOR
  portals,      \* the queries of a frontend's open cursors
  cqcancelid,   \* cqcancelid of each frontend
  bepc,         \* where the backend is in the loop of ExecCQEddy
  queryIds, numqueries, queriesToRemove, recursiveQueryDeps,
  feedback,     \* the queries with a recursiveQueryFeedback relation
  inflight,     \* the queries that await the tuple in the eddy (those not in
                \* its t_queriesCompleted); {}: no tuple, and an empty stack
  shutdownPending,
  pm            \* how far the postmaster is in a smart shutdown

queues == <<bitmap, planQ, controlQ, resultQ, refused>>
session == <<fst, cur, declare, portals, cqcancelid>>
eddy == <<queryIds, numqueries, queriesToRemove, recursiveQueryDeps, feedback>>
backend == <<bepc, eddy, inflight, shutdownPending>>
vars == <<queues, session, backend, pm>>

Ids == 0 .. (NumQueues - 1)
NoQuery == -1
Message(cmd, q) == [cmd |-> cmd, q |-> q]

-----------------------------------------------------------------------------
(* The queues. *)

(* The control queue after nonblocking enqueues of the messages ms. *)
SendControl(ms) ==
  LET all == controlQ \o ms
  IN /\ controlQ' = SubSeq(all, 1, IF Len(all) < ControlCap THEN Len(all) ELSE ControlCap)
     /\ refused' = refused \cup {all[i].cmd : i \in (ControlCap + 1) .. Len(all)}

(* The result queues rq after a nonblocking enqueue of r for each query in S. *)
Report(rq, S, r) ==
  [q \in Ids |-> IF q \in S /\ Len(rq[q]) < ResultCap THEN Append(rq[q], r) ELSE rq[q]]

FreeNumbers == Ids \ bitmap
NextNumber == CHOOSE q \in FreeNumbers : \A r \in FreeNumbers : q <= r

(* One request for each query in S, in some order. *)
SomeOrder(S) == CHOOSE f \in Injection(1 .. Cardinality(S), S) : TRUE
Removals(S) == [i \in 1 .. Cardinality(S) |-> Message("QUERY_REMOVE", SomeOrder(S)[i])]

(* A batch has its output query last. *)
Last(b) == b[Len(b)]
Front(b) == SubSeq(b, 1, Len(b) - 1)

-----------------------------------------------------------------------------
(* The frontend. *)

(* AbortCurrentTransaction: AtEOXact_portals ends every open cursor, each of
   which resets cqcancelid (cancelQuery); only a cqcancelid that survives
   that is cancelled on its own. *)
AbortedQueries(f) ==
  IF portals[f] # {} THEN portals[f]
  ELSE {q \in {cqcancelid[f]} : q # NoQuery}

LeaveStatement(f, st) ==
  /\ fst' = [fst EXCEPT ![f] = st]
  /\ cur' = [cur EXCEPT ![f] = <<>>]
  /\ declare' = [declare EXCEPT ![f] = FALSE]

AbortCurrentTransaction(f, st) ==
  /\ SendControl(Removals(AbortedQueries(f)))
  /\ cqcancelid' = [cqcancelid EXCEPT ![f] = NoQuery]
  /\ portals' = [portals EXCEPT ![f] = {}]
  /\ LeaveStatement(f, st)
  /\ UNCHANGED <<bitmap, planQ>>

(* The next query of the statement's batch gets a number. *)
PlanQuery(f) ==
  /\ fst[f] \in {"idle", "planning"} /\ FreeNumbers # {}
  /\ bitmap' = bitmap \cup {NextNumber}
  /\ cur' = [cur EXCEPT ![f] = Append(@, NextNumber)]
  /\ cqcancelid' = [cqcancelid EXCEPT ![f] = NextNumber]
  /\ \E isLast \in BOOLEAN :
       /\ ~ isLast => Len(cur[f]) + 1 < MaxBatch
       /\ fst' = [fst EXCEPT ![f] = IF isLast THEN "enqueue" ELSE "planning"]
  /\ \E c \in BOOLEAN :
       /\ IF fst[f] = "idle" THEN c => f \in Cursors ELSE c = declare[f]
       /\ declare' = [declare EXCEPT ![f] = c]
  /\ UNCHANGED <<planQ, controlQ, resultQ, refused, portals, backend, pm>>

(* AllocQueue finds no free number, or the next query of a batch has an error. *)
PlanError(f) ==
  /\ \/ fst[f] = "idle" /\ FreeNumbers = {}
     \/ fst[f] = "planning"
  /\ AbortCurrentTransaction(f, "idle")
  /\ UNCHANGED <<resultQ, backend, pm>>

EnqueuePlan(f) ==
  /\ fst[f] = "enqueue" /\ Len(planQ) < PlanCap
  /\ planQ' = Append(planQ, cur[f])
  /\ fst' = [fst EXCEPT ![f] = "started"]
  /\ UNCHANGED <<bitmap, controlQ, resultQ, refused, cur, declare, portals,
                 cqcancelid, backend, pm>>

(* ProcessQuery: a cursor stays behind as a portal, a SELECT starts to read. *)
StartStatement(f) ==
  /\ fst[f] = "started"
  /\ IF declare[f]
     THEN /\ portals' = [portals EXCEPT ![f] = @ \cup {Last(cur[f])}]
          /\ LeaveStatement(f, "idle")
     ELSE /\ fst' = [fst EXCEPT ![f] = "reading"]
          /\ UNCHANGED <<cur, declare, portals>>
  /\ UNCHANGED <<queues, cqcancelid, backend, pm>>

Fetch(f) ==
  /\ fst[f] = "idle"
  /\ \E q \in portals[f] : cur' = [cur EXCEPT ![f] = <<q>>]
  /\ fst' = [fst EXCEPT ![f] = "reading"]
  /\ UNCHANGED <<queues, declare, portals, cqcancelid, backend, pm>>

(* EXPLAIN EDDY takes a number for the answer and never returns it. *)
Explain(f) ==
  /\ fst[f] = "idle" /\ f \in Explainers /\ FreeNumbers # {}
  /\ bitmap' = bitmap \cup {NextNumber}
  /\ cur' = [cur EXCEPT ![f] = <<NextNumber>>]
  /\ SendControl(<<Message("EXPLAIN_EDDY", NextNumber)>>)
  /\ fst' = [fst EXCEPT ![f] = "reading"]
  /\ UNCHANGED <<planQ, resultQ, declare, portals, cqcancelid, backend, pm>>

cancelQuery_mutant(f, S) ==                   \* mutant: cqcancelid is not reset
  /\ SendControl(Removals(S))
  /\ UNCHANGED cqcancelid

cancelQuery(f, S) ==
  /\ SendControl(Removals(S))
  /\ cqcancelid' = [cqcancelid EXCEPT ![f] = NoQuery]

(* ExecScanQueue takes the next result.  RESULT_DONE ends the plan: a SELECT
   runs ExecEndScanQueue, a FETCH only returns.  RESULT_ERROR is elog(ERROR). *)
ReadResult(f) ==
  LET q == Last(cur[f])
  IN /\ fst[f] = "reading" /\ resultQ[q] # <<>>
     /\ resultQ' = [resultQ EXCEPT ![q] = Tail(@)]
     /\ CASE Head(resultQ[q]) = "tuple" ->
               UNCHANGED <<session, bitmap, planQ, controlQ, refused>>
          [] Head(resultQ[q]) = "error" ->
               AbortCurrentTransaction(f, "idle")
          [] Head(resultQ[q]) = "done" ->
               /\ IF q \in portals[f] THEN UNCHANGED <<controlQ, refused, cqcancelid>>
                                      ELSE cancelQuery(f, {q})
               /\ LeaveStatement(f, "idle")
               /\ UNCHANGED <<bitmap, planQ, portals>>
     /\ UNCHANGED <<backend, pm>>

(* CLOSE of one cursor, or the end of the transaction, which ends them all. *)
ClosePortals(f) ==
  /\ fst[f] = "idle"
  /\ \E S \in {{q} : q \in portals[f]} \cup {portals[f]} :
       /\ S # {}
       /\ cancelQuery(f, S)
       /\ portals' = [portals EXCEPT ![f] = @ \ S]
  /\ UNCHANGED <<bitmap, planQ, resultQ, fst, cur, declare, backend, pm>>

(* A cancel request, serviced by CHECK_FOR_INTERRUPTS or in a semaphore wait. *)
Cancel(f) ==
  /\ f \in Cancels /\ fst[f] \in {"planning", "enqueue", "started", "reading"}
  /\ AbortCurrentTransaction(f, "idle")
  /\ UNCHANGED <<resultQ, backend, pm>>

(* The client hangs up, or SIGTERM ends a wait. *)
proc_exit(f) ==
  /\ f \in Exits /\ fst[f] # "gone"
  /\ IF cqcancelid[f] > -1
     THEN AbortCurrentTransaction(f, "gone")
     ELSE /\ portals' = [portals EXCEPT ![f] = {}]
          /\ LeaveStatement(f, "gone")
          /\ UNCHANGED <<bitmap, planQ, controlQ, refused, cqcancelid>>
  /\ UNCHANGED <<resultQ, backend, pm>>

-----------------------------------------------------------------------------
(* The backend: one pass of the loop of ExecCQEddy reads the whole control
   queue, takes at most one plan, then routes. *)

BackendOnly == UNCHANGED <<session, pm>>

(* processControlQ, QUERY_REMOVE: the queries that feed q go with it. *)
ControlRemove ==
  /\ bepc = "control" /\ controlQ # <<>> /\ Head(controlQ).cmd = "QUERY_REMOVE"
  /\ LET q == Head(controlQ).q
     IN /\ queriesToRemove' = [r \in Ids |-> queriesToRemove[r]
                                 + Cardinality({r} \cap {q})
                                 + Cardinality({r} \cap recursiveQueryDeps[q])]
        /\ recursiveQueryDeps' = [recursiveQueryDeps EXCEPT ![q] = {}]
  /\ controlQ' = Tail(controlQ)
  /\ UNCHANGED <<bitmap, planQ, resultQ, refused, bepc, queryIds, numqueries,
                 feedback, inflight, shutdownPending>>
  /\ BackendOnly

ControlShutdown ==
  /\ bepc = "control" /\ controlQ # <<>> /\ Head(controlQ).cmd = "SHUTDOWN"
  /\ shutdownPending' = TRUE
  /\ controlQ' = Tail(controlQ)
  /\ UNCHANGED <<bitmap, planQ, resultQ, refused, bepc, eddy, inflight>>
  /\ BackendOnly

(* WCH_ERROR goes to the queries on the stream, EXPLAIN_EDDY to the asker. *)
ControlReport ==
  /\ bepc = "control" /\ controlQ # <<>>
  /\ Head(controlQ).cmd \in {"WCH_ERROR", "EXPLAIN_EDDY"}
  /\ \E S \in IF Head(controlQ).cmd = "WCH_ERROR" THEN SUBSET queryIds
                                                 ELSE {{Head(controlQ).q}} :
       resultQ' = Report(resultQ, S, "error")
  /\ controlQ' = Tail(controlQ)
  /\ UNCHANGED <<bitmap, planQ, refused, backend>>
  /\ BackendOnly

(* The control queue is empty: go on, or end the eddy (ExecEndCQEddy). *)
ControlDrained ==
  /\ bepc = "control" /\ controlQ = <<>>
  /\ IF shutdownPending
     THEN bepc' = "gone" /\ resultQ' = Report(resultQ, queryIds, "done")
     ELSE bepc' = "plan" /\ UNCHANGED resultQ
  /\ UNCHANGED <<bitmap, planQ, controlQ, refused, eddy, inflight, shutdownPending>>
  /\ BackendOnly

(* processPlanQ blocks only while the eddy has no query. *)
NoPlan ==
  /\ bepc = "plan" /\ planQ = <<>> /\ numqueries # 0
  /\ bepc' = "route"
  /\ UNCHANGED <<queues, eddy, inflight, shutdownPending>>
  /\ BackendOnly

(* A blocking dequeue may also return empty-handed (BlockingDequeueDelivers
   in module SharedQueue).  Nothing promises that it does. *)
SpuriousWakeup ==
  /\ bepc = "plan" /\ planQ = <<>> /\ numqueries = 0
  /\ bepc' = "route"
  /\ UNCHANGED <<queues, eddy, inflight, shutdownPending>>
  /\ BackendOnly

Wakeup ==
  /\ bepc = "plan" /\ planQ # <<>> /\ Head(planQ) = <<>>
  /\ planQ' = Tail(planQ)
  /\ bepc' = "route"
  /\ UNCHANGED <<bitmap, controlQ, resultQ, refused, eddy, inflight, shutdownPending>>
  /\ BackendOnly

CancelledPlan_mutant2 ==                      \* mutant: no FreeQueue
  /\ bepc = "plan" /\ planQ # <<>> /\ Head(planQ) # <<>>
  /\ queriesToRemove[Last(Head(planQ))] > 0
  /\ queriesToRemove' = [queriesToRemove EXCEPT ![Last(Head(planQ))] = @ - 1]
  /\ planQ' = Tail(planQ) /\ bepc' = "route"
  /\ UNCHANGED <<bitmap, controlQ, resultQ, refused, queryIds, numqueries,
                 recursiveQueryDeps, feedback, inflight, shutdownPending>>
  /\ BackendOnly

(* A plan that already has a removal request is never integrated. *)
CancelledPlan ==
  /\ bepc = "plan" /\ planQ # <<>> /\ Head(planQ) # <<>>
  /\ LET q == Last(Head(planQ))
     IN /\ queriesToRemove[q] > 0
        /\ queriesToRemove' = [queriesToRemove EXCEPT ![q] = @ - 1]
        /\ bitmap' = bitmap \ {q}
  /\ planQ' = Tail(planQ)
  /\ bepc' = "route"
  /\ UNCHANGED <<controlQ, resultQ, refused, queryIds, numqueries,
                 recursiveQueryDeps, feedback, inflight, shutdownPending>>
  /\ BackendOnly

(* Every query of the batch joins the eddy; all but the output query feed it. *)
IntegratePlan ==
  /\ bepc = "plan" /\ planQ # <<>> /\ Head(planQ) # <<>>
  /\ LET b == Head(planQ)
         feeders == Range(Front(b))
     IN /\ queriesToRemove[Last(b)] = 0
        /\ queryIds' = queryIds \cup Range(b)
        /\ numqueries' = numqueries + Len(b)
        /\ feedback' = feedback \cup feeders
        /\ recursiveQueryDeps' = IF Len(b) > 1
                                 THEN [recursiveQueryDeps EXCEPT ![Last(b)] = feeders]
                                 ELSE recursiveQueryDeps
  /\ planQ' = Tail(planQ)
  /\ bepc' = "route"
  /\ UNCHANGED <<bitmap, controlQ, resultQ, refused, queriesToRemove, inflight,
                 shutdownPending>>
  /\ BackendOnly

canRemoveQuery == inflight = {}

(* The queries processQueryRemove removes now; requests for others stay. *)
Removed == {q \in queryIds : queriesToRemove[q] > 0}


processQueryRemove_mutant ==                 \* mutant: newQueriesToRemove is lost
  /\ queryIds' = queryIds \ Removed
  /\ numqueries' = numqueries - Cardinality(Removed)
  /\ feedback' = feedback \ Removed
  /\ bitmap' = bitmap \ Removed
  /\ queriesToRemove' = [q \in Ids |-> 0]
  /\ UNCHANGED recursiveQueryDeps

(* remove_query, for every query of Removed *)
processQueryRemove ==
  /\ queryIds' = queryIds \ Removed
  /\ numqueries' = numqueries - Cardinality(Removed)
  /\ feedback' = feedback \ Removed
  /\ bitmap' = bitmap \ Removed
  /\ queriesToRemove' = [q \in Ids |-> IF q \in Removed THEN queriesToRemove[q] - 1
                                                      ELSE queriesToRemove[q]]
  /\ UNCHANGED recursiveQueryDeps

Cleared_mutant == resultQ                     \* mutant: no clear_queue

Cleared == [q \in Ids |-> IF q \in Removed THEN <<>> ELSE resultQ[q]]

(* Nothing in flight: remove queries, tell the finished ones
   (cancelFinishedQueries), and scan the next source. *)
RouteSource ==
  /\ bepc = "route" /\ canRemoveQuery
  /\ processQueryRemove
  /\ IF numqueries' = 0
     THEN resultQ' = Cleared /\ inflight' = {}
     ELSE /\ \E S \in SUBSET ((queryIds \ Removed) \ feedback) :
               resultQ' = Report(Cleared, S, "done")
          /\ inflight' \in SUBSET (queryIds \ Removed)
  /\ bepc' = "control"
  /\ UNCHANGED <<planQ, controlQ, refused, shutdownPending>>
  /\ BackendOnly

RouteTuple_mutant ==                          \* mutant: canRemoveQuery is not asked
  /\ bepc = "route" /\ inflight # {}
  /\ \E D \in SUBSET inflight \ {{}} : inflight' = inflight \ D
  /\ processQueryRemove
  /\ resultQ' = Cleared /\ bepc' = "control"
  /\ UNCHANGED <<planQ, controlQ, refused, shutdownPending>>
  /\ BackendOnly

(* A visit to a module completes the tuple in flight for the queries D.  The
   output queries T among them get it (processOutputQ), the others drop it. *)
RouteTuple ==
  /\ bepc = "route" /\ inflight # {}
  /\ \E D \in SUBSET inflight \ {{}}, T \in SUBSET (inflight \cap queryIds) :
       /\ T \subseteq D \ feedback
       /\ resultQ' = Report(resultQ, T, "tuple")
       /\ inflight' = inflight \ D
  /\ bepc' = "control"
  /\ UNCHANGED <<bitmap, planQ, controlQ, refused, eddy, shutdownPending>>
  /\ BackendOnly

-----------------------------------------------------------------------------
(* The postmaster and the wrapper clearinghouse. *)

(* pmdie on SIGTERM, then wakeup_eddy *)
SendShutdown ==
  /\ pm = "up"
  /\ SendControl(<<Message("SHUTDOWN", NoQuery)>>)
  /\ pm' = "sent"
  /\ UNCHANGED <<bitmap, planQ, resultQ, session, backend>>

wakeup_eddy_mutant ==                         \* mutant: no NULL plan is sent
  /\ pm = "sent" /\ pm' = "done"
  /\ UNCHANGED <<queues, session, backend>>

wakeup_eddy ==
  /\ pm = "sent"
  /\ planQ' = IF Len(planQ) < PlanCap THEN Append(planQ, <<>>) ELSE planQ
  /\ pm' = "done"
  /\ UNCHANGED <<bitmap, controlQ, resultQ, refused, session, backend>>

(* WCHHandleErrorMessageForArchivedStream *)
WrapperError ==
  /\ WrapperErrors
  /\ SendControl(<<Message("WCH_ERROR", NoQuery)>>)
  /\ UNCHANGED <<bitmap, planQ, resultQ, session, backend, pm>>

-----------------------------------------------------------------------------
Init ==
  /\ bitmap = {} /\ planQ = <<>> /\ controlQ = <<>> /\ refused = {}
  /\ resultQ = [q \in Ids |-> <<>>]
  /\ fst = [f \in Frontends |-> "idle"] /\ cur = [f \in Frontends |-> <<>>]
  /\ declare = [f \in Frontends |-> FALSE] /\ portals = [f \in Frontends |-> {}]
  /\ cqcancelid = [f \in Frontends |-> NoQuery]
  /\ bepc = "control" /\ queryIds = {} /\ numqueries = 0 /\ feedback = {}
  /\ queriesToRemove = [q \in Ids |-> 0]
  /\ recursiveQueryDeps = [q \in Ids |-> {}]
  /\ inflight = {} /\ shutdownPending = FALSE /\ pm = "up"

Frontend(f) ==
  \/ PlanQuery(f) \/ PlanError(f) \/ EnqueuePlan(f) \/ StartStatement(f)
  \/ Fetch(f) \/ Explain(f) \/ ReadResult(f) \/ ClosePortals(f)
  \/ Cancel(f) \/ proc_exit(f)

Backend ==
  \/ ControlRemove \/ ControlShutdown \/ ControlReport \/ ControlDrained
  \/ NoPlan \/ Wakeup \/ CancelledPlan \/ IntegratePlan
  \/ RouteTuple \/ RouteSource

Next ==
  \/ \E f \in Frontends : Frontend(f)
  \/ Backend \/ SpuriousWakeup
  \/ SendShutdown \/ wakeup_eddy \/ WrapperError

Spec == Init /\ [][Next]_vars

(* The backend runs whenever it is not blocked on the plan queue, and pmdie
   runs to its end.  Frontends and clients may stop at any point. *)
FairSpec == Spec /\ WF_vars(Backend) /\ WF_vars(wakeup_eddy)

-----------------------------------------------------------------------------
Commands == {"QUERY_REMOVE", "SHUTDOWN", "WCH_ERROR", "EXPLAIN_EDDY"}

(* Every variable has its type, and no queue exceeds its capacity. *)
TypeOK ==
  /\ bitmap \subseteq Ids /\ refused \subseteq Commands
  /\ planQ \in Seq(Seq(Ids)) /\ Len(planQ) <= PlanCap
  /\ controlQ \in Seq([cmd : Commands, q : Ids \cup {NoQuery}]) /\ Len(controlQ) <= ControlCap
  /\ resultQ \in [Ids -> Seq({"tuple", "error", "done"})]
  /\ \A q \in Ids : Len(resultQ[q]) <= ResultCap
  /\ fst \in [Frontends -> {"idle", "planning", "enqueue", "started", "reading", "gone"}]
  /\ cur \in [Frontends -> Seq(Ids)] /\ declare \in [Frontends -> BOOLEAN]
  /\ portals \in [Frontends -> SUBSET Ids]
  /\ cqcancelid \in [Frontends -> Ids \cup {NoQuery}]
  /\ bepc \in {"control", "plan", "route", "gone"}
  /\ queryIds \subseteq Ids /\ numqueries \in Nat /\ feedback \subseteq Ids
  /\ queriesToRemove \in [Ids -> Nat]
  /\ recursiveQueryDeps \in [Ids -> SUBSET Ids]
  /\ inflight \subseteq Ids /\ shutdownPending \in BOOLEAN
  /\ pm \in {"up", "sent", "done"}

(* The numbers a frontend is working with. *)
Using(f) == Range(cur[f]) \cup portals[f]

(* The removal requests for q that the eddy has not acted on. *)
PendingRemovals(q) ==
  queriesToRemove[q] + Cardinality({i \in DOMAIN controlQ : controlQ[i] = Message("QUERY_REMOVE", q)})

(* The batches on the plan queue that contain q. *)
PlansFor(q) == {i \in DOMAIN planQ : q \in Range(planQ[i])}

(* A removal request always means the query it was sent for.  There is at
   most one for a number, the number is still allocated, and no frontend works
   with it: so processQueryRemove and processPlanQ never remove a later query
   with the same number, and remove_query never clears a queue that is read. *)
RemovalOnlyOfEndedQuery ==
  /\ TypeOK
  /\ \A q \in Ids : PendingRemovals(q) > 0 =>
       /\ PendingRemovals(q) = 1
       /\ q \in bitmap
       /\ \A f \in Frontends : q \notin Using(f)

(* A number AllocQueue can hand out is not known to the eddy, has no plan on
   the way, and its result queue is empty: nothing of its previous query shows
   up in the next one. *)
FreeNumberIsFresh ==
  \A q \in FreeNumbers : q \notin queryIds /\ PlansFor(q) = {} /\ resultQ[q] = <<>>

(* A tuple in the eddy carries bits of live queries only (canRemoveQuery), so
   processOutputQ never sends it to a later query with a reused number.  The
   eddy holds a query once: numqueries, which decides whether processPlanQ
   blocks, counts queryIds, and no plan on the plan queue has a number that the
   eddy or another plan already uses. *)
LineageIsLive ==
  /\ inflight \subseteq queryIds
  /\ numqueries = Cardinality(queryIds)
  /\ \A q \in Ids : Cardinality(PlansFor(q)) + Cardinality({q} \cap queryIds) <= 1

(* The output queries that the eddy runs or will run although no frontend works
   with them and nobody has asked to remove them. *)
Orphans ==
  {q \in (queryIds \ feedback) \cup {Last(planQ[i]) : i \in {j \in DOMAIN planQ : planQ[j] # <<>>}} :
     PendingRemovals(q) = 0 /\ \A f \in Frontends : q \notin Using(f)}

(* A query is orphaned in three ways only, each a step of the frontend it belongs
   to: the frontend ends it but the control queue has no room for the request,
   which cancelQuery and AbortCurrentTransaction take for impossible ("control
   queue is full.... this shouldn't happen"); an abort closes cursors, which resets
   cqcancelid, and so forgets the statement in progress; or the frontend exits
   with cursors open when cqcancelid is reset.  In particular a request for a
   plan that is still on the plan queue is kept until the plan arrives
   (processQueryRemove), and neither the end of a SELECT or a cursor, a batch, an
   error in planning nor a shutdown orphans a query. *)
OrphanedOnlyBy ==
  [][\A q \in Orphans' \ Orphans :
       \E f \in Frontends :
         /\ q \in Using(f)
         /\ \/ Len(controlQ') = ControlCap /\ "QUERY_REMOVE" \in refused'
            \/ q \notin portals[f] /\ portals[f] # {} /\ portals'[f] = {}
            \/ q \in portals[f] /\ cqcancelid[f] = NoQuery /\ fst'[f] = "gone"]_vars

(* A shutdown request of the postmaster for which the control queue has room ends
   the eddy, whether it is routing tuples or blocked on the plan queue. *)
ShutdownCompletes == pm = "sent" /\ "SHUTDOWN" \notin refused ~> bepc = "gone"

(* A query that the eddy runs, or whose plan is on its way to it, gives its number
   back once its removal is requested, unless the eddy ends first.  (The number
   of a query that is cancelled before its plan is sent stays taken.) *)
EndedQueryReclaimed ==
  \A q \in Ids :
    PendingRemovals(q) > 0 /\ (q \in queryIds \/ PlansFor(q) # {})
      ~> (q \notin bitmap \/ bepc = "gone")

=============================================================================
