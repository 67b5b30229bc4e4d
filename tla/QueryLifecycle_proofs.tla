------------------------ MODULE QueryLifecycle_proofs ------------------------
(***************************************************************************)
(* Proofs about the life of a query, for any number of frontends, of query *)
(* numbers and of places in the queues: who owns a number, who may ask for *)
(* its removal, and what the eddy still knows of it.                       *)
(***************************************************************************)
EXTENDS QueryLifecycle, FiniteSetTheorems, TLAPS

-----------------------------------------------------------------------------
(* The inductive invariant: who may still speak of a number. *)

Has(cq, m) == \E i \in DOMAIN cq : cq[i] = m
Twice(cq, m) == \E i, j \in DOMAIN cq : i # j /\ cq[i] = m /\ cq[j] = m
Distinct(b) == \A i, j \in DOMAIN b : b[i] = b[j] => i = j

Removal(q) == Message("QUERY_REMOVE", q)
ExplainTo(q) == Message("EXPLAIN_EDDY", q)

(* No removal request for q is under way. *)
NoRemoval(q) == queriesToRemove[q] = 0 /\ ~ Has(controlQ, Removal(q))

(* The batches of f that are not sent yet. *)
Unsent(f) == fst[f] \in {"planning", "enqueue"}

(* Only an allocated number is asked to be removed, and only once. *)
RequestsOnce ==
  /\ \A q \in Ids : queriesToRemove[q] > 0 =>
        queriesToRemove[q] = 1 /\ q \in bitmap /\ ~ Has(controlQ, Removal(q))
  /\ \A q \in Ids : Has(controlQ, Removal(q)) => q \in bitmap /\ ~ Twice(controlQ, Removal(q))
  /\ ~ Has(controlQ, Removal(NoQuery)) /\ ~ Has(controlQ, ExplainTo(NoQuery))

(* A frontend works with allocated numbers nobody else works with and nobody
   asked to remove; cqcancelid is one of them, and never a feeder. *)
Sessions ==
  \A f \in Frontends :
    /\ cur[f] = <<>> <=> fst[f] \in {"idle", "gone"}
    /\ cqcancelid[f] \in portals[f] \cup {NoQuery}
         \/ (cur[f] # <<>> /\ cqcancelid[f] = Last(cur[f]))
    /\ \A q \in Using(f) : q \in bitmap /\ NoRemoval(q)
    /\ \A g \in Frontends : f # g => Using(f) \cap Using(g) = {}

(* Nobody else has heard of the numbers of a batch that is not sent. *)
UnsentFresh ==
  \A f \in Frontends : Unsent(f) =>
    /\ Distinct(cur[f])
    /\ \A q \in Range(cur[f]) :
         /\ q \notin queryIds /\ PlansFor(q) = {} /\ resultQ[q] = <<>>
         /\ q \notin portals[f] /\ ~ Has(controlQ, ExplainTo(q))

(* A number is on the plan queue once, and then not yet in the eddy. *)
PlannedOnce ==
  \A i \in DOMAIN planQ :
    /\ Distinct(planQ[i])
    /\ \A j \in DOMAIN planQ : i # j => Range(planQ[i]) \cap Range(planQ[j]) = {}
    /\ \A q \in Range(planQ[i]) :
         /\ q \in bitmap /\ q \notin queryIds /\ resultQ[q] = <<>>
         /\ ~ Has(controlQ, ExplainTo(q))

(* What is free or in the eddy. *)
EddyNumbers ==
  /\ queryIds \subseteq bitmap /\ inflight \subseteq queryIds
  /\ numqueries = Cardinality(queryIds)
  /\ \A q \in Ids : q \notin bitmap => resultQ[q] = <<>>
  /\ \A q \in Ids : Has(controlQ, ExplainTo(q)) => q \in bitmap \ queryIds

(* A query that feeds q is removed with q or not at all. *)
FollowsOutput(r, q) ==
  /\ r # q /\ NoRemoval(r)
  /\ \A f \in Frontends :
       r \notin portals[f] /\ (r \in Range(cur[f]) => cur[f] # <<>> /\ Last(cur[f]) = q)

Feeders ==
  /\ \A i \in DOMAIN planQ : \A k \in 1 .. (Len(planQ[i]) - 1) :
       FollowsOutput(planQ[i][k], Last(planQ[i]))
  /\ \A q \in Ids : \A r \in recursiveQueryDeps[q] :
       /\ FollowsOutput(r, q) /\ {q, r} \subseteq queryIds
       /\ queriesToRemove[q] = 0 /\ recursiveQueryDeps[r] = {}
       /\ \A p \in Ids : r \in recursiveQueryDeps[p] => p = q

Ownership ==
  TypeOK /\ RequestsOnce /\ Sessions /\ UnsentFresh /\ PlannedOnce /\ EddyNumbers /\ Feeders

-----------------------------------------------------------------------------
(* Sequences and sets. *)

Msg == [cmd : Commands, q : Ids \cup {NoQuery}]

(* The numbers are finitely many. *)
LEMMA IdsFinite == Ids \in SUBSET Int /\ IsFiniteSet(Ids)
<1>1. NumQueues \in Nat /\ NumQueues > 0
  BY LifecycleConstants
<1>. QED  BY <1>1, FS_Interval DEF Ids

(* Counting membership. *)
LEMMA CardMeet ==
  ASSUME NEW r, NEW S
  PROVE  Cardinality({r} \cap S) = IF r \in S THEN 1 ELSE 0
<1>1. CASE r \in S
  <2>1. {r} \cap S = {r}
    BY <1>1, Zenon
  <2>. QED  BY <1>1, <2>1, FS_Singleton, Zenon
<1>2. CASE r \notin S
  <2>1. {r} \cap S = {}
    BY <1>2, Zenon
  <2>. QED  BY <1>2, <2>1, FS_EmptySet, Zenon
<1>. QED  BY <1>1, <1>2, Zenon

(* What nonblocking enqueues leave on the control queue. *)
LEMMA SendFacts ==
  ASSUME controlQ \in Seq(Msg), Len(controlQ) <= ControlCap, refused \subseteq Commands,
         NEW ms \in Seq(Msg), SendControl(ms)
  PROVE  /\ controlQ' \in Seq(Msg) /\ Len(controlQ') <= ControlCap /\ refused' \subseteq Commands
         /\ \A i \in DOMAIN controlQ' :
              \/ i \in DOMAIN controlQ /\ controlQ'[i] = controlQ[i]
              \/ /\ i > Len(controlQ) /\ i - Len(controlQ) \in DOMAIN ms
                 /\ controlQ'[i] = ms[i - Len(controlQ)]
<1>. DEFINE all == controlQ \o ms
            n == IF Len(all) < ControlCap THEN Len(all) ELSE ControlCap
<1>1. ControlCap \in Nat
  BY LifecycleConstants, Zenon
<1>2. /\ all \in Seq(Msg) /\ Len(all) = Len(controlQ) + Len(ms)
      /\ \A i \in 1 .. Len(all) : all[i] = IF i <= Len(controlQ) THEN controlQ[i] ELSE ms[i - Len(controlQ)]
  OBVIOUS
<1>3. controlQ' = SubSeq(all, 1, n) /\ refused' = refused \cup {all[i].cmd : i \in (ControlCap + 1) .. Len(all)}
  BY Zenon DEF SendControl
<1>. HIDE DEF all
<1>4. n \in Nat /\ n <= Len(all) /\ n <= ControlCap
  BY <1>1, <1>2
<1>5. /\ controlQ' \in Seq(Msg) /\ Len(controlQ') = n
      /\ \A i \in 1 .. n : controlQ'[i] = all[i]
  BY <1>2, <1>3, <1>4
<1>6. refused' \subseteq Commands
  <2>1. \A i \in (ControlCap + 1) .. Len(all) : all[i] \in Msg
    BY <1>1, <1>2
  <2>. QED  BY <1>3, <2>1, Zenon DEF Msg
<1>7. \A i \in DOMAIN controlQ' :
              \/ i \in DOMAIN controlQ /\ controlQ'[i] = controlQ[i]
              \/ /\ i > Len(controlQ) /\ i - Len(controlQ) \in DOMAIN ms
                 /\ controlQ'[i] = ms[i - Len(controlQ)]
  <2>1. SUFFICES ASSUME NEW i \in 1 .. n
                 PROVE  \/ i \in DOMAIN controlQ /\ controlQ'[i] = controlQ[i]
                        \/ /\ i > Len(controlQ) /\ i - Len(controlQ) \in DOMAIN ms
                           /\ controlQ'[i] = ms[i - Len(controlQ)]
    BY <1>5
  <2>2. i \in Nat /\ i >= 1 /\ i <= Len(controlQ) + Len(ms) /\ i \in 1 .. Len(all)
    BY <1>2, <1>4
  <2>3. controlQ'[i] = IF i <= Len(controlQ) THEN controlQ[i] ELSE ms[i - Len(controlQ)]
    BY <1>2, <1>5, <2>2
  <2>4. CASE i <= Len(controlQ)
    BY <2>2, <2>3, <2>4
  <2>5. CASE i > Len(controlQ)
    BY <2>2, <2>3, <2>5
  <2>. QED  BY <2>2, <2>4, <2>5
<1>. QED  BY <1>4, <1>5, <1>6, <1>7, Zenon

(* One removal request for each query of S. *)
LEMMA RemovalsFacts ==
  ASSUME NEW S, S \subseteq Ids
  PROVE  /\ Removals(S) \in Seq(Msg)
         /\ \A i \in DOMAIN Removals(S) : \E q \in S : Removals(S)[i] = Removal(q)
         /\ \A i, j \in DOMAIN Removals(S) : Removals(S)[i] = Removals(S)[j] => i = j
<1>1. IsFiniteSet(S) /\ Cardinality(S) \in Nat
  <2>1. S \in SUBSET Ids /\ IsFiniteSet(Ids)
    BY IdsFinite, Zenon
  <2>2. IsFiniteSet(S)
    BY <2>1, FS_Subset, Zenon
  <2>. QED  BY <2>2, FS_CardinalityType, Zenon
<1>2. \E g \in [1 .. Cardinality(S) -> S] : IsInjective(g)
  BY <1>1, FS_CardinalityType, Zenon DEF ExistsBijection, Bijection, Injection
<1>3. SomeOrder(S) \in [1 .. Cardinality(S) -> S] /\ IsInjective(SomeOrder(S))
  BY <1>2, Zenon DEF SomeOrder, Injection
<1>4. DOMAIN Removals(S) = 1 .. Cardinality(S)
  BY Zenon DEF Removals
<1>5. \A i \in 1 .. Cardinality(S) : SomeOrder(S)[i] \in S /\ Removals(S)[i] = Removal(SomeOrder(S)[i])
  BY <1>3, Zenon DEF Removals, Removal
<1>6. \A q \in S : Removal(q) \in Msg
  BY Zenon DEF Removal, Message, Msg, Commands
<1>7. Removals(S) \in [1 .. Cardinality(S) -> Msg]
  BY <1>4, <1>5, <1>6, Zenon DEF Removals
<1>8. \A q, r : Removal(q) = Removal(r) => q = r
  BY Zenon DEF Removal, Message
<1>. QED  BY <1>1, <1>3, <1>4, <1>5, <1>7, <1>8 DEF IsInjective

(* The frontend f asked for the removal of the queries in S; full queues may
   have swallowed some of the requests. *)
Asked(S) ==
  /\ controlQ' \in Seq(Msg) /\ Len(controlQ') <= ControlCap /\ refused' \subseteq Commands
  /\ \A m : Has(controlQ', m) => Has(controlQ, m) \/ \E q \in S : m = Removal(q)
  /\ \A m : Twice(controlQ', m) =>
        \/ Twice(controlQ, m)
        \/ Has(controlQ, m) /\ \E q \in S : m = Removal(q)

(* Removal requests for a set of queries. *)
LEMMA SendRemovals ==
  ASSUME TypeOK, NEW S, S \subseteq Ids, SendControl(Removals(S))
  PROVE  Asked(S)
<1>1. controlQ \in Seq(Msg) /\ Len(controlQ) <= ControlCap /\ refused \subseteq Commands
  BY Zenon DEF TypeOK, Msg
<1>. DEFINE ms == Removals(S)
<1>2. /\ ms \in Seq(Msg)
      /\ \A i \in DOMAIN ms : \E q \in S : ms[i] = Removal(q)
      /\ \A i, j \in DOMAIN ms : ms[i] = ms[j] => i = j
  BY RemovalsFacts, Zenon
<1>. HIDE DEF ms
<1>3. /\ controlQ' \in Seq(Msg) /\ Len(controlQ') <= ControlCap /\ refused' \subseteq Commands
      /\ \A i \in DOMAIN controlQ' :
              \/ i \in DOMAIN controlQ /\ controlQ'[i] = controlQ[i]
              \/ /\ i > Len(controlQ) /\ i - Len(controlQ) \in DOMAIN ms
                 /\ controlQ'[i] = ms[i - Len(controlQ)]
  BY <1>1, <1>2, SendFacts, Zenon DEF ms
<1>4. ASSUME NEW m, Has(controlQ', m)
      PROVE  Has(controlQ, m) \/ \E q \in S : m = Removal(q)
  BY <1>2, <1>3, <1>4 DEF Has
<1>5. ASSUME NEW m, Twice(controlQ', m)
      PROVE  \/ Twice(controlQ, m)
             \/ Has(controlQ, m) /\ \E q \in S : m = Removal(q)
  <2>1. PICK i, j \in DOMAIN controlQ' : i # j /\ controlQ'[i] = m /\ controlQ'[j] = m
    BY <1>5, Zenon DEF Twice
  <2>2. DOMAIN controlQ' \subseteq Nat /\ Len(controlQ) \in Nat
    BY <1>1, <1>3
  <2>3. CASE i \in DOMAIN controlQ /\ j \in DOMAIN controlQ
    <3>1. controlQ[i] = m /\ controlQ[j] = m
      BY <1>1, <1>3, <2>1, <2>2, <2>3
    <3>. QED  BY <2>1, <2>3, <3>1, Zenon DEF Twice
  <2>4. CASE i \notin DOMAIN controlQ /\ j \notin DOMAIN controlQ
    BY <1>2, <1>3, <2>1, <2>2, <2>4
  <2>5. CASE i \in DOMAIN controlQ /\ j \notin DOMAIN controlQ
    BY <1>1, <1>2, <1>3, <2>1, <2>2, <2>5 DEF Has
  <2>6. CASE i \notin DOMAIN controlQ /\ j \in DOMAIN controlQ
    BY <1>1, <1>2, <1>3, <2>1, <2>2, <2>6 DEF Has
  <2>. QED  BY <2>3, <2>4, <2>5, <2>6, Zenon
<1>. QED  BY <1>3, <1>4, <1>5, Zenon DEF Asked

(* One message more, if there is room. *)
LEMMA SendOne ==
  ASSUME TypeOK, NEW m0 \in Msg, SendControl(<<m0>>)
  PROVE  /\ controlQ' \in Seq(Msg) /\ Len(controlQ') <= ControlCap /\ refused' \subseteq Commands
         /\ \A m : Has(controlQ', m) => Has(controlQ, m) \/ m = m0
         /\ \A m : Twice(controlQ', m) => Twice(controlQ, m) \/ m = m0
<1>1. controlQ \in Seq(Msg) /\ Len(controlQ) <= ControlCap /\ refused \subseteq Commands
  BY Zenon DEF TypeOK, Msg
<1>2. PICK ms : ms = <<m0>>
  BY Zenon
<1>3. ms \in Seq(Msg) /\ SendControl(ms) /\ \A i \in DOMAIN ms : ms[i] = m0
  BY <1>2
<1>4. /\ controlQ' \in Seq(Msg) /\ Len(controlQ') <= ControlCap /\ refused' \subseteq Commands
      /\ \A i \in DOMAIN controlQ' :
              \/ i \in DOMAIN controlQ /\ controlQ'[i] = controlQ[i]
              \/ /\ i > Len(controlQ) /\ i - Len(controlQ) \in DOMAIN ms
                 /\ controlQ'[i] = ms[i - Len(controlQ)]
  BY <1>1, <1>3, SendFacts, Zenon
<1>. QED  BY <1>3, <1>4, Zenon DEF Has, Twice

(* The head is taken. *)
LEMMA TakeOne ==
  ASSUME TypeOK, controlQ # <<>>, controlQ' = Tail(controlQ)
  PROVE  /\ controlQ' \in Seq(Msg) /\ Len(controlQ') <= ControlCap
         /\ Has(controlQ, Head(controlQ)) /\ Head(controlQ) \in Msg
         /\ \A m : Has(controlQ', m) => Has(controlQ, m)
         /\ \A m : Twice(controlQ', m) => Twice(controlQ, m)
         /\ Has(controlQ', Head(controlQ)) => Twice(controlQ, Head(controlQ))
<1>1. controlQ \in Seq(Msg) /\ Len(controlQ) <= ControlCap /\ ControlCap \in Nat
  BY LifecycleConstants, Zenon DEF TypeOK, Msg
<1>2. /\ controlQ' \in Seq(Msg) /\ Len(controlQ') = Len(controlQ) - 1
      /\ \A i \in DOMAIN controlQ' : i + 1 \in DOMAIN controlQ /\ controlQ'[i] = controlQ[i + 1]
      /\ 1 \in DOMAIN controlQ /\ Head(controlQ) = controlQ[1] /\ DOMAIN controlQ' \subseteq Nat \ {0}
  BY <1>1
<1>3. Len(controlQ') <= ControlCap /\ Head(controlQ) \in Msg
  BY <1>1, <1>2
<1>4. ASSUME NEW m, Twice(controlQ', m) PROVE Twice(controlQ, m)
  <2>1. PICK i, j \in DOMAIN controlQ' : i # j /\ controlQ'[i] = m /\ controlQ'[j] = m
    BY <1>4, Zenon DEF Twice
  <2>2. i + 1 # j + 1 /\ {i + 1, j + 1} \subseteq DOMAIN controlQ
    BY <1>2, <2>1
  <2>. QED  BY <1>2, <2>1, <2>2, Zenon DEF Twice
<1>5. Has(controlQ', Head(controlQ)) => Twice(controlQ, Head(controlQ))
  <2>1. ASSUME NEW i \in DOMAIN controlQ', controlQ'[i] = controlQ[1]
        PROVE  i + 1 # 1 /\ i + 1 \in DOMAIN controlQ /\ controlQ[i + 1] = controlQ[1]
    BY <1>2, <2>1
  <2>. QED  BY <1>2, <2>1, Zenon DEF Has, Twice
<1>. QED  BY <1>2, <1>3, <1>4, <1>5, Zenon DEF Has

-----------------------------------------------------------------------------
(* The numbers of batches and sessions. *)
LEMMA Numbers ==
  ASSUME TypeOK
  PROVE  /\ \A f \in Frontends : cur[f] \in Seq(Ids) /\ Range(cur[f]) \subseteq Ids /\ Using(f) \subseteq Ids
         /\ \A i \in DOMAIN planQ : planQ[i] \in Seq(Ids) /\ Range(planQ[i]) \subseteq Ids
         /\ NoQuery \notin Ids /\ Range(<<>>) = {}
<1>1. \A b \in Seq(Ids) : Range(b) \subseteq Ids
  BY DEF Range
<1>2. \A f \in Frontends : cur[f] \in Seq(Ids) /\ portals[f] \subseteq Ids
  BY Zenon DEF TypeOK
<1>3. \A i \in DOMAIN planQ : planQ[i] \in Seq(Ids)
  BY DEF TypeOK
<1>4. NoQuery \notin Ids
  BY DEF NoQuery, Ids
<1>. QED  BY <1>1, <1>2, <1>3, <1>4 DEF Using, Range

(* Each kind of step keeps Ownership.  First the steps that leave the numbers
   where they are: messages that are no removal requests, results of queries in
   the eddy, NULL plans. *)
LEMMA QuietStep ==
  ASSUME Ownership, TypeOK', NEW h \in {0, 1},
         UNCHANGED <<bitmap, fst, cur, portals, cqcancelid, queryIds, numqueries,
                     queriesToRemove, recursiveQueryDeps>>,
         inflight' \subseteq inflight,
         \A q \in Ids \cup {NoQuery} :
           /\ Has(controlQ', Removal(q)) => Has(controlQ, Removal(q))
           /\ Has(controlQ', ExplainTo(q)) => Has(controlQ, ExplainTo(q))
           /\ Twice(controlQ', Removal(q)) => Twice(controlQ, Removal(q)),
         \A q \in Ids : resultQ'[q] # <<>> =>
           resultQ[q] # <<>> \/ q \in queryIds \/ Has(controlQ, ExplainTo(q)),
         \A i \in DOMAIN planQ' : \/ planQ'[i] = <<>>
                                  \/ i + h \in DOMAIN planQ /\ planQ'[i] = planQ[i + h]
  PROVE  Ownership'
<1>1. /\ TypeOK /\ RequestsOnce /\ Sessions /\ UnsentFresh /\ PlannedOnce /\ EddyNumbers /\ Feeders
  BY Zenon DEF Ownership
<1>2. /\ \A f \in Frontends : cur[f] \in Seq(Ids) /\ Range(cur[f]) \subseteq Ids /\ Using(f) \subseteq Ids
      /\ \A i \in DOMAIN planQ : planQ[i] \in Seq(Ids) /\ Range(planQ[i]) \subseteq Ids
      /\ NoQuery \notin Ids /\ Range(<<>>) = {}
  BY <1>1, Numbers, Zenon
<1>3. \A q \in Ids : NoRemoval(q) => NoRemoval(q)'
  BY Zenon DEF NoRemoval
<1>4. RequestsOnce'
  BY <1>1, Zenon DEF RequestsOnce
<1>5. Sessions'
  <2>1. \A f \in Frontends : Using(f)' = Using(f)
    BY Zenon DEF Using
  <2>. QED  BY <1>1, <1>2, <1>3, <2>1 DEF Sessions
<1>6. UnsentFresh'
  <2>1. ASSUME NEW f \in Frontends, Unsent(f), NEW q \in Range(cur[f])
        PROVE  PlansFor(q)' = {} /\ resultQ'[q] = <<>> /\ ~ Has(controlQ', ExplainTo(q))
    <3>1. /\ q \in Ids /\ q \notin queryIds /\ resultQ[q] = <<>> /\ ~ Has(controlQ, ExplainTo(q))
          /\ \A i \in DOMAIN planQ : q \notin Range(planQ[i])
      BY <1>1, <1>2, <2>1, Zenon DEF UnsentFresh, PlansFor
    <3>2. \A i \in DOMAIN planQ' : q \notin Range(planQ'[i])
      BY <1>2, <3>1, Zenon
    <3>. QED  BY <3>1, <3>2, Zenon DEF PlansFor
  <2>2. \A f \in Frontends : Unsent(f)' <=> Unsent(f)
    BY Zenon DEF Unsent
  <2>. QED  BY <1>1, <2>1, <2>2, Zenon DEF UnsentFresh
<1>7. PlannedOnce'
  <2>1. SUFFICES ASSUME NEW i \in DOMAIN planQ'
                 PROVE  /\ Distinct(planQ'[i])
                        /\ \A j \in DOMAIN planQ' : i # j => Range(planQ'[i]) \cap Range(planQ'[j]) = {}
                        /\ \A q \in Range(planQ'[i]) :
                             /\ q \in bitmap /\ q \notin queryIds /\ resultQ'[q] = <<>>
                             /\ ~ Has(controlQ', ExplainTo(q))
    BY Zenon DEF PlannedOnce
  <2>2. CASE planQ'[i] = <<>>
    BY <1>2, <2>2 DEF Distinct
  <2>3. CASE i + h \in DOMAIN planQ /\ planQ'[i] = planQ[i + h]
    <3>1. /\ Distinct(planQ[i + h]) /\ Range(planQ[i + h]) \subseteq Ids
          /\ \A j \in DOMAIN planQ : i + h # j => Range(planQ[i + h]) \cap Range(planQ[j]) = {}
          /\ \A q \in Range(planQ[i + h]) :
               /\ q \in bitmap /\ q \notin queryIds /\ resultQ[q] = <<>>
               /\ ~ Has(controlQ, ExplainTo(q))
      BY <1>1, <1>2, <2>3, Zenon DEF PlannedOnce
    <3>2. ASSUME NEW j \in DOMAIN planQ', i # j PROVE Range(planQ'[i]) \cap Range(planQ'[j]) = {}
      <4>1. DOMAIN planQ' \subseteq Nat
        BY DEF TypeOK
      <4>2. i + h # j + h
        BY <3>2, <4>1
      <4>. QED  BY <1>2, <2>3, <3>1, <4>2, Zenon
    <3>. QED  BY <2>3, <3>1, <3>2, Zenon
  <2>. QED  BY <2>2, <2>3, Zenon
<1>8. EddyNumbers'
  BY <1>1, Zenon DEF EddyNumbers
<1>9. Feeders'
  <2>1. \A r \in Ids : \A q : FollowsOutput(r, q) => FollowsOutput(r, q)'
    BY <1>3, Zenon DEF FollowsOutput
  <2>2. ASSUME NEW i \in DOMAIN planQ', NEW k \in 1 .. (Len(planQ'[i]) - 1)
        PROVE  FollowsOutput(planQ[i][k], Last(planQ[i]))'
    <3>1. i + h \in DOMAIN planQ /\ planQ'[i] = planQ[i + h]
      BY <2>2
    <3>2. FollowsOutput(planQ[i + h][k], Last(planQ[i + h])) /\ planQ[i + h][k] \in Ids
      BY <1>1, <1>2, <2>2, <3>1 DEF Feeders
    <3>. QED  BY <2>1, <3>1, <3>2, Zenon
  <2>. QED  BY <1>1, <2>1, <2>2 DEF Feeders, TypeOK
<1>. QED  BY <1>4, <1>5, <1>6, <1>7, <1>8, <1>9, Zenon DEF Ownership

(* The messages differ when their query or their command does. *)
LEMMA Messages ==
  /\ \A q, r : Removal(q) = Removal(r) => q = r
  /\ \A q, r : ExplainTo(q) = ExplainTo(r) => q = r
  /\ \A q, r : ExplainTo(q) # Removal(r)
  /\ \A q \in Ids \cup {NoQuery} : Removal(q) \in Msg /\ ExplainTo(q) \in Msg
BY Zenon DEF Removal, ExplainTo, Message, Msg, Commands

(* The output query of a batch is one of the batch. *)
LEMMA LastOf ==
  ASSUME NEW b \in Seq(Ids), b # <<>>
  PROVE  Last(b) \in Range(b) /\ Last(b) \in Ids /\ Len(b) \in DOMAIN b
BY DEF Last, Range

(* A frontend leaves its statement, asks for the removal of the queries S and
   keeps the cursors P.  That is every abort, the end of a SELECT, the end of
   cursors, and the end of the process. *)
LEMMA LeaveStep ==
  ASSUME Ownership, TypeOK', NEW f \in Frontends, NEW st \in {"idle", "gone"}, NEW S, NEW P, NEW c,
         \A r \in S : r \in portals[f] \/ (cur[f] # <<>> /\ r = Last(cur[f])),
         Asked(S), P \subseteq portals[f] \ S, c \in P \cup {NoQuery},
         fst' = [fst EXCEPT ![f] = st], cur' = [cur EXCEPT ![f] = <<>>],
         portals' = [portals EXCEPT ![f] = P], cqcancelid' = [cqcancelid EXCEPT ![f] = c],
         \A q \in Ids : resultQ'[q] # <<>> => resultQ[q] # <<>>,
         UNCHANGED <<bitmap, planQ, queryIds, numqueries, queriesToRemove, recursiveQueryDeps, inflight>>
  PROVE  Ownership'
<1>1. TypeOK /\ RequestsOnce /\ Sessions /\ UnsentFresh /\ PlannedOnce /\ EddyNumbers /\ Feeders
  BY Zenon DEF Ownership
<1>2. /\ \A g \in Frontends : cur[g] \in Seq(Ids) /\ Range(cur[g]) \subseteq Ids /\ Using(g) \subseteq Ids
      /\ \A i \in DOMAIN planQ : planQ[i] \in Seq(Ids) /\ Range(planQ[i]) \subseteq Ids
      /\ NoQuery \notin Ids /\ Range(<<>>) = {}
  BY <1>1, Numbers, Zenon
<1>3. /\ fst'[f] = st /\ cur'[f] = <<>> /\ portals'[f] = P /\ cqcancelid'[f] = c
      /\ \A g \in Frontends \ {f} : /\ fst'[g] = fst[g] /\ cur'[g] = cur[g]
                                    /\ portals'[g] = portals[g] /\ cqcancelid'[g] = cqcancelid[g]
  BY <1>1, Zenon DEF TypeOK
<1>4. S \subseteq Using(f)
  <2>1. \A r \in S : r \in portals[f] \/ r \in Range(cur[f])
    BY <1>2, LastOf, Zenon
  <2>. QED  BY <2>1, Zenon DEF Using
<1>5. Using(f)' = P /\ \A g \in Frontends \ {f} : Using(g)' = Using(g)
  BY <1>2, <1>3, Zenon DEF Using
<1>6. /\ \A q \in S : q \in Ids /\ q \in bitmap /\ NoRemoval(q)
      /\ \A g \in Frontends : \A q \in Using(g)' : q \in Using(g) /\ q \notin S
  <2>1. \A q \in S : q \in Ids /\ q \in bitmap /\ NoRemoval(q)
    BY <1>1, <1>2, <1>4, Zenon DEF Sessions
  <2>2. \A q \in Using(f)' : q \in Using(f) /\ q \notin S
    BY <1>5, Zenon DEF Using
  <2>3. \A g \in Frontends \ {f} : Using(f) \cap Using(g) = {}
    BY <1>1, Zenon DEF Sessions
  <2>. QED  BY <1>4, <1>5, <2>1, <2>2, <2>3
<1>7. \A q \in Ids \ S : NoRemoval(q) => NoRemoval(q)'
  BY Messages, Zenon DEF NoRemoval, Asked
<1>8. \A q : Has(controlQ', ExplainTo(q)) => Has(controlQ, ExplainTo(q))
  BY Messages, Zenon DEF Asked
<1>9. RequestsOnce'
  <2>1. \A q \in Ids : queriesToRemove[q] > 0 => ~ Has(controlQ', Removal(q))
    BY <1>1, <1>6, Messages DEF RequestsOnce, Asked, NoRemoval
  <2>2. \A q \in Ids : Has(controlQ', Removal(q)) => q \in bitmap /\ ~ Twice(controlQ', Removal(q))
    <3>1. \A m : Twice(controlQ, m) => Has(controlQ, m)
      BY Zenon DEF Has, Twice
    <3>. QED  BY <1>1, <1>6, <3>1, Messages DEF RequestsOnce, Asked, NoRemoval
  <2>3. ~ Has(controlQ', Removal(NoQuery))
    BY <1>1, <1>2, <1>6, Messages DEF RequestsOnce, Asked
  <2>. QED  BY <1>1, <1>8, <2>1, <2>2, <2>3, Zenon DEF RequestsOnce
<1>10. Sessions'
  <2>1. ASSUME NEW g \in Frontends
        PROVE  /\ cur'[g] = <<>> <=> fst'[g] \in {"idle", "gone"}
               /\ cqcancelid'[g] \in portals'[g] \cup {NoQuery}
                    \/ (cur'[g] # <<>> /\ cqcancelid'[g] = Last(cur'[g]))
    BY <1>1, <1>3, Zenon DEF Sessions
  <2>2. ASSUME NEW g \in Frontends, NEW q \in Using(g)' PROVE q \in bitmap' /\ NoRemoval(q)'
    BY <1>1, <1>2, <1>6, <1>7, <2>2, Zenon DEF Sessions
  <2>3. ASSUME NEW g \in Frontends, NEW k \in Frontends, g # k
        PROVE  Using(g)' \cap Using(k)' = {}
    BY <1>1, <1>6, <2>3, Zenon DEF Sessions
  <2>. QED  BY <2>1, <2>2, <2>3, Zenon DEF Sessions
<1>11. UnsentFresh'
  <2>1. ASSUME NEW g \in Frontends, Unsent(g)'
        PROVE  g # f /\ Unsent(g) /\ cur'[g] = cur[g] /\ portals'[g] = portals[g]
    BY <1>3, <2>1, Zenon DEF Unsent
  <2>2. \A q \in Ids : resultQ[q] = <<>> => resultQ'[q] = <<>>
    BY Zenon
  <2>3. \A q : PlansFor(q)' = PlansFor(q)
    BY Zenon DEF PlansFor
  <2>. QED  BY <1>1, <1>2, <1>8, <2>1, <2>2, <2>3, Zenon DEF UnsentFresh
<1>12. PlannedOnce'
  BY <1>1, <1>2, <1>8, Zenon DEF PlannedOnce
<1>13. EddyNumbers'
  BY <1>1, <1>8, Zenon DEF EddyNumbers
<1>14. Feeders'
  <2>1. ASSUME NEW r \in Ids, NEW q, FollowsOutput(r, q) PROVE FollowsOutput(r, q)'
    <3>1. r \notin S
      BY <1>2, <2>1, LastOf, Zenon DEF FollowsOutput
    <3>2. \A g \in Frontends : r \notin portals'[g] /\ (r \in Range(cur'[g]) => cur'[g] # <<>> /\ Last(cur'[g]) = q)
      BY <1>2, <1>3, <2>1, Zenon DEF FollowsOutput
    <3>. QED  BY <1>7, <2>1, <3>1, <3>2, Zenon DEF FollowsOutput
  <2>2. \A i \in DOMAIN planQ : \A k \in 1 .. (Len(planQ[i]) - 1) : planQ[i][k] \in Ids
    BY <1>2
  <2>3. \A q \in Ids : recursiveQueryDeps[q] \subseteq Ids
    BY <1>1, Zenon DEF TypeOK
  <2>. QED  BY <1>1, <2>1, <2>2, <2>3, Zenon DEF Feeders
<1>. QED  BY <1>9, <1>10, <1>11, <1>12, <1>13, <1>14, Zenon DEF Ownership

(* A set of numbers has a least element. *)
LEMMA LeastExists ==
  ASSUME NEW T, T \subseteq Nat, T # {}
  PROVE  \E q \in T : \A r \in T : q <= r
<1>. DEFINE R == {p \in Nat \X Nat : p[1] < p[2]}
<1>1. IsWellFoundedOn(R, Nat)
  BY NatLessThanWellFounded, Zenon DEF OpToRel
<1>2. \A q, r \in Nat : r < q => <<r, q>> \in R
  BY Zenon
<1>. HIDE DEF R
<1>3. PICK q \in T : \A r \in T : ~ (<<r, q>> \in R)
  BY <1>1, WFMin, Zenon
<1>4. \A r \in T : ~ (r < q)
  BY <1>2, <1>3, Zenon
<1>. QED  BY <1>4

(* AllocQueue hands out a free number. *)
LEMMA NextIsFree ==
  ASSUME TypeOK, FreeNumbers # {}
  PROVE  NextNumber \in Ids /\ NextNumber \notin bitmap
<1>1. FreeNumbers \subseteq Nat
  BY DEF FreeNumbers, Ids
<1>2. \E q \in FreeNumbers : \A r \in FreeNumbers : q <= r
  BY <1>1, LeastExists, Zenon
<1>. QED  BY <1>2, Zenon DEF NextNumber, FreeNumbers

(* Nothing in the system speaks of a number that is free. *)
LEMMA FreeIsUnknown ==
  ASSUME Ownership, NEW n \in Ids \ bitmap
  PROVE  /\ NoRemoval(n) /\ ~ Has(controlQ, ExplainTo(n))
         /\ n \notin queryIds /\ resultQ[n] = <<>>
         /\ \A i \in DOMAIN planQ : n \notin Range(planQ[i])
         /\ \A f \in Frontends : n \notin Using(f)
<1>1. TypeOK /\ RequestsOnce /\ Sessions /\ PlannedOnce /\ EddyNumbers
  BY Zenon DEF Ownership
<1>2. NoRemoval(n)
  BY <1>1 DEF RequestsOnce, NoRemoval, TypeOK
<1>3. ~ Has(controlQ, ExplainTo(n)) /\ n \notin queryIds /\ resultQ[n] = <<>>
  BY <1>1, Zenon DEF EddyNumbers
<1>4. \A i \in DOMAIN planQ : n \notin Range(planQ[i])
  BY <1>1, Zenon DEF PlannedOnce
<1>5. \A f \in Frontends : n \notin Using(f)
  BY <1>1, Zenon DEF Sessions
<1>. QED  BY <1>2, <1>3, <1>4, <1>5, Zenon

(* A batch and one more number. *)
LEMMA AppendFacts ==
  ASSUME NEW b \in Seq(Ids), NEW n \in Ids
  PROVE  /\ Append(b, n) \in Seq(Ids) /\ Append(b, n) # <<>> /\ Last(Append(b, n)) = n
         /\ Range(Append(b, n)) = Range(b) \cup {n}
         /\ Distinct(b) /\ n \notin Range(b) => Distinct(Append(b, n))
<1>1. /\ Append(b, n) \in Seq(Ids) /\ Len(Append(b, n)) = Len(b) + 1
      /\ \A i \in 1 .. Len(b) : Append(b, n)[i] = b[i]
      /\ Append(b, n)[Len(b) + 1] = n /\ DOMAIN b = 1 .. Len(b)
      /\ DOMAIN Append(b, n) = 1 .. (Len(b) + 1)
  OBVIOUS
<1>2. Range(Append(b, n)) = Range(b) \cup {n}
  <2>1. \A i \in 1 .. (Len(b) + 1) : i \in 1 .. Len(b) \/ i = Len(b) + 1
    BY <1>1
  <2>. QED  BY <1>1, <2>1 DEF Range
<1>3. ASSUME Distinct(b), n \notin Range(b) PROVE Distinct(Append(b, n))
  BY <1>1, <1>3 DEF Distinct, Range
<1>. QED  BY <1>1, <1>2, <1>3 DEF Last

(* A frontend that works with the numbers it had and the free number n. *)
LEMMA PlanStep ==
  ASSUME Ownership, TypeOK', NEW f \in Frontends, PlanQuery(f)
  PROVE  Ownership'
<1>1. TypeOK /\ RequestsOnce /\ Sessions /\ UnsentFresh /\ PlannedOnce /\ EddyNumbers /\ Feeders
  BY Zenon DEF Ownership
<1>2. /\ \A g \in Frontends : cur[g] \in Seq(Ids) /\ Range(cur[g]) \subseteq Ids /\ Using(g) \subseteq Ids
      /\ \A i \in DOMAIN planQ : planQ[i] \in Seq(Ids) /\ Range(planQ[i]) \subseteq Ids
      /\ NoQuery \notin Ids /\ Range(<<>>) = {}
  BY <1>1, Numbers, Zenon
<1>3. PICK n : n = NextNumber
  BY Zenon
<1>4. n \in Ids \ bitmap
  BY <1>1, <1>3, NextIsFree, Zenon DEF PlanQuery
<1>5. /\ NoRemoval(n) /\ ~ Has(controlQ, ExplainTo(n))
      /\ n \notin queryIds /\ resultQ[n] = <<>>
      /\ \A i \in DOMAIN planQ : n \notin Range(planQ[i])
      /\ \A g \in Frontends : n \notin Using(g)
  BY <1>4, FreeIsUnknown, Zenon
<1>6. /\ bitmap' = bitmap \cup {n} /\ cur' = [cur EXCEPT ![f] = Append(@, n)]
      /\ cqcancelid' = [cqcancelid EXCEPT ![f] = n]
      /\ \E s \in {"enqueue", "planning"} : fst' = [fst EXCEPT ![f] = s]
      /\ fst[f] \in {"idle", "planning"}
      /\ UNCHANGED <<planQ, controlQ, resultQ, portals, queryIds, numqueries,
                     queriesToRemove, recursiveQueryDeps, inflight>>
  BY <1>3, Zenon DEF PlanQuery, backend, eddy
<1>7. /\ fst'[f] \in {"enqueue", "planning"} /\ cur'[f] = Append(cur[f], n) /\ cqcancelid'[f] = n
      /\ \A g \in Frontends \ {f} : /\ fst'[g] = fst[g] /\ cur'[g] = cur[g]
                                    /\ cqcancelid'[g] = cqcancelid[g]
  BY <1>1, <1>6, Zenon DEF TypeOK
<1>8. /\ cur'[f] # <<>> /\ Last(cur'[f]) = n /\ Range(cur'[f]) = Range(cur[f]) \cup {n}
      /\ Distinct(cur[f]) /\ n \notin Range(cur[f]) => Distinct(cur'[f])
  BY <1>2, <1>4, <1>7, AppendFacts
<1>9. Using(f)' = Using(f) \cup {n} /\ \A g \in Frontends \ {f} : Using(g)' = Using(g)
  BY <1>6, <1>7, <1>8, Zenon DEF Using
<1>10. \A q : NoRemoval(q)' <=> NoRemoval(q)
  BY <1>6, Zenon DEF NoRemoval
<1>11. RequestsOnce'
  BY <1>1, <1>6, Zenon DEF RequestsOnce
<1>12. Sessions'
  BY <1>1, <1>5, <1>6, <1>7, <1>8, <1>9, <1>10 DEF Sessions
<1>13. UnsentFresh'
  <2>1. \A q : PlansFor(q)' = PlansFor(q)
    BY <1>6, Zenon DEF PlansFor
  <2>2. \A g \in Frontends \ {f} : Unsent(g)' <=> Unsent(g)
    BY <1>7, Zenon DEF Unsent
  <2>3. /\ Distinct(cur[f]) /\ n \notin Range(cur[f])
        /\ \A q \in Range(cur[f]) :
             /\ q \notin queryIds /\ PlansFor(q) = {} /\ resultQ[q] = <<>>
             /\ q \notin portals[f] /\ ~ Has(controlQ, ExplainTo(q))
    <3>1. CASE fst[f] = "idle"
      <4>1. cur[f] = <<>>
        BY <1>1, <3>1, Zenon DEF Sessions
      <4>. QED  BY <1>2, <4>1 DEF Distinct
    <3>2. CASE fst[f] = "planning"
      BY <1>1, <1>5, <3>2, Zenon DEF UnsentFresh, Unsent, Using
    <3>. QED  BY <1>6, <3>1, <3>2, Zenon
  <2>4. PlansFor(n) = {} /\ n \notin portals[f]
    BY <1>5, Zenon DEF PlansFor, Using
  <2>. QED  BY <1>1, <1>5, <1>6, <1>7, <1>8, <2>1, <2>2, <2>3, <2>4 DEF UnsentFresh
<1>14. PlannedOnce'
  BY <1>1, <1>6, Zenon DEF PlannedOnce
<1>15. EddyNumbers'
  BY <1>1, <1>6, Zenon DEF EddyNumbers
<1>16. Feeders'
  <2>1. ASSUME NEW r \in Ids, NEW q, FollowsOutput(r, q), r # n, r \notin Range(cur[f])
        PROVE  FollowsOutput(r, q)'
    BY <1>6, <1>7, <1>8, <1>10, <2>1 DEF FollowsOutput
  <2>2. \A r \in queryIds \cup UNION {Range(planQ[i]) : i \in DOMAIN planQ} : r # n /\ r \notin Range(cur[f])
    <3>1. CASE fst[f] = "idle"
      BY <1>1, <1>2, <1>5, <3>1, Zenon DEF Sessions
    <3>2. CASE fst[f] = "planning"
      BY <1>1, <1>2, <1>5, <3>2 DEF UnsentFresh, Unsent, PlansFor
    <3>. QED  BY <1>6, <3>1, <3>2, Zenon
  <2>3. \A i \in DOMAIN planQ : \A k \in 1 .. (Len(planQ[i]) - 1) :
          planQ[i][k] \in Ids /\ planQ[i][k] \in Range(planQ[i])
    BY <1>2 DEF Range
  <2>4. \A q \in Ids : recursiveQueryDeps[q] \subseteq queryIds \cap Ids
    BY <1>1, Zenon DEF Feeders, TypeOK
  <2>5. \A i \in DOMAIN planQ : \A k \in 1 .. (Len(planQ[i]) - 1) :
          FollowsOutput(planQ[i][k], Last(planQ[i]))'
    <3>1. ASSUME NEW i \in DOMAIN planQ, NEW r \in Range(planQ[i]) PROVE r # n /\ r \notin Range(cur[f])
      BY <2>2, <3>1, Zenon
    <3>2. \A i \in DOMAIN planQ : \A k \in 1 .. (Len(planQ[i]) - 1) :
            /\ planQ[i][k] # n /\ planQ[i][k] \notin Range(cur[f])
            /\ planQ[i][k] \in Ids /\ FollowsOutput(planQ[i][k], Last(planQ[i]))
      BY <1>1, <2>3, <3>1, Zenon DEF Feeders
    <3>. QED  BY <1>6, <2>1, <3>2
  <2>6. \A q \in Ids : \A r \in recursiveQueryDeps[q] : FollowsOutput(r, q)'
    BY <1>1, <1>6, <2>1, <2>2, <2>4, Zenon DEF Feeders
  <2>. QED  BY <1>1, <1>6, <2>5, <2>6, Zenon DEF Feeders
<1>. QED  BY <1>11, <1>12, <1>13, <1>14, <1>15, <1>16, Zenon DEF Ownership

(* A batch goes on the plan queue. *)
LEMMA EnqueueStep ==
  ASSUME Ownership, TypeOK', NEW f \in Frontends, EnqueuePlan(f)
  PROVE  Ownership'
<1>1. TypeOK /\ RequestsOnce /\ Sessions /\ UnsentFresh /\ PlannedOnce /\ EddyNumbers /\ Feeders
  BY Zenon DEF Ownership
<1>2. /\ \A g \in Frontends : cur[g] \in Seq(Ids) /\ Range(cur[g]) \subseteq Ids /\ Using(g) \subseteq Ids
      /\ \A i \in DOMAIN planQ : planQ[i] \in Seq(Ids) /\ Range(planQ[i]) \subseteq Ids
      /\ NoQuery \notin Ids /\ Range(<<>>) = {}
  BY <1>1, Numbers, Zenon
<1>3. /\ fst[f] = "enqueue" /\ planQ' = Append(planQ, cur[f]) /\ fst' = [fst EXCEPT ![f] = "started"]
      /\ UNCHANGED <<bitmap, controlQ, resultQ, cur, portals, cqcancelid, queryIds, numqueries,
                     queriesToRemove, recursiveQueryDeps, inflight>>
  BY Zenon DEF EnqueuePlan, backend, eddy
<1>4. PICK n : n = Len(planQ) + 1
  BY Zenon
<1>5. /\ DOMAIN planQ' = DOMAIN planQ \cup {n} /\ n \notin DOMAIN planQ
      /\ planQ'[n] = cur[f] /\ \A i \in DOMAIN planQ : planQ'[i] = planQ[i]
  <2>1. planQ \in Seq(Seq(Ids))
    BY <1>1, Zenon DEF TypeOK
  <2>. QED  BY <1>2, <1>3, <1>4, <2>1
<1>6. fst'[f] = "started" /\ \A g \in Frontends \ {f} : fst'[g] = fst[g]
  BY <1>1, <1>3, Zenon DEF TypeOK
<1>7. /\ Distinct(cur[f]) /\ cur[f] # <<>>
      /\ \A q \in Range(cur[f]) :
           /\ q \notin queryIds /\ resultQ[q] = <<>> /\ q \notin portals[f]
           /\ ~ Has(controlQ, ExplainTo(q)) /\ q \in bitmap /\ NoRemoval(q)
           /\ \A i \in DOMAIN planQ : q \notin Range(planQ[i])
           /\ \A g \in Frontends \ {f} : q \notin Using(g)
  BY <1>1, <1>3, Zenon DEF UnsentFresh, Unsent, PlansFor, Sessions, Using
<1>8. \A q : NoRemoval(q)' <=> NoRemoval(q)
  BY <1>3, Zenon DEF NoRemoval
<1>9. RequestsOnce' /\ EddyNumbers'
  BY <1>1, <1>3, Zenon DEF RequestsOnce, EddyNumbers
<1>10. Sessions'
  <2>1. \A g \in Frontends : Using(g)' = Using(g)
    BY <1>3, Zenon DEF Using
  <2>. QED  BY <1>1, <1>3, <1>6, <1>7, <1>8, <2>1, Zenon DEF Sessions
<1>11. UnsentFresh'
  <2>1. ASSUME NEW g \in Frontends, Unsent(g)' PROVE g # f /\ Unsent(g)
    BY <1>6, <2>1, Zenon DEF Unsent
  <2>2. ASSUME NEW g \in Frontends, Unsent(g), g # f, NEW q \in Range(cur[g]) PROVE PlansFor(q)' = {}
    <3>1. \A i \in DOMAIN planQ : q \notin Range(planQ[i])
      BY <1>1, <2>2, Zenon DEF UnsentFresh, PlansFor
    <3>2. q \notin Range(cur[f])
      BY <1>7, <2>2, Zenon DEF Using
    <3>. QED  BY <1>5, <3>1, <3>2, Zenon DEF PlansFor
  <2>. QED  BY <1>1, <1>3, <2>1, <2>2, Zenon DEF UnsentFresh
<1>12. PlannedOnce'
  BY <1>1, <1>3, <1>5, <1>7 DEF PlannedOnce
<1>13. Feeders'
  <2>1. \A r, q : FollowsOutput(r, q) => FollowsOutput(r, q)'
    BY <1>3, <1>8, Zenon DEF FollowsOutput
  <2>2. ASSUME NEW k \in 1 .. (Len(cur[f]) - 1)
        PROVE  FollowsOutput(cur[f][k], Last(cur[f]))
    <3>1. PICK r : r = cur[f][k]
      BY Zenon
    <3>2. r \in Range(cur[f]) /\ r # Last(cur[f])
      BY <1>2, <1>7, <2>2, <3>1 DEF Range, Last, Distinct
    <3>3. \A g \in Frontends :
            r \notin portals[g] /\ (r \in Range(cur[g]) => cur[g] # <<>> /\ Last(cur[g]) = Last(cur[f]))
      BY <1>7, <3>2, Zenon DEF Using
    <3>. QED  BY <1>7, <3>1, <3>2, <3>3, Zenon DEF FollowsOutput
  <2>3. \A i \in DOMAIN planQ' : \A k \in 1 .. (Len(planQ'[i]) - 1) : FollowsOutput(planQ'[i][k], Last(planQ'[i]))
    BY <1>1, <1>5, <2>2, Zenon DEF Feeders
  <2>4. \A i \in DOMAIN planQ' : \A k \in 1 .. (Len(planQ'[i]) - 1) : FollowsOutput(planQ[i][k], Last(planQ[i]))'
    BY <2>1, <2>3, Zenon
  <2>. QED  BY <1>1, <1>3, <2>1, <2>4, Zenon DEF Feeders
<1>. QED  BY <1>9, <1>10, <1>11, <1>12, <1>13, Zenon DEF Ownership

(* A statement starts to read, or leaves a cursor; a FETCH reads a cursor. *)
LEMMA ReadStep ==
  ASSUME Ownership, TypeOK', NEW f \in Frontends, StartStatement(f) \/ Fetch(f)
  PROVE  Ownership'
<1>1. TypeOK /\ RequestsOnce /\ Sessions /\ UnsentFresh /\ PlannedOnce /\ EddyNumbers /\ Feeders
  BY Zenon DEF Ownership
<1>2. /\ \A g \in Frontends : cur[g] \in Seq(Ids) /\ Range(cur[g]) \subseteq Ids /\ Using(g) \subseteq Ids
      /\ \A i \in DOMAIN planQ : planQ[i] \in Seq(Ids) /\ Range(planQ[i]) \subseteq Ids
      /\ NoQuery \notin Ids /\ Range(<<>>) = {}
  BY <1>1, Numbers, Zenon
<1>3. UNCHANGED <<bitmap, planQ, controlQ, resultQ, cqcancelid, queryIds, numqueries,
                  queriesToRemove, recursiveQueryDeps, inflight>>
  BY Zenon DEF StartStatement, Fetch, queues, backend, eddy
<1>4. /\ \A g \in Frontends \ {f} : fst'[g] = fst[g] /\ cur'[g] = cur[g] /\ portals'[g] = portals[g]
      /\ \/ /\ fst[f] = "started" /\ fst'[f] = "idle" /\ cur'[f] = <<>>
            /\ portals'[f] = portals[f] \cup {Last(cur[f])}
         \/ /\ fst[f] = "started" /\ fst'[f] = "reading" /\ cur'[f] = cur[f] /\ portals'[f] = portals[f]
         \/ /\ fst[f] = "idle" /\ fst'[f] = "reading" /\ portals'[f] = portals[f]
            /\ \E q \in portals[f] : cur'[f] = <<q>>
  <2>2. DOMAIN fst = Frontends /\ DOMAIN cur = Frontends /\ DOMAIN portals = Frontends
    BY <1>1, Zenon DEF TypeOK
  <2>3. CASE StartStatement(f) /\ declare[f]
    BY <2>2, <2>3, Zenon DEF StartStatement, LeaveStatement
  <2>4. CASE StartStatement(f) /\ ~ declare[f]
    BY <2>2, <2>4, Zenon DEF StartStatement
  <2>5. CASE Fetch(f)
    BY <2>2, <2>5, Zenon DEF Fetch
  <2>. QED  BY <2>3, <2>4, <2>5, Zenon
<1>5. \A q : <<q>> # <<>> /\ Range(<<q>>) = {q} /\ Last(<<q>>) = q
  BY DEF Range, Last
<1>6. cur[f] # <<>> => Last(cur[f]) \in Range(cur[f])
  BY <1>2, LastOf, Zenon
<1>7. fst[f] = "started" => cur[f] # <<>>
  BY <1>1, Zenon DEF Sessions
<1>8. Using(f)' \subseteq Using(f) /\ \A g \in Frontends \ {f} : Using(g)' = Using(g)
  <2>1. ASSUME NEW q \in Range(cur'[f]) \cup portals'[f] PROVE q \in Range(cur[f]) \cup portals[f]
    <3>1. CASE cur'[f] = <<>> /\ portals'[f] = portals[f] \cup {Last(cur[f])} /\ fst[f] = "started"
      BY <1>2, <1>6, <1>7, <2>1, <3>1, Zenon
    <3>2. CASE \E p \in portals[f] : cur'[f] = <<p>> /\ portals'[f] = portals[f]
      BY <1>5, <2>1, <3>2, Zenon
    <3>. QED  BY <1>4, <2>1, <3>1, <3>2, Zenon
  <2>2. Using(f)' \subseteq Using(f)
    BY <2>1, Zenon DEF Using
  <2>. QED  BY <1>4, <2>2, Zenon DEF Using
<1>9. \A q : NoRemoval(q)' <=> NoRemoval(q)
  BY <1>3, Zenon DEF NoRemoval
<1>10. RequestsOnce' /\ PlannedOnce' /\ EddyNumbers'
  BY <1>1, <1>3, Zenon DEF RequestsOnce, EddyNumbers, PlannedOnce
<1>11. Sessions'
  <2>1. ASSUME NEW g \in Frontends
        PROVE  /\ cur'[g] = <<>> <=> fst'[g] \in {"idle", "gone"}
               /\ cqcancelid'[g] \in portals'[g] \cup {NoQuery}
                    \/ (cur'[g] # <<>> /\ cqcancelid'[g] = Last(cur'[g]))
    <3>1. CASE g # f
      BY <1>1, <1>3, <1>4, <3>1, Zenon DEF Sessions
    <3>2. CASE g = f
      BY <1>1, <1>3, <1>4, <1>5, <1>7, <3>2, Zenon DEF Sessions
    <3>. QED  BY <3>1, <3>2, Zenon
  <2>2. \A g \in Frontends : Using(g)' \subseteq Using(g)
    BY <1>8, Zenon
  <2>3. \A g \in Frontends : \A q \in Using(g)' : q \in bitmap' /\ NoRemoval(q)'
    BY <1>1, <1>3, <1>9, <2>2, Zenon DEF Sessions
  <2>4. \A g, k \in Frontends : g # k => Using(g)' \cap Using(k)' = {}
    BY <1>1, <2>2, Zenon DEF Sessions
  <2>. QED  BY <2>1, <2>3, <2>4, Zenon DEF Sessions
<1>12. UnsentFresh'
  <2>1. ASSUME NEW g \in Frontends, Unsent(g)'
        PROVE  g # f /\ Unsent(g) /\ cur'[g] = cur[g] /\ portals'[g] = portals[g]
    BY <1>4, <2>1, Zenon DEF Unsent
  <2>2. \A q : PlansFor(q)' = PlansFor(q)
    BY <1>3, Zenon DEF PlansFor
  <2>. QED  BY <1>1, <1>3, <2>1, <2>2, Zenon DEF UnsentFresh
<1>13. Feeders'
  <2>1. ASSUME NEW r, NEW q, FollowsOutput(r, q) PROVE FollowsOutput(r, q)'
    <3>1. ASSUME NEW g \in Frontends
          PROVE  r \notin portals'[g] /\ (r \in Range(cur'[g]) => cur'[g] # <<>> /\ Last(cur'[g]) = q)
      <4>1. CASE g # f
        BY <1>4, <2>1, <4>1, Zenon DEF FollowsOutput
      <4>2. CASE g = f
        <5>1. r # q /\ r \notin portals[f] /\ (r \in Range(cur[f]) => cur[f] # <<>> /\ Last(cur[f]) = q)
          BY <2>1, Zenon DEF FollowsOutput
        <5>2. CASE cur'[f] = <<>> /\ portals'[f] = portals[f] \cup {Last(cur[f])} /\ fst[f] = "started"
          BY <1>2, <1>6, <1>7, <4>2, <5>1, <5>2, Zenon
        <5>3. CASE \E p \in portals[f] : cur'[f] = <<p>> /\ portals'[f] = portals[f]
          BY <1>5, <4>2, <5>1, <5>3
        <5>. QED  BY <1>4, <4>2, <5>1, <5>2, <5>3, Zenon
      <4>. QED  BY <4>1, <4>2, Zenon
    <3>. QED  BY <1>9, <2>1, <3>1, Zenon DEF FollowsOutput
  <2>. QED  BY <1>1, <1>3, <2>1, Zenon DEF Feeders
<1>. QED  BY <1>10, <1>11, <1>12, <1>13, Zenon DEF Ownership

(* EXPLAIN EDDY takes a free number and asks for an answer under it. *)
LEMMA ExplainStep ==
  ASSUME Ownership, TypeOK', NEW f \in Frontends, Explain(f)
  PROVE  Ownership'
<1>1. TypeOK /\ RequestsOnce /\ Sessions /\ UnsentFresh /\ PlannedOnce /\ EddyNumbers /\ Feeders
  BY Zenon DEF Ownership
<1>2. /\ \A g \in Frontends : cur[g] \in Seq(Ids) /\ Range(cur[g]) \subseteq Ids /\ Using(g) \subseteq Ids
      /\ \A i \in DOMAIN planQ : planQ[i] \in Seq(Ids) /\ Range(planQ[i]) \subseteq Ids
      /\ NoQuery \notin Ids /\ Range(<<>>) = {}
  BY <1>1, Numbers, Zenon
<1>3. PICK n : n = NextNumber
  BY Zenon
<1>4. n \in Ids \ bitmap
  BY <1>1, <1>3, NextIsFree, Zenon DEF Explain
<1>5. /\ NoRemoval(n) /\ ~ Has(controlQ, ExplainTo(n))
      /\ n \notin queryIds /\ resultQ[n] = <<>>
      /\ \A i \in DOMAIN planQ : n \notin Range(planQ[i])
      /\ \A g \in Frontends : n \notin Using(g)
  BY <1>4, FreeIsUnknown, Zenon
<1>6. /\ fst[f] = "idle" /\ bitmap' = bitmap \cup {n} /\ cur' = [cur EXCEPT ![f] = <<n>>]
      /\ SendControl(<<ExplainTo(n)>>) /\ fst' = [fst EXCEPT ![f] = "reading"]
      /\ UNCHANGED <<planQ, resultQ, portals, cqcancelid, queryIds, numqueries,
                     queriesToRemove, recursiveQueryDeps, inflight>>
  BY <1>3, Zenon DEF Explain, ExplainTo, backend, eddy
<1>7. /\ fst'[f] = "reading" /\ cur'[f] = <<n>> /\ cur[f] = <<>>
      /\ \A g \in Frontends \ {f} : fst'[g] = fst[g] /\ cur'[g] = cur[g]
  BY <1>1, <1>6, Zenon DEF TypeOK, Sessions
<1>8. /\ \A m : Has(controlQ', m) => Has(controlQ, m) \/ m = ExplainTo(n)
      /\ \A m : Twice(controlQ', m) => Twice(controlQ, m) \/ m = ExplainTo(n)
  <2>1. ExplainTo(n) \in Msg
    BY <1>4, Messages, Zenon
  <2>. QED  BY <1>1, <1>6, <2>1, SendOne, Zenon
<1>9. /\ \A q : Has(controlQ', Removal(q)) => Has(controlQ, Removal(q))
      /\ \A q : Twice(controlQ', Removal(q)) => Twice(controlQ, Removal(q))
      /\ \A q : Has(controlQ', ExplainTo(q)) => Has(controlQ, ExplainTo(q)) \/ q = n
  BY <1>8, Messages, Zenon
<1>10. \A q : NoRemoval(q) => NoRemoval(q)'
  BY <1>6, <1>9, Zenon DEF NoRemoval
<1>11. cur'[f] # <<>> /\ Range(cur'[f]) = {n} /\ Last(cur'[f]) = n
  BY <1>7 DEF Range, Last
<1>12. Using(f)' = Using(f) \cup {n} /\ \A g \in Frontends \ {f} : Using(g)' = Using(g)
  BY <1>2, <1>6, <1>7, <1>11, Zenon DEF Using
<1>13. RequestsOnce'
  BY <1>1, <1>2, <1>4, <1>6, <1>9, Zenon DEF RequestsOnce
<1>14. Sessions'
  <2>1. ASSUME NEW g \in Frontends
        PROVE  /\ cur'[g] = <<>> <=> fst'[g] \in {"idle", "gone"}
               /\ cqcancelid'[g] \in portals'[g] \cup {NoQuery}
                    \/ (cur'[g] # <<>> /\ cqcancelid'[g] = Last(cur'[g]))
    BY <1>1, <1>6, <1>7, <1>11, Zenon DEF Sessions
  <2>2. \A g \in Frontends : \A q \in Using(g)' : q \in bitmap' /\ NoRemoval(q)'
    BY <1>1, <1>5, <1>6, <1>10, <1>12 DEF Sessions
  <2>3. \A g, k \in Frontends : g # k => Using(g)' \cap Using(k)' = {}
    BY <1>1, <1>5, <1>12 DEF Sessions
  <2>. QED  BY <2>1, <2>2, <2>3, Zenon DEF Sessions
<1>15. UnsentFresh'
  <2>1. ASSUME NEW g \in Frontends, Unsent(g)' PROVE g # f /\ Unsent(g) /\ cur'[g] = cur[g]
    BY <1>7, <2>1, Zenon DEF Unsent
  <2>2. \A q : PlansFor(q)' = PlansFor(q)
    BY <1>6, Zenon DEF PlansFor
  <2>3. \A g \in Frontends : n \notin Range(cur[g])
    BY <1>5, Zenon DEF Using
  <2>. QED  BY <1>1, <1>6, <1>9, <2>1, <2>2, <2>3, Zenon DEF UnsentFresh
<1>16. PlannedOnce'
  BY <1>1, <1>5, <1>6, <1>9 DEF PlannedOnce
<1>17. EddyNumbers'
  BY <1>1, <1>5, <1>6, <1>9, Zenon DEF EddyNumbers
<1>18. Feeders'
  <2>1. ASSUME NEW r \in bitmap, NEW q, FollowsOutput(r, q) PROVE FollowsOutput(r, q)'
    BY <1>4, <1>6, <1>7, <1>10, <1>11, <2>1, Zenon DEF FollowsOutput
  <2>2. \A i \in DOMAIN planQ : \A k \in 1 .. (Len(planQ[i]) - 1) : planQ[i][k] \in bitmap
    BY <1>1, <1>2 DEF PlannedOnce, Range
  <2>3. \A q \in Ids : recursiveQueryDeps[q] \subseteq bitmap
    BY <1>1, Zenon DEF Feeders, EddyNumbers
  <2>. QED  BY <1>1, <1>6, <2>1, <2>2, <2>3, Zenon DEF Feeders
<1>. QED  BY <1>13, <1>14, <1>15, <1>16, <1>17, <1>18, Zenon DEF Ownership

(* Nothing is asked. *)
LEMMA AskNothing ==
  ASSUME TypeOK, UNCHANGED <<controlQ, refused>>
  PROVE  Asked({})
BY Zenon DEF TypeOK, Msg, Asked

(* An abort asks only for the removal of cursors and of the output query. *)
LEMMA AbortedAreUsed ==
  ASSUME Ownership, NEW f \in Frontends
  PROVE  /\ AbortedQueries(f) \subseteq Ids
         /\ \A r \in AbortedQueries(f) : r \in portals[f] \/ (cur[f] # <<>> /\ r = Last(cur[f]))
<1>1. portals[f] \subseteq Ids /\ cqcancelid[f] \in Ids \cup {NoQuery}
  BY Zenon DEF Ownership, TypeOK
<1>2. cqcancelid[f] \in portals[f] \cup {NoQuery} \/ (cur[f] # <<>> /\ cqcancelid[f] = Last(cur[f]))
  BY Zenon DEF Ownership, Sessions
<1>. QED  BY <1>1, <1>2, Zenon DEF AbortedQueries

(* AbortCurrentTransaction, with results read or not. *)
LEMMA AbortStep ==
  ASSUME Ownership, NEW f \in Frontends, NEW st \in {"idle", "gone"}, AbortCurrentTransaction(f, st),
         resultQ' \in [Ids -> Seq({"tuple", "error", "done"})],
         \A q \in Ids : Len(resultQ'[q]) <= ResultCap /\ (resultQ'[q] # <<>> => resultQ[q] # <<>>),
         UNCHANGED <<backend, pm>>
  PROVE  Ownership'
<1>1. TypeOK
  BY Zenon DEF Ownership
<1>2. PICK S : S = AbortedQueries(f)
  BY Zenon
<1>3. S \subseteq Ids /\ \A r \in S : r \in portals[f] \/ (cur[f] # <<>> /\ r = Last(cur[f]))
  BY <1>2, AbortedAreUsed, Zenon
<1>4. Asked(S)
  BY <1>1, <1>2, <1>3, SendRemovals, Zenon DEF AbortCurrentTransaction
<1>5. /\ fst' = [fst EXCEPT ![f] = st] /\ cur' = [cur EXCEPT ![f] = <<>>]
      /\ declare' = [declare EXCEPT ![f] = FALSE]
      /\ portals' = [portals EXCEPT ![f] = {}] /\ cqcancelid' = [cqcancelid EXCEPT ![f] = NoQuery]
      /\ UNCHANGED <<bitmap, planQ>>
  BY Zenon DEF AbortCurrentTransaction, LeaveStatement
<1>6. UNCHANGED <<bepc, queryIds, numqueries, queriesToRemove, recursiveQueryDeps, feedback,
                  inflight, shutdownPending, pm>>
  BY Zenon DEF backend, eddy
<1>7. TypeOK'
  BY <1>1, <1>4, <1>5, <1>6 DEF TypeOK, Asked, Msg
<1>. QED  BY <1>3, <1>4, <1>5, <1>6, <1>7, LeaveStep, Zenon

(* The end of a transaction closes cursors. *)
LEMMA ClosePortalsStep ==
  ASSUME Ownership, NEW f \in Frontends, ClosePortals(f)
  PROVE  Ownership'
<1>1. TypeOK /\ cur[f] = <<>> /\ fst[f] = "idle"
  BY Zenon DEF Ownership, Sessions, ClosePortals
<1>2. PICK S \in SUBSET portals[f] : cancelQuery(f, S) /\ portals' = [portals EXCEPT ![f] = @ \ S]
  BY Zenon DEF ClosePortals
<1>3. portals[f] \subseteq Ids
  BY <1>1, Zenon DEF TypeOK
<1>4. Asked(S)
  BY <1>1, <1>2, <1>3, SendRemovals, Zenon DEF cancelQuery
<1>5. PICK P : P = portals[f] \ S
  BY Zenon
<1>6. /\ fst' = [fst EXCEPT ![f] = "idle"] /\ cur' = [cur EXCEPT ![f] = <<>>]
      /\ portals' = [portals EXCEPT ![f] = P] /\ cqcancelid' = [cqcancelid EXCEPT ![f] = NoQuery]
  BY <1>1, <1>2, <1>5, Zenon DEF ClosePortals, cancelQuery, TypeOK
<1>7. UNCHANGED <<bitmap, planQ, resultQ, fst, cur, declare, bepc, queryIds, numqueries, queriesToRemove,
                  recursiveQueryDeps, feedback, inflight, shutdownPending, pm>>
  BY Zenon DEF ClosePortals, backend, eddy
<1>8. TypeOK'
  BY <1>1, <1>2, <1>4, <1>6, <1>7 DEF TypeOK, Asked, Msg
<1>9. P \subseteq portals[f] \ S /\ \A r \in S : r \in portals[f]
  BY <1>2, <1>5, Zenon
<1>. QED  BY <1>4, <1>6, <1>7, <1>8, <1>9, LeaveStep, Zenon

(* proc_exit, with or without a query left to cancel. *)
LEMMA ExitStep ==
  ASSUME Ownership, NEW f \in Frontends, proc_exit(f)
  PROVE  Ownership'
<1>1. TypeOK
  BY Zenon DEF Ownership
<1>2. UNCHANGED <<resultQ, backend, pm>>
  BY Zenon DEF proc_exit
<1>3. CASE cqcancelid[f] > -1
  <2>1. AbortCurrentTransaction(f, "gone")
    BY <1>3, Zenon DEF proc_exit
  <2>. QED  BY <1>1, <1>2, <2>1, AbortStep, Zenon DEF TypeOK
<1>4. CASE ~ (cqcancelid[f] > -1)
  <2>1. cqcancelid[f] = NoQuery
    BY <1>1, <1>4 DEF TypeOK, NoQuery, Ids
  <2>2. /\ portals' = [portals EXCEPT ![f] = {}] /\ LeaveStatement(f, "gone")
        /\ UNCHANGED <<bitmap, planQ, controlQ, refused, cqcancelid>>
    BY <1>4, Zenon DEF proc_exit
  <2>3. /\ fst' = [fst EXCEPT ![f] = "gone"] /\ cur' = [cur EXCEPT ![f] = <<>>]
        /\ declare' = [declare EXCEPT ![f] = FALSE]
        /\ cqcancelid' = [cqcancelid EXCEPT ![f] = NoQuery]
    BY <1>1, <2>1, <2>2, Zenon DEF LeaveStatement, TypeOK
  <2>4. UNCHANGED <<bepc, queryIds, numqueries, queriesToRemove, recursiveQueryDeps, feedback,
                    inflight, shutdownPending, pm>>
    BY <1>2, Zenon DEF backend, eddy
  <2>5. TypeOK'
    BY <1>1, <1>2, <2>2, <2>3, <2>4 DEF TypeOK
  <2>6. Asked({})
    BY <1>1, <2>2, AskNothing, Zenon
  <2>. QED  BY <1>2, <2>2, <2>3, <2>4, <2>5, <2>6, LeaveStep, Zenon
<1>. QED  BY <1>3, <1>4, Zenon

(* A frontend reads a tuple, an error or the end of its results. *)
LEMMA ReadResultStep ==
  ASSUME Ownership, NEW f \in Frontends, ReadResult(f)
  PROVE  Ownership'
<1>1. TypeOK /\ Sessions
  BY Zenon DEF Ownership
<1>2. PICK q : q = Last(cur[f])
  BY Zenon
<1>3. cur[f] # <<>> /\ cur[f] \in Seq(Ids)
  BY <1>1, Zenon DEF Sessions, ReadResult, TypeOK
<1>4. q \in Ids /\ q \in Range(cur[f])
  BY <1>2, <1>3, LastOf, Zenon
<1>5. /\ resultQ[q] # <<>> /\ resultQ' = [resultQ EXCEPT ![q] = Tail(@)]
      /\ UNCHANGED <<backend, pm>>
  BY <1>2, Zenon DEF ReadResult
<1>6. /\ resultQ' \in [Ids -> Seq({"tuple", "error", "done"})]
      /\ \A p \in Ids : Len(resultQ'[p]) <= ResultCap /\ (resultQ'[p] # <<>> => resultQ[p] # <<>>)
      /\ Head(resultQ[q]) \in {"tuple", "error", "done"}
  <2>1. resultQ \in [Ids -> Seq({"tuple", "error", "done"})] /\ \A p \in Ids : Len(resultQ[p]) <= ResultCap
    BY <1>1, Zenon DEF TypeOK
  <2>2. resultQ[q] \in Seq({"tuple", "error", "done"}) /\ Len(resultQ[q]) <= ResultCap /\ ResultCap \in Nat
    BY <1>4, <2>1, LifecycleConstants, Zenon
  <2>3. /\ Tail(resultQ[q]) \in Seq({"tuple", "error", "done"})
        /\ Len(Tail(resultQ[q])) <= ResultCap /\ Head(resultQ[q]) \in {"tuple", "error", "done"}
    BY <1>5, <2>2
  <2>. QED  BY <1>4, <1>5, <2>1, <2>3, Zenon
<1>7. UNCHANGED <<bepc, queryIds, numqueries, queriesToRemove, recursiveQueryDeps, feedback,
                  inflight, shutdownPending, pm>>
  BY <1>5, Zenon DEF backend, eddy
<1>8. CASE Head(resultQ[q]) = "tuple"
  <2>1. UNCHANGED <<session, bitmap, planQ, controlQ, refused>>
    BY <1>2, <1>8, Zenon DEF ReadResult
  <2>2. UNCHANGED <<fst, cur, declare, portals, cqcancelid, bitmap, planQ, controlQ, refused>>
    BY <2>1, Zenon DEF session
  <2>3. TypeOK'
    BY <1>1, <1>6, <1>7, <2>2, Zenon DEF TypeOK
  <2>4. \A i \in DOMAIN planQ : i + 0 = i
    BY <1>1 DEF TypeOK
  <2>. QED  BY <1>6, <1>7, <2>2, <2>3, <2>4, QuietStep, Zenon
<1>9. CASE Head(resultQ[q]) = "error"
  <2>1. AbortCurrentTransaction(f, "idle")
    BY <1>2, <1>9, Zenon DEF ReadResult
  <2>. QED  BY <1>5, <1>6, <2>1, AbortStep, Zenon
<1>10. CASE Head(resultQ[q]) = "done"
  <2>1. /\ IF q \in portals[f] THEN UNCHANGED <<controlQ, refused, cqcancelid>> ELSE cancelQuery(f, {q})
        /\ LeaveStatement(f, "idle") /\ UNCHANGED <<bitmap, planQ, portals>>
    BY <1>2, <1>10, Zenon DEF ReadResult
  <2>2. /\ fst' = [fst EXCEPT ![f] = "idle"] /\ cur' = [cur EXCEPT ![f] = <<>>]
        /\ declare' = [declare EXCEPT ![f] = FALSE] /\ portals' = [portals EXCEPT ![f] = portals[f]]
    BY <1>1, <2>1, Zenon DEF LeaveStatement, TypeOK
  <2>3. CASE q \in portals[f]
    <3>1. Asked({})
      BY <1>1, <2>1, <2>3, AskNothing, Zenon
    <3>2. TypeOK'
      <4>1. UNCHANGED <<controlQ, refused, cqcancelid, bitmap, planQ, portals>>
        BY <2>1, <2>3, Zenon
      <4>. QED  BY <1>1, <1>6, <1>7, <2>2, <4>1 DEF TypeOK
    <3>3. cqcancelid[f] \in portals[f] \cup {NoQuery} /\ cqcancelid' = [cqcancelid EXCEPT ![f] = cqcancelid[f]]
      BY <1>1, <1>2, <2>1, <2>3, Zenon DEF Sessions, TypeOK
    <3>. QED  BY <1>6, <1>7, <2>1, <2>2, <3>1, <3>2, <3>3, LeaveStep, Zenon
  <2>4. CASE q \notin portals[f]
    <3>1. PICK S : S = {q}
      BY Zenon
    <3>2. cancelQuery(f, S)
      BY <2>1, <2>4, <3>1, Zenon
    <3>3. Asked(S) /\ cqcancelid' = [cqcancelid EXCEPT ![f] = NoQuery]
      BY <1>1, <1>4, <3>1, <3>2, SendRemovals, Zenon DEF cancelQuery
    <3>4. TypeOK'
      BY <1>1, <1>6, <1>7, <2>1, <2>2, <3>3 DEF TypeOK, Asked, Msg
    <3>5. portals[f] \subseteq portals[f] \ S /\ \A r \in S : cur[f] # <<>> /\ r = Last(cur[f])
      BY <1>2, <1>3, <2>4, <3>1, Zenon
    <3>. QED  BY <1>6, <1>7, <2>1, <2>2, <3>3, <3>4, <3>5, LeaveStep, Zenon
  <2>. QED  BY <2>3, <2>4, Zenon
<1>. QED  BY <1>6, <1>8, <1>9, <1>10, Zenon

(* The remaining steps of the frontend. *)
LEMMA FrontendStep ==
  ASSUME Ownership, NEW f \in Frontends, Frontend(f)
  PROVE  Ownership'
<1>1. TypeOK /\ Sessions
  BY Zenon DEF Ownership
<1>2. resultQ \in [Ids -> Seq({"tuple", "error", "done"})] /\ \A q \in Ids : Len(resultQ[q]) <= ResultCap
  BY <1>1, Zenon DEF TypeOK
<1>3. CASE PlanQuery(f)
  <2>1. PICK n : n = NextNumber
    BY Zenon
  <2>2. n \in Ids
    BY <1>1, <1>3, <2>1, NextIsFree, Zenon DEF PlanQuery
  <2>3. cur[f] \in Seq(Ids) /\ Append(cur[f], n) \in Seq(Ids)
    BY <1>1, <2>2 DEF TypeOK
  <2>4. TypeOK'
    BY <1>1, <1>3, <2>1, <2>2, <2>3, Zenon DEF TypeOK, PlanQuery, backend, eddy
  <2>. QED  BY <1>3, <2>4, PlanStep, Zenon
<1>4. CASE PlanError(f) \/ Cancel(f)
  <2>1. AbortCurrentTransaction(f, "idle") /\ UNCHANGED <<resultQ, backend, pm>>
    BY <1>4, Zenon DEF PlanError, Cancel
  <2>. QED  BY <1>2, <2>1, AbortStep, Zenon
<1>5. CASE EnqueuePlan(f)
  <2>1. Append(planQ, cur[f]) \in Seq(Seq(Ids)) /\ Len(Append(planQ, cur[f])) <= PlanCap
    <3>1. planQ \in Seq(Seq(Ids)) /\ cur[f] \in Seq(Ids) /\ Len(planQ) < PlanCap /\ PlanCap \in Nat
      BY <1>1, <1>5, LifecycleConstants, Zenon DEF TypeOK, EnqueuePlan
    <3>. QED  BY <3>1
  <2>2. TypeOK'
    BY <1>1, <1>5, <2>1, Zenon DEF TypeOK, EnqueuePlan, backend, eddy
  <2>. QED  BY <1>5, <2>2, EnqueueStep, Zenon
<1>6. CASE StartStatement(f)
  <2>1. cur[f] # <<>> /\ cur[f] \in Seq(Ids)
    BY <1>1, <1>6, Zenon DEF Sessions, StartStatement, TypeOK
  <2>2. Last(cur[f]) \in Ids
    BY <2>1, LastOf, Zenon
  <2>3. /\ fst' \in [Frontends -> {"idle", "planning", "enqueue", "started", "reading", "gone"}]
        /\ cur' \in [Frontends -> Seq(Ids)] /\ declare' \in [Frontends -> BOOLEAN]
        /\ portals' \in [Frontends -> SUBSET Ids]
    <3>1. CASE declare[f]
      <4>1. PICK q \in Ids : q = Last(cur[f])
        BY <2>2, Zenon
      <4>2. portals' = [portals EXCEPT ![f] = portals[f] \cup {q}] /\ LeaveStatement(f, "idle")
        BY <1>6, <3>1, <4>1, Zenon DEF StartStatement
      <4>3. portals' \in [Frontends -> SUBSET Ids]
        BY <1>1, <4>1, <4>2, Zenon DEF TypeOK
      <4>4. declare' \in [Frontends -> BOOLEAN]
        BY <1>1, <4>2, Zenon DEF TypeOK, LeaveStatement
      <4>5. <<>> \in Seq(Ids)
        OBVIOUS
      <4>. QED  BY <1>1, <4>2, <4>3, <4>4, <4>5, Zenon DEF TypeOK, LeaveStatement
    <3>2. CASE ~ declare[f]
      BY <1>1, <1>6, <3>2, Zenon DEF TypeOK, StartStatement
    <3>. QED  BY <3>1, <3>2, Zenon
  <2>4. TypeOK'
    BY <1>1, <1>6, <2>3, Zenon DEF TypeOK, StartStatement, queues, backend, eddy
  <2>. QED  BY <1>6, <2>4, ReadStep, Zenon
<1>7. CASE Fetch(f)
  <2>1. PICK q \in portals[f] : cur' = [cur EXCEPT ![f] = <<q>>]
    BY <1>7, Zenon DEF Fetch
  <2>2. <<q>> \in Seq(Ids)
    BY <1>1, <2>1 DEF TypeOK
  <2>3. TypeOK'
    BY <1>1, <1>7, <2>1, <2>2, Zenon DEF TypeOK, Fetch, queues, backend, eddy
  <2>. QED  BY <1>7, <2>3, ReadStep, Zenon
<1>8. CASE Explain(f)
  <2>1. PICK n, m : n = NextNumber /\ m = ExplainTo(n)
    BY Zenon
  <2>2. n \in Ids
    BY <1>1, <1>8, <2>1, NextIsFree, Zenon DEF Explain
  <2>3. m \in Msg /\ SendControl(<<m>>)
    BY <1>8, <2>1, <2>2, Messages, Zenon DEF Explain, ExplainTo
  <2>4. controlQ' \in Seq(Msg) /\ Len(controlQ') <= ControlCap /\ refused' \subseteq Commands
    BY <1>1, <2>3, SendOne, Zenon
  <2>5. <<n>> \in Seq(Ids)
    BY <2>2
  <2>6. TypeOK'
    BY <1>1, <1>8, <2>1, <2>2, <2>4, <2>5, Zenon DEF TypeOK, Explain, Msg, backend, eddy
  <2>. QED  BY <1>8, <2>6, ExplainStep, Zenon
<1>. QED  BY <1>3, <1>4, <1>5, <1>6, <1>7, <1>8, ReadResultStep, ClosePortalsStep, ExitStep, Zenon DEF Frontend

-----------------------------------------------------------------------------
(* The eddy takes note of a removal request. *)
LEMMA RemoveStep ==
  ASSUME Ownership, TypeOK', ControlRemove
  PROVE  Ownership'
<1>1. TypeOK /\ RequestsOnce /\ Sessions /\ UnsentFresh /\ PlannedOnce /\ EddyNumbers /\ Feeders
  BY Zenon DEF Ownership
<1>2. /\ \A g \in Frontends : cur[g] \in Seq(Ids) /\ Range(cur[g]) \subseteq Ids /\ Using(g) \subseteq Ids
      /\ \A i \in DOMAIN planQ : planQ[i] \in Seq(Ids) /\ Range(planQ[i]) \subseteq Ids
      /\ NoQuery \notin Ids /\ Range(<<>>) = {}
  BY <1>1, Numbers, Zenon
<1>3. PICK q : q = Head(controlQ).q
  BY Zenon
<1>4. /\ Has(controlQ, Head(controlQ)) /\ Head(controlQ) \in Msg
      /\ \A m : Has(controlQ', m) => Has(controlQ, m)
      /\ \A m : Twice(controlQ', m) => Twice(controlQ, m)
      /\ Has(controlQ', Head(controlQ)) => Twice(controlQ, Head(controlQ))
  BY <1>1, TakeOne, Zenon DEF ControlRemove
<1>5. Head(controlQ) = Removal(q) /\ q \in Ids \cup {NoQuery}
  BY <1>3, <1>4, Zenon DEF Msg, Removal, Message, ControlRemove
<1>6. /\ q \in Ids /\ q \in bitmap /\ queriesToRemove[q] = 0
      /\ Has(controlQ, Removal(q)) /\ ~ Has(controlQ', Removal(q))
      /\ \A f \in Frontends : q \notin Using(f)
  <2>1. q \in Ids
    BY <1>1, <1>4, <1>5, Zenon DEF RequestsOnce
  <2>2. q \in bitmap /\ ~ Twice(controlQ, Removal(q)) /\ ~ (queriesToRemove[q] > 0)
    BY <1>1, <1>4, <1>5, <2>1, Zenon DEF RequestsOnce
  <2>3. queriesToRemove[q] \in Nat
    BY <1>1, <2>1, Zenon DEF TypeOK
  <2>4. \A f \in Frontends : q \notin Using(f)
    BY <1>1, <1>4, <1>5, Zenon DEF Sessions, NoRemoval
  <2>. QED  BY <1>4, <1>5, <2>1, <2>2, <2>3, <2>4
<1>7. PICK D : D = recursiveQueryDeps[q]
  BY Zenon
<1>8. /\ queriesToRemove' = [r \in Ids |-> queriesToRemove[r]
                               + (IF r \in {q} THEN 1 ELSE 0) + (IF r \in D THEN 1 ELSE 0)]
      /\ recursiveQueryDeps' = [recursiveQueryDeps EXCEPT ![q] = {}]
      /\ UNCHANGED <<bitmap, planQ, resultQ, fst, cur, portals, cqcancelid, queryIds, numqueries, inflight>>
  <2>1. queriesToRemove' = [r \in Ids |-> queriesToRemove[r]
                               + Cardinality({r} \cap {q}) + Cardinality({r} \cap D)]
    BY <1>3, <1>7, Zenon DEF ControlRemove
  <2>2. \A r, S : Cardinality({r} \cap S) = IF r \in S THEN 1 ELSE 0
    BY CardMeet, Zenon
  <2>3. \A r : /\ Cardinality({r} \cap {q}) = IF r \in {q} THEN 1 ELSE 0
               /\ Cardinality({r} \cap D) = IF r \in D THEN 1 ELSE 0
    BY <2>2, Zenon
  <2>. QED  BY <1>3, <2>1, <2>3, Zenon DEF ControlRemove, BackendOnly, session
<1>9. /\ q \notin D /\ D \subseteq queryIds \cap Ids
      /\ \A r \in D : FollowsOutput(r, q) /\ queriesToRemove[r] = 0 /\ ~ Has(controlQ, Removal(r))
      /\ \A r \in D : \A f \in Frontends : r \notin Using(f)
  <2>1. \A r \in D : FollowsOutput(r, q) /\ r \in queryIds
    BY <1>1, <1>6, <1>7, Zenon DEF Feeders
  <2>2. D \subseteq Ids
    BY <1>1, <1>6, <1>7, Zenon DEF TypeOK
  <2>3. \A r \in D : r # q /\ queriesToRemove[r] = 0 /\ ~ Has(controlQ, Removal(r))
    BY <2>1, Zenon DEF FollowsOutput, NoRemoval
  <2>4. ASSUME NEW r \in D, NEW f \in Frontends PROVE r \notin Using(f)
    <3>1. r \notin portals[f] /\ (r \in Range(cur[f]) => cur[f] # <<>> /\ Last(cur[f]) = q)
      BY <2>1, <2>4, Zenon DEF FollowsOutput
    <3>2. cur[f] # <<>> => Last(cur[f]) \in Using(f)
      BY <1>2, LastOf, Zenon DEF Using
    <3>. QED  BY <1>6, <3>1, <3>2, Zenon DEF Using
  <2>. QED  BY <2>1, <2>2, <2>3, <2>4, Zenon
<1>10. /\ \A r \in {q} \cup D : queriesToRemove'[r] = 1
       /\ \A r \in Ids \ ({q} \cup D) : queriesToRemove'[r] = queriesToRemove[r]
  <2>1. \A r \in Ids : queriesToRemove[r] \in Nat
    BY <1>1, Zenon DEF TypeOK
  <2>. QED  BY <1>6, <1>8, <1>9, <2>1
<1>11. \A r \in Ids : NoRemoval(r) /\ r \notin D => NoRemoval(r)'
  BY <1>4, <1>6, <1>10, Zenon DEF NoRemoval
<1>12. RequestsOnce'
  <2>1. \A r \in {q} \cup D : r \in bitmap /\ ~ Has(controlQ', Removal(r))
    BY <1>1, <1>4, <1>6, <1>9, Zenon DEF EddyNumbers
  <2>. QED  BY <1>1, <1>4, <1>8, <1>10, <2>1, Zenon DEF RequestsOnce
<1>13. Sessions'
  <2>1. \A f \in Frontends : Using(f)' = Using(f)
    BY <1>8, Zenon DEF Using
  <2>. QED  BY <1>1, <1>2, <1>8, <1>9, <1>11, <2>1 DEF Sessions
<1>14. UnsentFresh'
  <2>1. \A f \in Frontends : Unsent(f)' <=> Unsent(f)
    BY <1>8, Zenon DEF Unsent
  <2>2. \A r : PlansFor(r)' = PlansFor(r)
    BY <1>8, Zenon DEF PlansFor
  <2>. QED  BY <1>1, <1>4, <1>8, <2>1, <2>2, Zenon DEF UnsentFresh
<1>15. PlannedOnce'
  BY <1>1, <1>4, <1>8, Zenon DEF PlannedOnce
<1>16. EddyNumbers'
  BY <1>1, <1>4, <1>8, Zenon DEF EddyNumbers
<1>17. Feeders'
  <2>1. ASSUME NEW r \in Ids, NEW p, FollowsOutput(r, p), r \notin D PROVE FollowsOutput(r, p)'
    BY <1>8, <1>11, <2>1, Zenon DEF FollowsOutput
  <2>2. \A i \in DOMAIN planQ : \A k \in 1 .. (Len(planQ[i]) - 1) : planQ[i][k] \in Ids \ D
    BY <1>1, <1>2, <1>9 DEF PlannedOnce, Range
  <2>3. /\ recursiveQueryDeps'[q] = {}
        /\ \A p \in Ids \ {q} : recursiveQueryDeps'[p] = recursiveQueryDeps[p]
    BY <1>1, <1>6, <1>8 DEF TypeOK
  <2>4. ASSUME NEW p \in Ids \ {q}, NEW r \in recursiveQueryDeps[p]
        PROVE  /\ r \in Ids \ D /\ FollowsOutput(r, p)' /\ {p, r} \subseteq queryIds
               /\ queriesToRemove'[p] = 0 /\ recursiveQueryDeps'[r] = {}
               /\ \A s \in Ids : r \in recursiveQueryDeps[s] => s = p
    <3>1. /\ FollowsOutput(r, p) /\ {p, r} \subseteq queryIds
          /\ queriesToRemove[p] = 0 /\ recursiveQueryDeps[r] = {}
          /\ \A s \in Ids : r \in recursiveQueryDeps[s] => s = p
      BY <1>1, <2>4, Zenon DEF Feeders
    <3>2. r \in Ids \ D
      BY <1>1, <1>6, <1>7, <2>4, <3>1, Zenon DEF TypeOK
    <3>3. p \notin D
      BY <1>1, <1>6, <1>7, <2>4, Zenon DEF Feeders
    <3>4. queriesToRemove'[p] = 0
      BY <1>10, <2>4, <3>1, <3>3, Zenon
    <3>. QED  BY <2>1, <2>3, <3>1, <3>2, <3>4, Zenon
  <2>. QED  BY <1>1, <1>8, <2>1, <2>2, <2>3, <2>4 DEF Feeders
<1>. QED  BY <1>12, <1>13, <1>14, <1>15, <1>16, <1>17, Zenon DEF Ownership

(* The eddy takes the first batch of the plan queue. *)
LEMMA TailOfPlans ==
  ASSUME TypeOK, planQ # <<>>, planQ' = Tail(planQ)
  PROVE  /\ 1 \in DOMAIN planQ /\ Head(planQ) = planQ[1]
         /\ \A i \in DOMAIN planQ' : /\ i \in Nat \ {0} /\ i + 1 \in DOMAIN planQ
                                     /\ planQ'[i] = planQ[i + 1] /\ i + 1 # 1
BY DEF TypeOK

(* A plan whose output query has a removal request is dropped, and its number
   becomes free. *)
LEMMA CancelledStep ==
  ASSUME Ownership, TypeOK', CancelledPlan
  PROVE  Ownership'
<1>1. TypeOK /\ RequestsOnce /\ Sessions /\ UnsentFresh /\ PlannedOnce /\ EddyNumbers /\ Feeders
  BY Zenon DEF Ownership
<1>2. /\ \A g \in Frontends : cur[g] \in Seq(Ids) /\ Range(cur[g]) \subseteq Ids /\ Using(g) \subseteq Ids
      /\ \A i \in DOMAIN planQ : planQ[i] \in Seq(Ids) /\ Range(planQ[i]) \subseteq Ids
      /\ NoQuery \notin Ids /\ Range(<<>>) = {}
  BY <1>1, Numbers, Zenon
<1>3. /\ 1 \in DOMAIN planQ /\ Head(planQ) = planQ[1] /\ planQ[1] # <<>>
      /\ \A i \in DOMAIN planQ' : /\ i \in Nat \ {0} /\ i + 1 \in DOMAIN planQ
                                  /\ planQ'[i] = planQ[i + 1] /\ i + 1 # 1
  BY <1>1, TailOfPlans, Zenon DEF CancelledPlan
<1>4. PICK q : q = Last(planQ[1])
  BY Zenon
<1>5. q \in Range(planQ[1]) /\ q \in Ids
  BY <1>2, <1>3, <1>4, LastOf, Zenon
<1>6. /\ queriesToRemove[q] > 0 /\ queriesToRemove' = [queriesToRemove EXCEPT ![q] = @ - 1]
      /\ bitmap' = bitmap \ {q}
      /\ UNCHANGED <<controlQ, resultQ, fst, cur, portals, cqcancelid, queryIds, numqueries,
                     recursiveQueryDeps, inflight>>
  BY <1>3, <1>4, Zenon DEF CancelledPlan, BackendOnly, session
<1>7. /\ queriesToRemove[q] = 1 /\ ~ Has(controlQ, Removal(q)) /\ q \notin queryIds /\ resultQ[q] = <<>>
      /\ ~ Has(controlQ, ExplainTo(q)) /\ \A f \in Frontends : q \notin Using(f)
      /\ \A i \in DOMAIN planQ : i # 1 => q \notin Range(planQ[i])
  <2>1. queriesToRemove[q] = 1 /\ ~ Has(controlQ, Removal(q))
    BY <1>1, <1>5, <1>6, Zenon DEF RequestsOnce
  <2>2. \A f \in Frontends : q \notin Using(f)
    BY <1>1, <1>6 DEF Sessions, NoRemoval
  <2>3. /\ q \notin queryIds /\ resultQ[q] = <<>> /\ ~ Has(controlQ, ExplainTo(q))
        /\ \A i \in DOMAIN planQ : i # 1 => q \notin Range(planQ[i])
    BY <1>1, <1>3, <1>5, Zenon DEF PlannedOnce
  <2>. QED  BY <2>1, <2>2, <2>3, Zenon
<1>8. queriesToRemove'[q] = 0 /\ \A r \in Ids \ {q} : queriesToRemove'[r] = queriesToRemove[r]
  BY <1>1, <1>5, <1>6, <1>7 DEF TypeOK
<1>9. \A r \in Ids : NoRemoval(r) => NoRemoval(r)'
  BY <1>6, <1>7, <1>8, Zenon DEF NoRemoval
<1>10. RequestsOnce'
  BY <1>1, <1>2, <1>6, <1>7, <1>8 DEF RequestsOnce
<1>11. Sessions'
  <2>1. \A f \in Frontends : Using(f)' = Using(f)
    BY <1>6, Zenon DEF Using
  <2>. QED  BY <1>1, <1>2, <1>6, <1>7, <1>9, <2>1, Zenon DEF Sessions
<1>12. UnsentFresh'
  <2>1. \A f \in Frontends : Unsent(f)' <=> Unsent(f)
    BY <1>6, Zenon DEF Unsent
  <2>2. \A r : PlansFor(r) = {} => PlansFor(r)' = {}
    BY <1>3, Zenon DEF PlansFor
  <2>. QED  BY <1>1, <1>6, <2>1, <2>2, Zenon DEF UnsentFresh
<1>13. PlannedOnce'
  BY <1>1, <1>3, <1>6, <1>7 DEF PlannedOnce
<1>14. EddyNumbers'
  BY <1>1, <1>6, <1>7, Zenon DEF EddyNumbers
<1>15. Feeders'
  <2>1. \A r \in Ids : \A p : FollowsOutput(r, p) => FollowsOutput(r, p)'
    BY <1>6, <1>9, Zenon DEF FollowsOutput
  <2>2. \A i \in DOMAIN planQ' : \A k \in 1 .. (Len(planQ'[i]) - 1) :
          planQ'[i][k] \in Ids /\ FollowsOutput(planQ'[i][k], Last(planQ'[i]))
    BY <1>1, <1>2, <1>3 DEF Feeders
  <2>3. \A i \in DOMAIN planQ' : \A k \in 1 .. (Len(planQ'[i]) - 1) :
          FollowsOutput(planQ[i][k], Last(planQ[i]))'
    BY <2>1, <2>2, Zenon
  <2>4. \A p \in Ids : recursiveQueryDeps[p] \subseteq Ids
    BY <1>1, Zenon DEF TypeOK
  <2>5. \A p \in Ids : queriesToRemove[p] = 0 => queriesToRemove'[p] = 0
    BY <1>8, Zenon
  <2>. QED  BY <1>1, <1>6, <2>1, <2>3, <2>4, <2>5, Zenon DEF Feeders
<1>. QED  BY <1>10, <1>11, <1>12, <1>13, <1>14, <1>15, Zenon DEF Ownership

(* A batch has as many numbers as places. *)
LEMMA BatchFacts ==
  ASSUME NEW b \in Seq(Ids), b # <<>>, Distinct(b)
  PROVE  /\ Cardinality(Range(b)) = Len(b) /\ IsFiniteSet(Range(b))
         /\ Range(Front(b)) = {b[k] : k \in 1 .. (Len(b) - 1)}
         /\ Range(b) = Range(Front(b)) \cup {Last(b)} /\ Last(b) \notin Range(Front(b))
         /\ Len(b) = 1 => Range(Front(b)) = {}
<1>1. Len(b) \in Nat \ {0} /\ DOMAIN b = 1 .. Len(b)
  OBVIOUS
<1>2. Front(b) \in Seq(Ids) /\ Len(Front(b)) = Len(b) - 1 /\ \A k \in 1 .. (Len(b) - 1) : Front(b)[k] = b[k]
  BY <1>1 DEF Front
<1>3. Range(Front(b)) = {b[k] : k \in 1 .. (Len(b) - 1)}
  <2>1. DOMAIN Front(b) = 1 .. (Len(b) - 1)
    BY <1>1, <1>2
  <2>. QED  BY <1>2, <2>1, Zenon DEF Range
<1>4. Range(b) = Range(Front(b)) \cup {Last(b)}
  <2>1. \A n \in Nat \ {0} : 1 .. n = 1 .. (n - 1) \cup {n}
    OBVIOUS
  <2>2. DOMAIN b = 1 .. (Len(b) - 1) \cup {Len(b)}
    BY <1>1, <2>1, Zenon
  <2>. QED  BY <1>3, <2>2, Zenon DEF Range, Last
<1>5. Last(b) \notin Range(Front(b))
  BY <1>1, <1>3 DEF Distinct, Last
<1>6. ExistsBijection(1 .. Len(b), Range(b))
  <2>1. b \in [1 .. Len(b) -> Range(b)]
    BY <1>1 DEF Range
  <2>2. b \in Injection(1 .. Len(b), Range(b))
    BY <1>1, <2>1, Zenon DEF Injection, IsInjective, Distinct
  <2>3. b \in Surjection(1 .. Len(b), Range(b))
    BY <1>1, <2>1, Zenon DEF Surjection, Range
  <2>. QED  BY <2>2, <2>3, Zenon DEF ExistsBijection, Bijection
<1>7. Cardinality(Range(b)) = Len(b) /\ IsFiniteSet(Range(b))
  BY <1>1, <1>6, FS_CountingElements, FS_NatBijection, Zenon
<1>8. Len(b) = 1 => Range(Front(b)) = {}
  BY <1>3
<1>. QED  BY <1>3, <1>4, <1>5, <1>7, <1>8, Zenon

(* A batch joins the eddy. *)
LEMMA IntegrateStep ==
  ASSUME Ownership, TypeOK', IntegratePlan
  PROVE  Ownership'
<1>1. TypeOK /\ RequestsOnce /\ Sessions /\ UnsentFresh /\ PlannedOnce /\ EddyNumbers /\ Feeders
  BY Zenon DEF Ownership
<1>2. /\ \A g \in Frontends : cur[g] \in Seq(Ids) /\ Range(cur[g]) \subseteq Ids /\ Using(g) \subseteq Ids
      /\ \A i \in DOMAIN planQ : planQ[i] \in Seq(Ids) /\ Range(planQ[i]) \subseteq Ids
      /\ NoQuery \notin Ids /\ Range(<<>>) = {}
  BY <1>1, Numbers, Zenon
<1>3. /\ 1 \in DOMAIN planQ /\ Head(planQ) = planQ[1] /\ planQ[1] # <<>>
      /\ \A i \in DOMAIN planQ' : /\ i \in Nat \ {0} /\ i + 1 \in DOMAIN planQ
                                  /\ planQ'[i] = planQ[i + 1] /\ i + 1 # 1
  BY <1>1, TailOfPlans, Zenon DEF IntegratePlan
<1>4. PICK b : b = planQ[1]
  BY Zenon
<1>5. PICK q, F, n : q = Last(b) /\ F = Range(Front(b)) /\ n = Len(b)
  BY Zenon
<1>6. b \in Seq(Ids) /\ b # <<>> /\ Distinct(b) /\ Range(b) \subseteq Ids
  BY <1>1, <1>2, <1>3, <1>4, Zenon DEF PlannedOnce
<1>7. /\ Cardinality(Range(b)) = Len(b) /\ IsFiniteSet(Range(b))
      /\ F = {b[k] : k \in 1 .. (Len(b) - 1)} /\ Range(b) = F \cup {q} /\ q \notin F
      /\ n = 1 => F = {}
  BY <1>5, <1>6, BatchFacts, Zenon
<1>8. n \in Nat \ {0} /\ n = Cardinality(Range(b))
  BY <1>5, <1>6, <1>7
<1>9. q \in Ids /\ F \subseteq Ids
  BY <1>6, <1>7, Zenon
<1>10. /\ queriesToRemove[q] = 0 /\ queryIds' = queryIds \cup Range(b) /\ numqueries' = numqueries + n
       /\ recursiveQueryDeps' = IF n > 1 THEN [recursiveQueryDeps EXCEPT ![q] = F] ELSE recursiveQueryDeps
       /\ UNCHANGED <<bitmap, controlQ, resultQ, fst, cur, portals, cqcancelid, queriesToRemove, inflight>>
  BY <1>3, <1>4, <1>5, Zenon DEF IntegratePlan, BackendOnly, session
<1>11. \A r \in Range(b) :
         /\ r \in bitmap /\ r \notin queryIds /\ resultQ[r] = <<>> /\ ~ Has(controlQ, ExplainTo(r))
         /\ \A i \in DOMAIN planQ : i # 1 => r \notin Range(planQ[i])
  BY <1>1, <1>3, <1>4, Zenon DEF PlannedOnce
<1>12. \A p \in Ids \ queryIds : recursiveQueryDeps[p] = {}
  BY <1>1, Zenon DEF Feeders
<1>13. recursiveQueryDeps'[q] = F /\ \A p \in Ids \ {q} : recursiveQueryDeps'[p] = recursiveQueryDeps[p]
  <2>1. CASE n > 1
    BY <1>1, <1>9, <1>10, <2>1, Zenon DEF TypeOK
  <2>2. CASE ~ (n > 1)
    <3>1. n = 1
      BY <1>8, <2>2
    <3>. QED  BY <1>7, <1>9, <1>10, <1>11, <1>12, <2>2, <3>1, Zenon
  <2>. QED  BY <2>1, <2>2, Zenon
<1>14. \A r : NoRemoval(r)' <=> NoRemoval(r)
  BY <1>10, Zenon DEF NoRemoval
<1>15. RequestsOnce'
  BY <1>1, <1>10, Zenon DEF RequestsOnce
<1>16. Sessions'
  <2>1. \A f \in Frontends : Using(f)' = Using(f)
    BY <1>10, Zenon DEF Using
  <2>. QED  BY <1>1, <1>10, <1>14, <2>1, Zenon DEF Sessions
<1>17. UnsentFresh'
  <2>1. \A f \in Frontends : Unsent(f)' <=> Unsent(f)
    BY <1>10, Zenon DEF Unsent
  <2>2. \A r : PlansFor(r) = {} => PlansFor(r)' = {} /\ r \notin Range(b)
    BY <1>3, <1>4, Zenon DEF PlansFor
  <2>. QED  BY <1>1, <1>10, <2>1, <2>2, Zenon DEF UnsentFresh
<1>18. PlannedOnce'
  BY <1>1, <1>3, <1>10, <1>11 DEF PlannedOnce
<1>19. EddyNumbers'
  <2>1. numqueries' = Cardinality(queryIds')
    <3>1. IsFiniteSet(queryIds) /\ queryIds \cap Range(b) = {}
      <4>1. queryIds \in SUBSET Ids
        BY <1>1, Zenon DEF TypeOK
      <4>. QED  BY <1>11, <4>1, IdsFinite, FS_Subset, Zenon
    <3>2. Cardinality(queryIds \cup Range(b))
            = Cardinality(queryIds) + Cardinality(Range(b)) - Cardinality(queryIds \cap Range(b))
      BY <1>7, <3>1, FS_Union, Zenon
    <3>3. Cardinality(queryIds \cap Range(b)) = 0
      BY <3>1, FS_EmptySet, Zenon
    <3>4. numqueries = Cardinality(queryIds) /\ numqueries \in Nat
      BY <1>1, Zenon DEF EddyNumbers, TypeOK
    <3>. QED  BY <1>10, <1>8, <3>2, <3>3, <3>4
  <2>2. /\ queryIds' \subseteq bitmap' /\ inflight' \subseteq queryIds'
        /\ \A r \in Ids : r \notin bitmap' => resultQ'[r] = <<>>
        /\ \A r \in Ids : Has(controlQ', ExplainTo(r)) => r \in bitmap' \ queryIds'
    BY <1>1, <1>10, <1>11, Zenon DEF EddyNumbers
  <2>. QED  BY <2>1, <2>2, Zenon DEF EddyNumbers
<1>20. Feeders'
  <2>1. \A r, p : FollowsOutput(r, p) => FollowsOutput(r, p)'
    BY <1>10, <1>14, Zenon DEF FollowsOutput
  <2>2. \A i \in DOMAIN planQ' : \A k \in 1 .. (Len(planQ'[i]) - 1) :
          FollowsOutput(planQ'[i][k], Last(planQ'[i]))
    BY <1>1, <1>3, Zenon DEF Feeders
  <2>3. \A i \in DOMAIN planQ' : \A k \in 1 .. (Len(planQ'[i]) - 1) :
          FollowsOutput(planQ[i][k], Last(planQ[i]))'
    BY <2>1, <2>2, Zenon
  <2>4. \A r \in F : FollowsOutput(r, q)
    BY <1>1, <1>3, <1>4, <1>5, <1>7 DEF Feeders
  <2>5. ASSUME NEW p \in Ids, NEW r \in recursiveQueryDeps'[p]
        PROVE  /\ FollowsOutput(r, p)' /\ {p, r} \subseteq queryIds'
               /\ queriesToRemove'[p] = 0 /\ recursiveQueryDeps'[r] = {}
               /\ \A s \in Ids : r \in recursiveQueryDeps'[s] => s = p
    <3>1. CASE p = q
      <4>1. r \in F /\ r \in Ids /\ r \notin queryIds
        BY <1>7, <1>9, <1>11, <1>13, <2>5, <3>1, Zenon
      <4>2. recursiveQueryDeps'[r] = {}
        BY <1>7, <1>12, <1>13, <4>1, Zenon
      <4>3. \A s \in Ids : r \in recursiveQueryDeps'[s] => s = q
        BY <1>1, <1>13, <4>1, Zenon DEF Feeders
      <4>. QED  BY <1>7, <1>10, <2>1, <2>4, <3>1, <4>1, <4>2, <4>3, Zenon
    <3>2. CASE p # q
      <4>1. /\ FollowsOutput(r, p) /\ {p, r} \subseteq queryIds
            /\ queriesToRemove[p] = 0 /\ recursiveQueryDeps[r] = {}
            /\ \A s \in Ids : r \in recursiveQueryDeps[s] => s = p
        BY <1>1, <1>13, <2>5, <3>2, Zenon DEF Feeders
      <4>2. r # q /\ r \notin F /\ r \in Ids
        BY <1>1, <1>7, <1>11, <4>1, Zenon DEF TypeOK
      <4>3. recursiveQueryDeps'[r] = {} /\ \A s \in Ids : r \in recursiveQueryDeps'[s] => s = p
        BY <1>13, <4>1, <4>2, Zenon
      <4>. QED  BY <1>10, <2>1, <4>1, <4>3, Zenon
    <3>. QED  BY <3>1, <3>2, Zenon
  <2>. QED  BY <2>3, <2>5, Zenon DEF Feeders
<1>. QED  BY <1>15, <1>16, <1>17, <1>18, <1>19, <1>20, Zenon DEF Ownership

(* Nothing is in flight and the queries with a removal request leave. *)
LEMMA RouteStep ==
  ASSUME Ownership, TypeOK', RouteSource
  PROVE  Ownership'
<1>1. TypeOK /\ RequestsOnce /\ Sessions /\ UnsentFresh /\ PlannedOnce /\ EddyNumbers /\ Feeders
  BY Zenon DEF Ownership
<1>2. /\ \A g \in Frontends : cur[g] \in Seq(Ids) /\ Range(cur[g]) \subseteq Ids /\ Using(g) \subseteq Ids
      /\ \A i \in DOMAIN planQ : planQ[i] \in Seq(Ids) /\ Range(planQ[i]) \subseteq Ids
      /\ NoQuery \notin Ids /\ Range(<<>>) = {}
  BY <1>1, Numbers, Zenon
<1>3. PICK R : R = Removed
  BY Zenon
<1>4. /\ queryIds' = queryIds \ R /\ numqueries' = numqueries - Cardinality(R) /\ bitmap' = bitmap \ R
      /\ queriesToRemove' = [q \in Ids |-> IF q \in R THEN queriesToRemove[q] - 1 ELSE queriesToRemove[q]]
      /\ inflight' \subseteq queryIds \ R
      /\ UNCHANGED <<planQ, controlQ, fst, cur, portals, cqcancelid, recursiveQueryDeps>>
  BY <1>3, Zenon DEF RouteSource, processQueryRemove, BackendOnly, session
<1>5. \A q \in Ids : /\ q \in R => resultQ'[q] = <<>>
                     /\ q \notin queryIds /\ resultQ[q] = <<>> => resultQ'[q] = <<>>
  BY <1>3, Zenon DEF RouteSource, Cleared, Report
<1>6. /\ R \subseteq queryIds /\ R \subseteq Ids
      /\ \A q \in R : /\ queriesToRemove[q] = 1 /\ ~ Has(controlQ, Removal(q)) /\ ~ Has(controlQ, ExplainTo(q))
                      /\ \A f \in Frontends : q \notin Using(f)
      /\ \A q \in queryIds \ R : queriesToRemove[q] = 0
  <2>1. R \subseteq queryIds /\ R \subseteq Ids /\ \A q \in queryIds : q \in R <=> queriesToRemove[q] > 0
    BY <1>1, <1>3, Zenon DEF Removed, TypeOK
  <2>2. \A q \in R : queriesToRemove[q] = 1 /\ ~ Has(controlQ, Removal(q))
    BY <1>1, <2>1, Zenon DEF RequestsOnce
  <2>3. \A q \in R : ~ Has(controlQ, ExplainTo(q))
    BY <1>1, <2>1, Zenon DEF EddyNumbers
  <2>4. \A q \in R : \A f \in Frontends : q \notin Using(f)
    BY <1>1, <2>1 DEF Sessions, NoRemoval
  <2>5. \A q \in queryIds : queriesToRemove[q] \in Nat
    BY <1>1, Zenon DEF TypeOK
  <2>. QED  BY <2>1, <2>2, <2>3, <2>4, <2>5
<1>7. /\ \A q \in R : queriesToRemove'[q] = 0
      /\ \A q \in Ids \ R : queriesToRemove'[q] = queriesToRemove[q]
  BY <1>4, <1>6
<1>8. \A q \in Ids : NoRemoval(q) => NoRemoval(q)'
  BY <1>4, <1>6, <1>7, Zenon DEF NoRemoval
<1>9. RequestsOnce'
  BY <1>1, <1>4, <1>6, <1>7 DEF RequestsOnce
<1>10. Sessions'
  <2>1. \A f \in Frontends : Using(f)' = Using(f)
    BY <1>4, Zenon DEF Using
  <2>. QED  BY <1>1, <1>2, <1>4, <1>6, <1>8, <2>1 DEF Sessions
<1>11. UnsentFresh'
  <2>1. \A f \in Frontends : Unsent(f)' <=> Unsent(f)
    BY <1>4, Zenon DEF Unsent
  <2>2. \A q : PlansFor(q)' = PlansFor(q)
    BY <1>4, Zenon DEF PlansFor
  <2>. QED  BY <1>1, <1>2, <1>4, <1>5, <2>1, <2>2, Zenon DEF UnsentFresh
<1>12. PlannedOnce'
  BY <1>1, <1>2, <1>4, <1>5, <1>6, Zenon DEF PlannedOnce
<1>13. EddyNumbers'
  <2>1. numqueries' = Cardinality(queryIds')
    <3>1. queryIds \in SUBSET Ids /\ queryIds \cap R = R
      BY <1>1, <1>6, Zenon DEF TypeOK
    <3>2. IsFiniteSet(queryIds)
      BY <3>1, IdsFinite, FS_Subset, Zenon
    <3>3. Cardinality(queryIds \ R) = Cardinality(queryIds) - Cardinality(queryIds \cap R)
      BY <3>2, FS_Difference, Zenon
    <3>. QED  BY <1>1, <1>4, <3>1, <3>3, Zenon DEF EddyNumbers
  <2>2. \A q \in Ids : q \notin bitmap' => resultQ'[q] = <<>>
    BY <1>1, <1>4, <1>5, Zenon DEF EddyNumbers
  <2>. QED  BY <1>1, <1>4, <1>6, <2>1, <2>2, Zenon DEF EddyNumbers
<1>14. Feeders'
  <2>1. \A r \in Ids : \A p : FollowsOutput(r, p) => FollowsOutput(r, p)'
    BY <1>4, <1>8, Zenon DEF FollowsOutput
  <2>2. \A i \in DOMAIN planQ : \A k \in 1 .. (Len(planQ[i]) - 1) : planQ[i][k] \in Ids
    BY <1>2
  <2>3. ASSUME NEW p \in Ids, NEW r \in recursiveQueryDeps[p]
        PROVE  r \in Ids /\ r \notin R /\ p \notin R /\ queriesToRemove'[p] = 0
    <3>1. r \in Ids
      BY <1>1, Zenon DEF TypeOK
    <3>2. queriesToRemove[r] = 0 /\ queriesToRemove[p] = 0
      BY <1>1, Zenon DEF Feeders, FollowsOutput, NoRemoval
    <3>. QED  BY <1>6, <1>7, <3>1, <3>2
  <2>. QED  BY <1>1, <1>4, <2>1, <2>2, <2>3 DEF Feeders
<1>. QED  BY <1>9, <1>10, <1>11, <1>12, <1>13, <1>14, Zenon DEF Ownership

-----------------------------------------------------------------------------
(* The actions. *)

(* A nonblocking enqueue of results keeps the result queues in bounds. *)
LEMMA ReportFacts ==
  ASSUME NEW rq \in [Ids -> Seq({"tuple", "error", "done"})], \A q \in Ids : Len(rq[q]) <= ResultCap,
         NEW S, NEW r \in {"tuple", "error", "done"}
  PROVE  /\ Report(rq, S, r) \in [Ids -> Seq({"tuple", "error", "done"})]
         /\ \A q \in Ids : Len(Report(rq, S, r)[q]) <= ResultCap
         /\ \A q \in Ids : Report(rq, S, r)[q] # <<>> => rq[q] # <<>> \/ q \in S
<1>1. ResultCap \in Nat
  BY LifecycleConstants, Zenon
<1>2. ASSUME NEW q \in Ids
      PROVE  /\ Report(rq, S, r)[q] \in Seq({"tuple", "error", "done"})
             /\ Len(Report(rq, S, r)[q]) <= ResultCap
             /\ Report(rq, S, r)[q] # <<>> => rq[q] # <<>> \/ q \in S
  <2>1. rq[q] \in Seq({"tuple", "error", "done"}) /\ Len(rq[q]) <= ResultCap
    BY Zenon
  <2>2. CASE q \in S /\ Len(rq[q]) < ResultCap
    <3>1. Report(rq, S, r)[q] = Append(rq[q], r)
      BY <2>2, Zenon DEF Report
    <3>. QED  BY <1>1, <2>1, <2>2, <3>1
  <2>3. CASE ~ (q \in S /\ Len(rq[q]) < ResultCap)
    <3>1. Report(rq, S, r)[q] = rq[q]
      BY <2>3, Zenon DEF Report
    <3>. QED  BY <2>1, <3>1, Zenon
  <2>. QED  BY <2>2, <2>3, Zenon
<1>. QED  BY <1>2, Zenon DEF Report

(* Every step of the backend, the postmaster and the clearinghouse. *)
LEMMA BackendStep ==
  ASSUME Ownership, Backend \/ SpuriousWakeup \/ SendShutdown \/ wakeup_eddy \/ WrapperError
  PROVE  Ownership'
<1>1. TypeOK /\ RequestsOnce /\ EddyNumbers /\ PlannedOnce /\ Feeders
  BY Zenon DEF Ownership
<1>2. resultQ \in [Ids -> Seq({"tuple", "error", "done"})] /\ \A q \in Ids : Len(resultQ[q]) <= ResultCap
  BY <1>1, Zenon DEF TypeOK
<1>3. \A i \in DOMAIN planQ : i \in Nat /\ i + 0 = i
  BY <1>1 DEF TypeOK
<1>4. \A q : /\ NoQuery = -1 /\ Removal(q) = [cmd |-> "QUERY_REMOVE", q |-> q]
             /\ ExplainTo(q) = [cmd |-> "EXPLAIN_EDDY", q |-> q]
  BY Zenon DEF NoQuery, Removal, ExplainTo, Message
<1>5. CASE ControlRemove
  <2>1. /\ controlQ' \in Seq(Msg) /\ Len(controlQ') <= ControlCap
        /\ Has(controlQ, Head(controlQ)) /\ Head(controlQ) \in Msg
    BY <1>1, <1>5, TakeOne, Zenon DEF ControlRemove
  <2>2. PICK q : q = Head(controlQ).q
    BY Zenon
  <2>3. q \in Ids
    <3>1. Head(controlQ) = Removal(q) /\ q \in Ids \cup {NoQuery}
      BY <1>5, <2>1, <2>2, Zenon DEF Msg, Removal, Message, ControlRemove
    <3>. QED  BY <1>1, <2>1, <3>1, Zenon DEF RequestsOnce
  <2>4. queriesToRemove' = [r \in Ids |-> queriesToRemove[r]
             + Cardinality({r} \cap {q}) + Cardinality({r} \cap recursiveQueryDeps[q])]
    BY <1>5, <2>2, Zenon DEF ControlRemove
  <2>5. ASSUME NEW r, NEW S PROVE Cardinality({r} \cap S) \in Nat
    <3>1. Cardinality({r} \cap S) = IF r \in S THEN 1 ELSE 0
      BY CardMeet, Zenon
    <3>. QED  BY <3>1
  <2>6. \A r \in Ids : queriesToRemove[r] \in Nat
    BY <1>1, Zenon DEF TypeOK
  <2>7. queriesToRemove' \in [Ids -> Nat]
    <3>1. \A r \in Ids : queriesToRemove[r] + Cardinality({r} \cap {q})
                           + Cardinality({r} \cap recursiveQueryDeps[q]) \in Nat
      BY <2>5, <2>6
    <3>. QED  BY <2>4, <3>1, Zenon
  <2>8. TypeOK'
    BY <1>1, <1>5, <2>1, <2>2, <2>3, <2>7, Zenon DEF TypeOK, ControlRemove, BackendOnly, session, Msg
  <2>. QED  BY <1>5, <2>8, RemoveStep, Zenon
<1>6. CASE ControlShutdown \/ ControlReport
  <2>1. controlQ # <<>> /\ controlQ' = Tail(controlQ)
    BY <1>6, Zenon DEF ControlShutdown, ControlReport
  <2>2. /\ controlQ' \in Seq(Msg) /\ Len(controlQ') <= ControlCap
        /\ Has(controlQ, Head(controlQ)) /\ Head(controlQ) \in Msg
        /\ \A m : Has(controlQ', m) => Has(controlQ, m)
        /\ \A m : Twice(controlQ', m) => Twice(controlQ, m)
    BY <1>1, <2>1, TakeOne, Zenon
  <2>3. UNCHANGED <<bitmap, planQ, refused, fst, cur, declare, portals, cqcancelid, bepc, queryIds, numqueries,
                    queriesToRemove, recursiveQueryDeps, feedback, inflight, pm>>
    BY <1>6, Zenon DEF ControlShutdown, ControlReport, BackendOnly, session, backend, eddy
  <2>4. /\ resultQ' \in [Ids -> Seq({"tuple", "error", "done"})] /\ shutdownPending' \in BOOLEAN
        /\ \A q \in Ids : Len(resultQ'[q]) <= ResultCap
        /\ \A q \in Ids : resultQ'[q] # <<>> => resultQ[q] # <<>> \/ q \in queryIds \/ Has(controlQ, ExplainTo(q))
    <3>1. CASE ControlShutdown
      BY <1>2, <3>1, Zenon DEF ControlShutdown
    <3>2. CASE ControlReport
      <4>1. PICK S : /\ resultQ' = Report(resultQ, S, "error")
                     /\ S \in SUBSET queryIds \/ (Head(controlQ).cmd = "EXPLAIN_EDDY" /\ S = {Head(controlQ).q})
        BY <3>2, Zenon DEF ControlReport
      <4>2. \A q \in S : q \in queryIds \/ Has(controlQ, ExplainTo(q))
        <5>1. CASE S \in SUBSET queryIds
          BY <5>1, Zenon
        <5>2. CASE Head(controlQ).cmd = "EXPLAIN_EDDY" /\ S = {Head(controlQ).q}
          <6>1. Head(controlQ) = ExplainTo(Head(controlQ).q)
            BY <1>4, <2>2, <5>2, Zenon DEF Msg
          <6>. QED  BY <2>2, <5>2, <6>1, Zenon
        <5>. QED  BY <4>1, <5>1, <5>2, Zenon
      <4>3. shutdownPending' = shutdownPending /\ shutdownPending \in BOOLEAN
        BY <1>1, <3>2, Zenon DEF ControlReport, backend, TypeOK
      <4>. QED  BY <1>2, <4>1, <4>2, <4>3, ReportFacts, Zenon
    <3>. QED  BY <1>6, <3>1, <3>2, Zenon
  <2>5. TypeOK'
    BY <1>1, <2>2, <2>3, <2>4, Zenon DEF TypeOK, Msg
  <2>. QED  BY <1>3, <2>2, <2>3, <2>4, <2>5, QuietStep, Zenon
<1>7. CASE ControlDrained \/ RouteTuple
  <2>1. UNCHANGED <<bitmap, planQ, controlQ, refused, fst, cur, declare, portals, cqcancelid, queryIds, numqueries,
                    queriesToRemove, recursiveQueryDeps, feedback, shutdownPending, pm>>
    BY <1>7, Zenon DEF ControlDrained, RouteTuple, BackendOnly, session, eddy
  <2>2. bepc' \in {"control", "plan", "route", "gone"} /\ inflight' \subseteq inflight
    BY <1>7, Zenon DEF ControlDrained, RouteTuple
  <2>3. resultQ' = resultQ \/ \E S \in SUBSET queryIds, r \in {"tuple", "done"} : resultQ' = Report(resultQ, S, r)
    BY <1>7, Zenon DEF ControlDrained, RouteTuple
  <2>4. /\ resultQ' \in [Ids -> Seq({"tuple", "error", "done"})]
        /\ \A q \in Ids : Len(resultQ'[q]) <= ResultCap
        /\ \A q \in Ids : resultQ'[q] # <<>> => resultQ[q] # <<>> \/ q \in queryIds
    <3>1. CASE resultQ' = resultQ
      BY <1>2, <3>1, Zenon
    <3>2. CASE resultQ' # resultQ
      <4>1. PICK S \in SUBSET queryIds, r \in {"tuple", "done"} : resultQ' = Report(resultQ, S, r)
        BY <2>3, <3>2, Zenon
      <4>2. r \in {"tuple", "error", "done"}
        BY <4>1, Zenon
      <4>. QED  BY <1>2, <4>1, <4>2, ReportFacts, Zenon
    <3>. QED  BY <3>1, <3>2, Zenon
  <2>5. TypeOK'
    BY <1>1, <2>1, <2>2, <2>4, Zenon DEF TypeOK
  <2>. QED  BY <1>3, <2>1, <2>2, <2>4, <2>5, QuietStep, Zenon
<1>8. CASE NoPlan \/ SpuriousWakeup
  <2>1. UNCHANGED <<bitmap, planQ, controlQ, refused, resultQ, fst, cur, declare, portals, cqcancelid, queryIds,
                    numqueries, queriesToRemove, recursiveQueryDeps, feedback, inflight, shutdownPending, pm>>
    BY <1>8, Zenon DEF NoPlan, SpuriousWakeup, BackendOnly, session, eddy, queues
  <2>2. bepc' = "route"
    BY <1>8, Zenon DEF NoPlan, SpuriousWakeup
  <2>3. TypeOK'
    BY <1>1, <2>1, <2>2, Zenon DEF TypeOK
  <2>. QED  BY <1>3, <2>1, <2>3, QuietStep, Zenon
<1>9. CASE Wakeup
  <2>1. UNCHANGED <<bitmap, controlQ, refused, resultQ, fst, cur, declare, portals, cqcancelid, queryIds,
                    numqueries, queriesToRemove, recursiveQueryDeps, feedback, inflight, shutdownPending, pm>>
    BY <1>9, Zenon DEF Wakeup, BackendOnly, session, eddy
  <2>2. planQ # <<>> /\ planQ' = Tail(planQ) /\ bepc' = "route"
    BY <1>9, Zenon DEF Wakeup
  <2>3. /\ planQ' \in Seq(Seq(Ids)) /\ Len(planQ') <= PlanCap
        /\ \A i \in DOMAIN planQ' : i + 1 \in DOMAIN planQ /\ planQ'[i] = planQ[i + 1]
    <3>1. planQ \in Seq(Seq(Ids)) /\ Len(planQ) <= PlanCap /\ PlanCap \in Nat
      BY <1>1, LifecycleConstants, Zenon DEF TypeOK
    <3>. QED  BY <2>2, <3>1
  <2>4. TypeOK'
    BY <1>1, <2>1, <2>2, <2>3, Zenon DEF TypeOK
  <2>. QED  BY <2>1, <2>3, <2>4, QuietStep, Zenon
<1>10. CASE wakeup_eddy
  <2>1. UNCHANGED <<bitmap, controlQ, refused, resultQ, fst, cur, declare, portals, cqcancelid, bepc, queryIds,
                    numqueries, queriesToRemove, recursiveQueryDeps, feedback, inflight, shutdownPending>>
    BY <1>10, Zenon DEF wakeup_eddy, session, backend, eddy
  <2>2. /\ planQ' \in Seq(Seq(Ids)) /\ Len(planQ') <= PlanCap /\ pm' = "done"
        /\ \A i \in DOMAIN planQ' : planQ'[i] = <<>> \/ (i + 0 \in DOMAIN planQ /\ planQ'[i] = planQ[i + 0])
    <3>1. planQ \in Seq(Seq(Ids)) /\ Len(planQ) <= PlanCap /\ PlanCap \in Nat /\ <<>> \in Seq(Ids)
      BY <1>1, LifecycleConstants DEF TypeOK
    <3>2. pm' = "done" /\ planQ' = IF Len(planQ) < PlanCap THEN Append(planQ, <<>>) ELSE planQ
      BY <1>10, Zenon DEF wakeup_eddy
    <3>3. CASE Len(planQ) < PlanCap
      <4>1. PICK e : e = <<>> /\ e \in Seq(Ids)
        BY <3>1, Zenon
      <4>2. planQ' = Append(planQ, e)
        BY <3>2, <3>3, <4>1, Zenon
      <4>3. /\ planQ' \in Seq(Seq(Ids)) /\ Len(planQ') <= PlanCap
            /\ \A i \in DOMAIN planQ' : planQ'[i] = e \/ (i \in DOMAIN planQ /\ planQ'[i] = planQ[i])
        <5>. HIDE <4>1
        <5>1. e \in Seq(Ids)
          BY <4>1, Zenon
        <5>. QED  BY <3>1, <3>3, <4>2, <5>1
      <4>. QED  BY <1>3, <3>2, <4>1, <4>3, Zenon
    <3>4. CASE ~ (Len(planQ) < PlanCap)
      BY <1>3, <3>1, <3>2, <3>4, Zenon
    <3>. QED  BY <3>3, <3>4, Zenon
  <2>3. TypeOK'
    BY <1>1, <2>1, <2>2, Zenon DEF TypeOK
  <2>. QED  BY <2>1, <2>2, <2>3, QuietStep, Zenon
<1>11. CASE SendShutdown \/ WrapperError
  <2>1. UNCHANGED <<bitmap, planQ, resultQ, fst, cur, declare, portals, cqcancelid, bepc, queryIds,
                    numqueries, queriesToRemove, recursiveQueryDeps, feedback, inflight, shutdownPending>>
    BY <1>11, Zenon DEF SendShutdown, WrapperError, session, backend, eddy
  <2>2. pm' \in {"up", "sent", "done"}
    BY <1>1, <1>11, Zenon DEF SendShutdown, WrapperError, TypeOK
  <2>3. PICK m \in Msg : SendControl(<<m>>) /\ m.cmd \in {"SHUTDOWN", "WCH_ERROR"}
    <3>1. \A c \in Commands : Message(c, NoQuery) \in Msg /\ Message(c, NoQuery).cmd = c
      BY Zenon DEF Message, Msg
    <3>. QED  BY <1>11, <3>1, Zenon DEF SendShutdown, WrapperError, Commands
  <2>4. /\ controlQ' \in Seq(Msg) /\ Len(controlQ') <= ControlCap /\ refused' \subseteq Commands
        /\ \A x : Has(controlQ', x) => Has(controlQ, x) \/ x = m
        /\ \A x : Twice(controlQ', x) => Twice(controlQ, x) \/ x = m
    BY <1>1, <2>3, SendOne, Zenon
  <2>5. \A q : m # Removal(q) /\ m # ExplainTo(q)
    BY <1>4, <2>3
  <2>6. TypeOK'
    BY <1>1, <2>1, <2>2, <2>4, Zenon DEF TypeOK, Msg
  <2>. QED  BY <1>3, <2>1, <2>4, <2>5, <2>6, QuietStep, Zenon
<1>12. CASE CancelledPlan
  <2>1. PICK q : q = Last(Head(planQ))
    BY Zenon
  <2>2. q \in Ids /\ planQ' \in Seq(Seq(Ids)) /\ Len(planQ') <= PlanCap
    <3>1. planQ \in Seq(Seq(Ids)) /\ planQ # <<>> /\ Head(planQ) # <<>> /\ Len(planQ) <= PlanCap /\ PlanCap \in Nat
      BY <1>1, <1>12, LifecycleConstants, Zenon DEF TypeOK, CancelledPlan
    <3>2. Head(planQ) \in Seq(Ids)
      BY <3>1
    <3>3. planQ' = Tail(planQ)
      BY <1>12, Zenon DEF CancelledPlan
    <3>. QED  BY <2>1, <3>1, <3>2, <3>3, LastOf
  <2>3. queriesToRemove[q] > 0 /\ queriesToRemove' = [queriesToRemove EXCEPT ![q] = @ - 1] /\ bitmap' = bitmap \ {q}
    BY <1>12, <2>1, Zenon DEF CancelledPlan
  <2>4. TypeOK'
    <3>1. queriesToRemove' \in [Ids -> Nat]
      BY <1>1, <2>2, <2>3 DEF TypeOK
    <3>2. bepc' = "route" /\ UNCHANGED <<controlQ, resultQ, refused, queryIds, numqueries,
            recursiveQueryDeps, feedback, inflight, shutdownPending, fst, cur, declare, portals, cqcancelid, pm>>
      BY <1>12, Zenon DEF CancelledPlan, BackendOnly, session
    <3>. QED  BY <1>1, <2>2, <2>3, <3>1, <3>2, Zenon DEF TypeOK
  <2>. QED  BY <1>12, <2>4, CancelledStep, Zenon
<1>13. CASE IntegratePlan
  <2>1. PICK b, q, F : b = Head(planQ) /\ q = Last(b) /\ F = Range(Front(b))
    BY Zenon
  <2>2. b \in Seq(Ids) /\ b # <<>> /\ planQ' \in Seq(Seq(Ids)) /\ Len(planQ') <= PlanCap
    <3>1. planQ \in Seq(Seq(Ids)) /\ planQ # <<>> /\ Head(planQ) # <<>> /\ Len(planQ) <= PlanCap /\ PlanCap \in Nat
      BY <1>1, <1>13, LifecycleConstants, Zenon DEF TypeOK, IntegratePlan
    <3>2. planQ' = Tail(planQ)
      BY <1>13, Zenon DEF IntegratePlan
    <3>. QED  BY <2>1, <3>1, <3>2
  <2>3. Distinct(b)
    <3>1. 1 \in DOMAIN planQ /\ Head(planQ) = planQ[1]
      BY <1>1, <1>13 DEF TypeOK, IntegratePlan
    <3>. QED  BY <1>1, <2>1, <3>1, Zenon DEF PlannedOnce
  <2>4. q \in Ids /\ F \subseteq Ids /\ Range(b) \subseteq Ids
    <3>1. \A k \in DOMAIN b : b[k] \in Ids
      BY <2>2
    <3>2. Range(b) \subseteq Ids
      BY <3>1, Zenon DEF Range
    <3>. QED  BY <2>1, <2>2, <2>3, <3>2, BatchFacts
  <2>5. PICK n \in Nat : n = Len(b)
    BY <2>2
  <2>6. /\ queryIds' = queryIds \cup Range(b) /\ numqueries' = numqueries + n /\ feedback' = feedback \cup F
        /\ recursiveQueryDeps' = IF n > 1 THEN [recursiveQueryDeps EXCEPT ![q] = F] ELSE recursiveQueryDeps
        /\ bepc' = "route"
        /\ UNCHANGED <<bitmap, controlQ, resultQ, refused, queriesToRemove, inflight, shutdownPending,
                       fst, cur, declare, portals, cqcancelid, pm>>
    BY <1>13, <2>1, <2>5, Zenon DEF IntegratePlan, BackendOnly, session
  <2>7. TypeOK'
    <3>1. recursiveQueryDeps' \in [Ids -> SUBSET Ids]
      BY <1>1, <2>4, <2>6, Zenon DEF TypeOK
    <3>2. numqueries' \in Nat
      BY <1>1, <2>5, <2>6 DEF TypeOK
    <3>3. planQ' \in Seq(Seq(Ids)) /\ Len(planQ') <= PlanCap
      BY <2>2, Zenon
    <3>. QED  BY <1>1, <2>4, <2>6, <3>1, <3>2, <3>3, Zenon DEF TypeOK
  <2>. QED  BY <1>13, <2>7, IntegrateStep, Zenon
<1>14. CASE RouteSource
  <2>1. PICK R : R = Removed
    BY Zenon
  <2>2. /\ R \subseteq queryIds /\ R \subseteq Ids /\ IsFiniteSet(queryIds) /\ R \in SUBSET queryIds
        /\ \A q \in R : queriesToRemove[q] > 0
    BY <1>1, <2>1, IdsFinite, FS_Subset, Zenon DEF Removed, TypeOK
  <2>3. numqueries - Cardinality(R) \in Nat
    <3>1. numqueries = Cardinality(queryIds) /\ numqueries \in Nat
      BY <1>1, Zenon DEF EddyNumbers, TypeOK
    <3>2. Cardinality(R) \in Nat /\ Cardinality(R) <= Cardinality(queryIds)
      BY <2>2, FS_Subset, FS_CardinalityType, Zenon
    <3>. QED  BY <3>1, <3>2
  <2>4. queriesToRemove' \in [Ids -> Nat]
    BY <1>1, <1>14, <2>1, <2>2 DEF RouteSource, processQueryRemove, TypeOK
  <2>5. Cleared \in [Ids -> Seq({"tuple", "error", "done"})] /\ \A q \in Ids : Len(Cleared[q]) <= ResultCap
    <3>1. ResultCap \in Nat /\ <<>> \in Seq({"tuple", "error", "done"}) /\ Len(<<>>) = 0
      BY LifecycleConstants
    <3>. QED  BY <1>2, <3>1 DEF Cleared
  <2>6. resultQ' = Cleared \/ \E S : resultQ' = Report(Cleared, S, "done")
    BY <1>14, Zenon DEF RouteSource
  <2>7. resultQ' \in [Ids -> Seq({"tuple", "error", "done"})] /\ \A q \in Ids : Len(resultQ'[q]) <= ResultCap
    BY <2>5, <2>6, ReportFacts, Zenon
  <2>8. /\ queryIds' = queryIds \ R /\ numqueries' = numqueries - Cardinality(R) /\ bitmap' = bitmap \ R
        /\ feedback' = feedback \ R /\ bepc' = "control" /\ inflight' \subseteq queryIds
        /\ UNCHANGED <<planQ, controlQ, refused, shutdownPending, recursiveQueryDeps,
                       fst, cur, declare, portals, cqcancelid, pm>>
    BY <1>14, <2>1, Zenon DEF RouteSource, processQueryRemove, BackendOnly, session
  <2>9. TypeOK'
    BY <1>1, <2>3, <2>4, <2>7, <2>8, Zenon DEF TypeOK
  <2>. QED  BY <1>14, <2>9, RouteStep, Zenon
<1>. QED
  BY <1>5, <1>6, <1>7, <1>8, <1>9, <1>10, <1>11, <1>12, <1>13, <1>14, Zenon DEF Backend

-----------------------------------------------------------------------------
(* The theorems. *)

(* Ownership holds at the start. *)
LEMMA InitOwns ==
  ASSUME Init
  PROVE  Ownership
<1>1. /\ {NumQueues, PlanCap, ControlCap, ResultCap} \subseteq Nat
      /\ Len(<<>>) = 0 /\ DOMAIN <<>> = {} /\ Range(<<>>) = {}
  BY LifecycleConstants DEF Range
<1>2. /\ <<>> \in Seq(Seq(Ids)) /\ <<>> \in Seq(Ids) /\ <<>> \in Seq({"tuple", "error", "done"})
      /\ <<>> \in Seq([cmd : Commands, q : Ids \cup {NoQuery}])
  OBVIOUS
<1>3. TypeOK
  <2>1. \A n \in Nat : 0 <= n
    OBVIOUS
  <2>2. Len(<<>>) <= PlanCap /\ Len(<<>>) <= ControlCap /\ Len(<<>>) <= ResultCap
    BY <1>1, <2>1, Zenon
  <2>3. declare \in [Frontends -> BOOLEAN] /\ shutdownPending \in BOOLEAN
    BY Zenon DEF Init
  <2>. QED  BY <1>2, <2>2, <2>3, Zenon DEF Init, TypeOK
<1>4. RequestsOnce
  BY <1>1 DEF Init, RequestsOnce, Has
<1>5. Sessions
  BY <1>1, Zenon DEF Init, Sessions, Using
<1>6. UnsentFresh /\ PlannedOnce
  BY <1>1, Zenon DEF Init, UnsentFresh, Unsent, PlannedOnce
<1>7. EddyNumbers
  BY <1>1, FS_EmptySet, Zenon DEF Init, EddyNumbers, Has
<1>8. Feeders
  BY <1>1, Zenon DEF Init, Feeders
<1>. QED  BY <1>3, <1>4, <1>5, <1>6, <1>7, <1>8, Zenon DEF Ownership

(* Ownership is inductive: every step of a frontend, the backend, the
   postmaster and the clearinghouse keeps it. *)
THEOREM OwnershipHolds == Spec => []Ownership
<1>1. Ownership /\ [Next]_vars => Ownership'
  <2>1. SUFFICES ASSUME Ownership, [Next]_vars PROVE Ownership'
    BY Zenon
  <2>2. CASE UNCHANGED vars
    <3>1. UNCHANGED <<bitmap, planQ, controlQ, resultQ, refused, fst, cur, declare, portals, cqcancelid, bepc,
                      queryIds, numqueries, queriesToRemove, recursiveQueryDeps, feedback, inflight,
                      shutdownPending, pm>>
      BY <2>2, Zenon DEF vars, queues, session, backend, eddy
    <3>2. TypeOK'
      BY <2>1, <3>1, Zenon DEF Ownership, TypeOK
    <3>3. \A i \in DOMAIN planQ : i + 0 = i
      BY <2>1 DEF Ownership, TypeOK
    <3>. QED  BY <2>1, <3>1, <3>2, <3>3, QuietStep, Zenon
  <2>. QED  BY <2>1, <2>2, FrontendStep, BackendStep, Zenon DEF Next
<1>. QED  BY <1>1, InitOwns, PTL DEF Spec

(* At most one element. *)
LEMMA AtMostOne ==
  ASSUME NEW T, \A i, j \in T : i = j
  PROVE  Cardinality(T) = IF T = {} THEN 0 ELSE 1
<1>1. CASE T = {}
  BY <1>1, FS_EmptySet, Zenon
<1>2. CASE T # {}
  <2>1. PICK i \in T : TRUE
    BY <1>2, Zenon
  <2>2. T = {i}
    BY <2>1, Zenon
  <2>. QED  BY <1>2, <2>2, FS_Singleton, Zenon
<1>. QED  BY <1>1, <1>2, Zenon

(* A removal request (cancelQuery, AbortCurrentTransaction) never reaches a
   later query with the same number, however many frontends, numbers and
   recursive batches there are and wherever a statement is cancelled. *)
THEOREM RemovalIsOfEndedQuery == Spec => []RemovalOnlyOfEndedQuery
<1>1. Ownership => RemovalOnlyOfEndedQuery
  <2>1. SUFFICES ASSUME Ownership, NEW q \in Ids, PendingRemovals(q) > 0
                 PROVE  /\ PendingRemovals(q) = 1 /\ q \in bitmap
                        /\ \A f \in Frontends : q \notin Using(f)
    BY Zenon DEF RemovalOnlyOfEndedQuery, Ownership
  <2>2. TypeOK /\ RequestsOnce /\ Sessions
    BY <2>1, Zenon DEF Ownership
  <2>3. PICK T : T = {i \in DOMAIN controlQ : controlQ[i] = Message("QUERY_REMOVE", q)}
    BY Zenon
  <2>4. T # {} <=> Has(controlQ, Removal(q))
    BY <2>3, Zenon DEF Has, Removal
  <2>5. queriesToRemove[q] \in Nat /\ (queriesToRemove[q] > 0 => queriesToRemove[q] = 1 /\ q \in bitmap /\ T = {})
    BY <2>2, <2>4, Zenon DEF TypeOK, RequestsOnce
  <2>6. Cardinality(T) = IF T = {} THEN 0 ELSE 1
    <3>1. \A i, j \in T : i = j
      BY <2>2, <2>3, <2>4, Zenon DEF RequestsOnce, Twice, Removal
    <3>. QED  BY <3>1, AtMostOne, Zenon
  <2>7. PendingRemovals(q) = queriesToRemove[q] + Cardinality(T)
    BY <2>3, Zenon DEF PendingRemovals
  <2>8. PendingRemovals(q) = 1 /\ (queriesToRemove[q] > 0 \/ T # {})
    BY <2>1, <2>5, <2>6, <2>7
  <2>9. q \in bitmap
    BY <2>2, <2>4, <2>5, <2>8, Zenon DEF RequestsOnce
  <2>10. \A f \in Frontends : q \notin Using(f)
    BY <2>2, <2>4, <2>8 DEF Sessions, NoRemoval
  <2>. QED  BY <2>8, <2>9, <2>10, Zenon
<1>. QED  BY <1>1, OwnershipHolds, PTL

(* AllocQueue never hands out a number of which the eddy, the plan queue or the
   result queue still has something. *)
THEOREM FreeNumbersAreFresh == Spec => []FreeNumberIsFresh
<1>1. Ownership => FreeNumberIsFresh
  BY FreeIsUnknown, Zenon DEF FreeNumberIsFresh, FreeNumbers, PlansFor
<1>. QED  BY <1>1, OwnershipHolds, PTL

(* Tuples in the eddy carry bits of live queries only; numqueries counts
   queryIds; and a number is in the eddy or on the plan queue at most once. *)
THEOREM LineageStaysLive == Spec => []LineageIsLive
<1>1. Ownership => LineageIsLive
  <2>1. SUFFICES ASSUME Ownership, NEW q \in Ids
                 PROVE  Cardinality(PlansFor(q)) + Cardinality({q} \cap queryIds) <= 1
    BY Zenon DEF LineageIsLive, Ownership, EddyNumbers
  <2>2. PlannedOnce
    BY <2>1, Zenon DEF Ownership
  <2>3. Cardinality(PlansFor(q)) = IF PlansFor(q) = {} THEN 0 ELSE 1
    <3>1. \A i, j \in PlansFor(q) : i = j
      BY <2>2, Zenon DEF PlansFor, PlannedOnce
    <3>. QED  BY <3>1, AtMostOne, Zenon
  <2>4. PlansFor(q) # {} => q \notin queryIds
    BY <2>2, Zenon DEF PlansFor, PlannedOnce
  <2>5. Cardinality({q} \cap queryIds) = IF q \in queryIds THEN 1 ELSE 0
    BY CardMeet, Zenon
  <2>. QED  BY <2>3, <2>4, <2>5
<1>. QED  BY <1>1, OwnershipHolds, PTL

=============================================================================
