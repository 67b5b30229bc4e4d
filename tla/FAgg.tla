-------------------------------- MODULE FAgg --------------------------------
(***************************************************************************)
(* The windowed aggregate operator (executor/nodeFAgg.c) inside the        *)
(* continuous-query eddy's output step (processOutputQ, deliverTupleToFAgg *)
(* and getFAggResult of executor/nodeCQEddy.c), for RANGE BY/SLIDE BY      *)
(* windows over one or more joined streams and for SLICES over one stream. *)
(*                                                                         *)
(* The join processor is the environment, under the assumptions the code   *)
(* lists (nodeFAgg.c:144-160): each stream is consumed in timestamp order, *)
(* in no order across streams, and a consumed tuple's join results come    *)
(* out before the next tuple is consumed.                                  *)
(*                                                                         *)
(* A failed Assert ends the backend (the tree is configured with           *)
(* --enable-cassert): "failed" records it and nothing happens after.       *)
(***************************************************************************)
EXTENDS Window, Sequences, FiniteSets, FiniteSetsExt

CONSTANTS Streams,
          RangeExprs,    \* the RANGE BY/SLIDE BY expressions a query may have
          SliceExprs,    \* the SLICES expressions a query may have
          AggPlans,      \* the aggregate plans: [grouped, having, ts_attrnum]
          Horizon,       \* bound: no timestamp past it
          MaxConsumed,   \* bound: base tuples consumed of a stream
          MaxGroups      \* bound: groups of one slide's answer

ASSUME FAggConstants ==
  /\ \A e \in RangeExprs : /\ DOMAIN e # {} /\ DOMAIN e \subseteq Streams
                           /\ \A i \in DOMAIN e : e[i].rangeBy > 0 /\ e[i].slideBy > 0
  /\ \A e \in SliceExprs : e.stream \in Streams /\ e.slices # <<>>

VARIABLES expr,       \* the query's window expression
          plan,       \* its aggregate plan
          consumed,   \* [Streams -> Seq(base tuple)]: the join processor's input
          joined,     \* join results the eddy has not yet put out
          accepted,   \* join results delivered to the FAgg so far
          node,       \* the FAgg node, see NodeInit
          inLoop,     \* the eddy is in a loop over getFAggResult
          received,   \* what the loop passed to the result queue's receiver
          answers,    \* [wtime, tuples] read by the aggregate plan at each slide
          failed      \* names of failed Asserts

vars == <<expr, plan, consumed, joined, accepted, node, inLoop, received, answers, failed>>

NoExpr == [none |-> TRUE]

IsSliced(e) == "slices" \in DOMAIN e

StreamsOf(e) == IF IsSliced(e) THEN {e.stream} ELSE DOMAIN e

NOBEGIN == -1

-----------------------------------------------------------------------------
(* The FAgg node.  Activation and deactivation groups are sets of [time,   *)
(* tup]: the code keeps the groups sorted by time, so its first group is   *)
(* the set of elements of least time.  live_tuples is a set: no property   *)
(* depends on the order.                                                   *)

NodeInit ==
  [state |-> "NO_WINDOW_EXPR", lastTSSeen |-> [i \in Streams |-> NOBEGIN],
   current_time |-> NOBEGIN, last_slide_time |-> NOBEGIN, next_slide_time |-> NOBEGIN,
   wtime |-> NOBEGIN, activation |-> {}, deactivation |-> {}, live |-> {},
   cur_slice |-> 1, pending |-> <<>>, rows |-> 0, output_tdesc |-> FALSE, out |-> <<>>]

FirstGroup(groups) == {g \in groups : \A h \in groups : g.time <= h.time}

\* the range-slide half of FAggAddWindowExprs
AddRangeExpr(n, e) ==
  LET first == Min({windowStateGetFirstChange(e[i]) : i \in DOMAIN e})
  IN  [n EXCEPT !.next_slide_time = first, !.wtime = first,
                !.last_slide_time = Min({e[i].startAt : i \in DOMAIN e}),
                !.state = "READING"]

\* the SLICES half, with createSlicedWindowState
AddSliceExpr(n, e) ==
  [n EXCEPT !.next_slide_time = e.startAt + e.slices[1], !.state = "BEFORE_START"]

\* SlicedWindowAdvance: the next slice, round the list
SlicedWindowAdvance(n) ==
  LET next == IF n.cur_slice = Len(expr.slices) THEN 1 ELSE n.cur_slice + 1
  IN  [n EXCEPT !.cur_slice = next, !.next_slide_time = @ + expr.slices[next]]

add_new_tuple_range_slide(n, t) ==
  LET life  == [i \in DOMAIN expr |-> windowStateGetLifetime(expr[i], t[i].ts)]
      birth == Max({life[i].birth : i \in DOMAIN expr})
      death == Min({life[i].death : i \in DOMAIN expr})
      filed == /\ \A i \in DOMAIN expr : life[i].ever
               /\ birth < death
               /\ death > n.last_slide_time
      seen  == [i \in Streams |-> IF i \in DOMAIN expr
                                  THEN Max({n.lastTSSeen[i], t[i].ts}) ELSE NOBEGIN]
      group(time) == IF filed THEN {[time |-> time, tup |-> t]} ELSE {}
  IN  [n EXCEPT !.activation = @ \cup group(birth),
                !.deactivation = @ \cup group(death),
                !.lastTSSeen = seen,
                !.current_time = Max({@, Min({seen[i] : i \in DOMAIN expr})})]

\* the pending list is served first: a new tuple goes to its end
add_new_tuple_slices(n, new) ==
  LET queue == n.pending \o new
      t     == Head(queue)
      ts    == t[expr.stream].ts
  IN  IF n.state = "BEFORE_START" /\ ts < expr.startAt
      THEN [n EXCEPT !.pending = Tail(queue)]
      ELSE IF ts >= n.next_slide_time
      THEN [SlicedWindowAdvance(n) EXCEPT !.wtime = n.next_slide_time,
                                          !.state = "RUNNING_AGG",
                                          !.pending = queue]
      ELSE [n EXCEPT !.live = @ \cup {t}, !.pending = Tail(queue),
                     !.state = IF @ = "BEFORE_START" THEN "READING" ELSE @]

KeepsDeadTuples(n) ==
  LET due(groups) == {g \in FirstGroup(groups) : g.time = n.next_slide_time}
      tups(groups) == {g.tup : g \in due(groups)}
  IN  [n EXCEPT !.live = @ \cup tups(n.activation),
                !.activation = @ \ due(@),
                !.deactivation = @ \ due(@),
                !.last_slide_time = n.next_slide_time,
                !.next_slide_time = Min({windowStateGetNextSlide(expr[i], @) : i \in DOMAIN expr})]

advance_window(n) ==
  LET due(groups) == {g \in FirstGroup(groups) : g.time = n.next_slide_time}
      tups(groups) == {g.tup : g \in due(groups)}
  IN  [n EXCEPT !.live = (@ \ tups(n.deactivation)) \cup tups(n.activation),
                !.activation = @ \ due(@),
                !.deactivation = @ \ due(@),
                !.last_slide_time = n.next_slide_time,
                !.next_slide_time = Min({windowStateGetNextSlide(expr[i], @) : i \in DOMAIN expr})]

SlidesLate(n) == n.state = "READING" /\ n.current_time > n.next_slide_time

TimeToSlide(n) == n.state = "READING" /\ n.current_time >= n.next_slide_time

\* step 1-5 of ProcessNextFAgg up to the aggregate plan: take in the new tuple
\* (new is <<t>> or <<>>), and slide if it is time to

TakeIn(n, new) ==
  IF ~ IsSliced(expr)
  THEN IF new = <<>> THEN n ELSE add_new_tuple_range_slide(n, new[1])
  ELSE IF new # <<>> \/ (n.state \in {"BEFORE_START", "READING"} /\ n.pending # <<>>)
  THEN add_new_tuple_slices(n, new)
  ELSE n

SlideIfDue(n) ==
  IF ~ IsSliced(expr) /\ TimeToSlide(n)
  THEN [advance_window(n) EXCEPT !.wtime = n.next_slide_time, !.state = "RUNNING_AGG"]
  ELSE n

\* The rows the aggregate plan makes of the tuples it reads (external: Agg over
\* Sort and Group).  It reads all of them before it returns the first row; a
\* plan without GROUP BY has one row even for no tuples, HAVING drops rows.
AggRows(live) ==
  LET most == IF plan.grouped THEN Min({Cardinality(live), MaxGroups}) ELSE 1
  IN  (IF plan.having THEN 0 ELSE Min({1, most})) .. most

PunctuatesOneSlideFurther(n) ==
  IF n.rows > 0
  THEN [n EXCEPT !.rows = @ - 1, !.output_tdesc = TRUE,
                 !.out = Append(@, [row |-> TRUE, time |-> n.wtime])]
  ELSE IF ~ n.output_tdesc THEN [n EXCEPT !.state = "READING"]
  ELSE [n EXCEPT !.state = "PUNCTUATING",
                 !.out = Append(@, [row |-> FALSE, time |-> n.next_slide_time + 1])]

\* FAggScheduleAggPlan: one row of the plan, or the punctuation after the last
FAggScheduleAggPlan(n) ==
  IF n.rows > 0
  THEN [n EXCEPT !.rows = @ - 1, !.output_tdesc = TRUE,
                 !.out = Append(@, [row |-> TRUE, time |-> n.wtime])]
  ELSE IF ~ n.output_tdesc THEN [n EXCEPT !.state = "READING"]
  ELSE [n EXCEPT !.state = "PUNCTUATING",
                 !.out = Append(@, [row |-> FALSE,
                   time |-> IF plan.ts_attrnum > 0 THEN n.next_slide_time ELSE NOBEGIN])]

\* the rest of ProcessNextFAgg: the switch on the state
Finish(n, rows) ==
  CASE n.state = "RUNNING_AGG" ->
         FAggScheduleAggPlan([n EXCEPT !.state = "FINISHING_AGG", !.rows = rows])
    [] n.state = "FINISHING_AGG" -> FAggScheduleAggPlan(n)
    [] n.state = "PUNCTUATING" ->
         [n EXCEPT !.state = "READING", !.live = IF IsSliced(expr) THEN {} ELSE @]
    [] OTHER -> n

\* the Asserts of a call that do not hold, where n takes in the new tuple and
\* becomes n1: in add_new_tuple_slices, in advance_window and in
\* windowStateGetNextSlide
FailedAsserts(n, new, n1) ==
  {a \in {"pending", "groups", "window_num", "advance"} :
     IF a = "pending"
     THEN /\ IsSliced(expr)
          /\ new # <<>> /\ n.state = "BEFORE_START" /\ n.pending = <<>>
          /\ new[1][expr.stream].ts < expr.startAt
     ELSE /\ ~ IsSliced(expr) /\ TimeToSlide(n1)
          /\ CASE a = "groups" -> \E g \in n1.activation \cup n1.deactivation :
                                    g.time < n1.next_slide_time
               [] a = "window_num" -> \E i \in DOMAIN expr :
                                    ~ NextSlideAsserts(expr[i], n1.next_slide_time)
               [] a = "advance" -> advance_window(n1).next_slide_time <= n1.next_slide_time}

\* getFAggResult takes the node's result; the loop ends when there is none.
TakeResult(n) ==
  IF n.out # <<>>
  THEN /\ received' = Append(received, Head(n.out))
       /\ node' = [n EXCEPT !.out = Tail(@)]
       /\ UNCHANGED inLoop
  ELSE node' = n /\ inLoop' = FALSE /\ UNCHANGED received

\* One call of ProcessNextFAgg.  With a tuple it is made by deliverTupleToFAgg,
\* which leaves the result for the loop it enters; otherwise by getFAggResult.
\* A failed Assert ends it before it has an effect.
ProcessNextFAgg(new) ==
  \E n1 \in {TakeIn(node, new)} :
    /\ failed' = FailedAsserts(node, new, n1)
    /\ IF failed' # {} THEN UNCHANGED <<node, inLoop, received, answers>>
       ELSE \E n \in {SlideIfDue(n1)} :
              /\ answers' = IF n.state = "RUNNING_AGG"
                            THEN Append(answers, [wtime |-> n.wtime, tuples |-> n.live]) ELSE answers
              /\ \E rows \in IF n.state = "RUNNING_AGG" THEN AggRows(n.live) ELSE {0} :
                   IF new = <<>> THEN TakeResult(Finish(n, rows))
                   ELSE node' = Finish(n, rows) /\ inLoop' = TRUE /\ UNCHANGED received

-----------------------------------------------------------------------------
(* The eddy around it.                                                     *)

Init ==
  /\ expr = NoExpr /\ plan \in AggPlans
  /\ consumed = [i \in Streams |-> <<>>] /\ joined = {} /\ accepted = {}
  /\ node = NodeInit /\ inLoop = FALSE /\ received = <<>> /\ answers = <<>> /\ failed = {}

\* add_fagg: the query's window expression reaches the new node
FAggAddWindowExprs ==
  /\ node.state = "NO_WINDOW_EXPR"
  /\ \/ \E e \in RangeExprs : expr' = e /\ node' = AddRangeExpr(node, e)
     \/ \E e \in SliceExprs : expr' = e /\ node' = AddSliceExpr(node, e)
  /\ UNCHANGED <<plan, consumed, joined, accepted, inLoop, received, answers, failed>>

\* the join processor consumes a tuple of stream i; the join predicate keeps
\* any of the combinations with the tuples consumed before
Consume(i, ts) ==
  LET base   == [no |-> Len(consumed[i]) + 1, ts |-> ts]
      tuples(j) == IF j = i THEN {base} ELSE {consumed[j][k] : k \in 1..Len(consumed[j])}
      combos == {f \in [StreamsOf(expr) -> UNION {tuples(j) : j \in StreamsOf(expr)}] :
                   \A j \in StreamsOf(expr) : f[j] \in tuples(j)}
  IN  /\ node.state # "NO_WINDOW_EXPR" /\ failed = {} /\ ~ inLoop /\ joined = {}
      /\ i \in StreamsOf(expr)
      /\ Len(consumed[i]) < MaxConsumed
      /\ consumed[i] # <<>> => ts >= consumed[i][Len(consumed[i])].ts
      /\ consumed' = [consumed EXCEPT ![i] = Append(@, base)]
      /\ \E results \in SUBSET combos : joined' = results
      /\ UNCHANGED <<expr, plan, accepted, node, inLoop, received, answers, failed>>

\* processOutputQ up to its loop: deliverTupleToFAgg
deliverTupleToFAgg(t) ==
  /\ failed = {} /\ ~ inLoop /\ t \in joined
  /\ joined' = joined \ {t}
  /\ accepted' = accepted \cup {t}
  /\ ProcessNextFAgg(<<t>>)
  /\ UNCHANGED <<expr, plan, consumed>>

\* one getFAggResult: a result already there, or the one that one more call makes
getFAggResult ==
  /\ failed = {} /\ inLoop
  /\ \/ node.out # <<>> /\ TakeResult(node) /\ UNCHANGED <<answers, failed>>
     \/ node.out = <<>> /\ ProcessNextFAgg(<<>>)
  /\ UNCHANGED <<expr, plan, consumed, joined, accepted>>

\* every hundredth iteration of the eddy's loop
checkSlideTimeout ==
  /\ node.state # "NO_WINDOW_EXPR" /\ failed = {} /\ ~ inLoop
  /\ inLoop' = TRUE
  /\ UNCHANGED <<expr, plan, consumed, joined, accepted, node, received, answers, failed>>

Next ==
  \/ FAggAddWindowExprs
  \/ \E i \in Streams, ts \in 0..Horizon : Consume(i, ts)
  \/ \E t \in joined : deliverTupleToFAgg(t)
  \/ getFAggResult
  \/ checkSlideTimeout

\* The eddy's loop keeps running: it finishes the loops over getFAggResult, it
\* puts out what the join processor has made, and it keeps reaching the
\* iterations that call checkSlideTimeout.  These are the weak fairness of
\* getFAggResult, deliverTupleToFAgg and checkSlideTimeout, with the enabling
\* conditions and the steps they tell apart spelled out.
LoopGoesOn == []<>(failed # {} \/ ~ inLoop) \/ []<><<inLoop>>_vars

ResultsGoOut ==
  []<>(failed # {} \/ inLoop \/ joined = {}) \/ []<><<accepted' # accepted>>_vars

TimeoutsChecked ==
  \/ []<>(failed # {} \/ inLoop \/ node.state = "NO_WINDOW_EXPR")
  \/ []<><<~ inLoop /\ inLoop' /\ accepted' = accepted>>_vars

Spec == Init /\ [][Next]_vars /\ LoopGoesOn /\ ResultsGoOut /\ TimeoutsChecked

-----------------------------------------------------------------------------
(* Properties.                                                             *)

BaseTuples == [no : 1..MaxConsumed, ts : 0..Horizon]

IsTuple(t) == DOMAIN t = StreamsOf(expr) /\ \A i \in DOMAIN t : t[i] \in BaseTuples

\* Types, and that a second result is never made while the eddy has not taken
\* the first from the node's one slot in ModuleIHT_Table.
TypeOK ==
  /\ \A t \in accepted \cup joined \cup node.live : IsTuple(t)
  /\ node.state \in {"NO_WINDOW_EXPR", "BEFORE_START", "READING", "FINISHING_AGG", "PUNCTUATING"}
  /\ node.current_time \in NOBEGIN..Horizon
  /\ node.rows \in 0..MaxGroups
  /\ \A g \in node.activation \cup node.deactivation : IsTuple(g.tup)
  /\ inLoop \in BOOLEAN /\ Len(node.out) <= 1

\* The operator implements the window semantics its header states
\* (SlideEvents): every slide event is answered in order, once, from exactly
\* the tuples live at it, and no tuple arrives for a slide already answered.
Slides == INSTANCE SlideEvents
ImplementsSlideEvents == Slides!Spec

\* The first windows of the joined streams end further apart than the later
\* stream slides.
EndsFarApart(e) ==
  \E i, j \in DOMAIN e :
    windowStateGetFirstChange(e[j]) - windowStateGetFirstChange(e[i]) > e[j].slideBy

\* Two Asserts fail, each for some queries only.  Assert(NIL != pending) of
\* add_new_tuple_slices fails when a query with SLICES gets a tuple from before
\* START AT.  Assert(window_num > 0) of windowStateGetNextSlide fails at the first
\* slide of a join whose first windows end far apart, so that no such join is
\* ever answered, and for no other query.  The rest hold: the first activation
\* and deactivation groups are never behind the window, and the windows advance.
AssertsFailOnlyFor ==
  /\ failed \subseteq {"pending", "window_num"}
  /\ "pending" \in failed =>
       IsSliced(expr) /\ \E t \in accepted : t[expr.stream].ts < expr.startAt
  /\ "window_num" \in failed => ~ IsSliced(expr) /\ EndsFarApart(expr)
  /\ answers # <<>> /\ ~ IsSliced(expr) => ~ EndsFarApart(expr)

\* The deactivation groups point to every tuple that is live or waiting to be,
\* and to nothing else: advance_window unlinks and frees each tuple once and
\* leaves no pointer to a freed one (remove_from_live_list,
\* destroy_tuple_list_node).
DeactivationCoversLive ==
  /\ TypeOK
  /\ {g.tup : g \in node.deactivation} =
       IF IsSliced(expr) THEN {} ELSE node.live \cup {g.tup : g \in node.activation}
  /\ node.live \cap {g.tup : g \in node.activation} = {}

\* "The punctuation indicates that there will be no tuples from this operator
\* UNTIL then" (nodeFAgg.c:1635): no row is received after a timestamped
\* punctuation with an earlier window time.
PunctuationTrue ==
  \A a, b \in 1..Len(received) :
    a < b /\ ~ received[a].row /\ received[b].row => received[b].time >= received[a].time

\* A slide event that the current time has reached is answered, also when
\* no further tuple arrives: the loop of processOutputQ answers one slide per
\* tuple, checkSlideTimeout catches up.  Only a failed Assert ends that.
EverySlideAnswered ==
  (node.state # "NO_WINDOW_EXPR" /\ Slides!Due(accepted) # {})
    ~> (node.state # "NO_WINDOW_EXPR" /\ (Slides!Due(accepted) = {} \/ failed # {}))

=============================================================================
