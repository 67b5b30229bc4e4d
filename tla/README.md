# TelegraphCQ in TLA+

A TLA+ model of the parts of TelegraphCQ that make it a stream processor on top
of PostgreSQL 7.3: the shared-memory queues, the protocol by which a continuous
query enters and leaves the running eddy, the process that collects the streams,
load shedding, windows and windowed aggregates, and the fail-over of a
partitioned dataflow. `PROJECT.json` maps every definition to the source lines it
models, and lists hazards at the line where they bite. Paths below are relative
to `src/src/backend/`.

## The system

| Process | Code | What it does |
| --- | --- | --- |
| postmaster | `postmaster/postmaster.c` | creates the shared memory, starts the others, shuts the eddy down |
| frontend, one per client | `tcop/postgres.c`, `executor/nodeScanq.c` | plans a continuous query, sends the plan to the backend, reads results |
| backend, one | `executor/nodeCQEddy.c` | runs one eddy that all queries share, with a windowed aggregate (`nodeFAgg.c`) per query that has one |
| wrapper clearinghouse, one | `telegraphcq/wrapch.c` | accepts stream sources, calls their wrappers, and feeds tuples to ingress queues or archives, through a triage queue (`triageq.c`) for a stream that sheds load |

They meet in shared memory, almost only through queues (`rqueue/resultq.c`):

| Queue | Writers | Readers | Lock |
| --- | --- | --- | --- |
| plan queue | frontends (blocking), postmaster (once, not blocking) | backend, blocking only while it has no query | mutex, FULL and EMPTY semaphores |
| result queue, one per query | backend (not blocking) | the query's frontend (blocking) | same |
| control queue | frontends, postmaster, clearinghouse (none blocking) | backend, not blocking | same |
| ingress queue, one per stream | clearinghouse | stream scans of the backend | spinlock |
| wrap control queue | backend, postmaster | clearinghouse | spinlock |

The number of a result queue is the id of its query. It is the index of the
query's bit in tuple lineage, it names the query on the control queue, and it is
reused.

Flux spreads a dataflow over a cluster. An Ingress operator keeps tuples in a
transient skew buffer (`executor/tsb.c`) and sends each to a primary and a
secondary copy of its partition (`nodeSegCons.c`) on two machines. When a machine
fails, a standby takes over its two copies: the surviving copies move their state
there through state movers (`nodeStateMover.c`).

## The modules

### Queues and queries

**`ResultQ`** models `enqueue_elt`, `dequeue_elt` and `clear_queue`. `q` is the
`Queue` struct (`head`, `tail`, `wall` as offsets, `bytesfree`, `numelts`) and its
buffer, in which every byte is abstracted to the element written over it. An
element is a serialized size and a payload. `ResetWall`, `WrapTail`, `MustWrap`,
`SpaceAvail` and `StoreElt` are the parts of `enqueue_elt` in order; `PassWall`,
`Corrupt`, `ReadElt` and `TakeElt` those of `dequeue_elt`. A refused enqueue keeps
the moved tail, as the code does.

**`Fifo`** is what the buffer promises: `enqueue` appends or refuses, `dequeue`
takes the oldest, `clear_queue` empties. `ResultQ` implements it under the
refinement mapping `Contents`, the elements found by walking from head to tail.

**`SharedQueue`** models `enqueue` and `dequeue` around it, one semaphore
operation or critical section per step. `pc` is where a process is:
`empty_down`/`full_down` (waiting for a slot or an element), `lock`, `elt` (inside
`enqueue_elt`/`dequeue_elt`), `unlock`, `full_up`/`empty_up` (the wakeup for the
other side), `idle`, `dead`. The buffer is a count; `MinSlots` and `MaxSlots` bracket the
number of elements at which a variable-length buffer may refuse. `DieWaiting` and
`DieAcquired` are a SIGTERM inside `TCQSemaphoreLock`, before and after its
`semop`. The constants choose who may block, who may not, and who may be killed,
so that one module serves the plan, result and control queues.
**`SharedQueue_proofs`** has the theorems about it.

**`QueryLifecycle`** composes frontends, backend, postmaster and clearinghouse around the
queues, which are FIFOs here, as `ResultQ` and `SharedQueue` justify. A frontend
plans the queries of a batch one by one (`PlanQuery`, with `AllocQueue`), sends the
batch (`EnqueuePlan`), then reads (`ReadResult`) or keeps it as a cursor
(`StartStatement`, `Fetch`, `ClosePortals`); errors, cancels and exits go through
`AbortCurrentTransaction`. The backend repeats the loop of `ExecCQEddy`: drain the
control queue (`Control...`), take at most one plan (`NoPlan`, `Wakeup`,
`CancelledPlan`, `IntegratePlan`), then either route the tuple in flight
(`RouteTuple`) or, with nothing in flight, remove queries and scan a source
(`RouteSource`). Of the eddy's data only the lineage of the tuple in flight is
kept: `inflight`, the queries that still await it. **`QueryLifecycle_proofs`** has the
theorems.

### Streams

**`IngresQ`** models `allocIngresQ` and `freeIngresQ` with their callers, as an
abstract specification of who holds a queue: connections of unarchived streams
(`OpenConn`, `CloseConn`) and stream scans (`StartScan`). The code sends no message
that ends a scan's reference, so neither does the model. **`IngresQ_proofs`** has the
theorems about it.

**`WrapCH`** extends `IngresQ` with the process that uses the table. A step is one
entry of the control queue, one `poll(2)`, or one call of `processConnection`, which
the model computes as a whole: what the wrapper returns (`INIT`, `RESCAN`, `NEXT`,
`DONE`), the tuple that does not fit the ingress queue and is kept for later, the
archive buffer with its `head` and tail, the timeouts. `table` is `conn_list`,
from which `removeConnFromListByIndex` takes an entry by moving the last one into the
hole. The backend starts and ends scans, sends probes and reads queues. The steps of
`WrapCH` on the table of ingress queues are those of `IngresQ`, so the theorems about
`IngresQ` hold of it. **`WrapCH_proofs`** has the theorems.

**`TriageQ`** models the triage queue of one stream and the code of `wrapch.c` that
drives it: `Arrive` (`processTupleUnarchivedDrop`), `serviceTriageQueue`,
`sendLossSummariesIfReady`, closing (`deleteConn`, `cleanupUnarchivedStream`), another
stream that sets the common start of the summary windows, the clock, and the query
engine, which may read the ingress queue (`EngineReads`) or not; of that queue only
`room` is kept. A summary is the set of tuples put into it. An `elog(ERROR)` is recorded in `q.err` and ends everything,
as it ends the process; `why` is a history of the unusual things the stream did.

### Windows

**`Window`** is the arithmetic of `telegraphcq/window.c`, without state: window
numbers, edges, lifetimes, the next slide. The code divides doubles and casts to
int. The cast rounds towards zero, and a comment says that rounding errors make the
quotient undershoot; the constants `UnderPast` and `UnderLast` are the exact
quotients for which that happens. **`Window_proofs`** has the theorems.

**`FAgg`** is the windowed aggregate inside the output loop of the eddy:
`deliverTupleToFAgg`, `getFAggResult`, `checkSlideTimeout`. `node` is the operator:
activation and deactivation groups, live tuples, the times of the slides, and the
state of `ProcessNextFAgg`. The join processor below is the environment, under the
assumptions that the header of `nodeFAgg.c` lists. **`SlideEvents`** is the abstract
specification, translated from the window semantics in the same header: every slide
event is answered once, in order, from the tuples live at it. **`MCFAgg`** has the
window expressions of the run.

### Flux

**`TSB`** has the operations of the transient skew buffer on one partition: entries
(known by their sequence numbers), who is done with each (`dmask`), the cursors
`ack` and `head`, and the reserved entry. `put_ack_TSB` is `Pass` (its loop) and
`AddEntry` (the rest). **`TSB_proofs`** has the theorems.

**`FluxIngress`** composes the buffer, Ingress, the copies, the state movers and the
scheduler of every machine, and lets a machine fail. Ingress: `ExecFluxIngress` with
`do_fail_over` and `PutSlot`, and one step per visit of a connection (`service_fdest`,
split by the connection's status). A copy: `ExecSegCons` with one action per mode. A
mover: `ExecStateMover` with `prepare_request`, `process_receive`, `process_send`. The
abstractions:

* How many connections one call of `serviceConn` visits, and in which order, is left
  open, and so is when a source delivers.
* A connection is a FIFO of bounded length. Batching of tuples and
  acknowledgements is in the choice of when a step happens.
* A page of state is one tuple; an empty last page, sending a queue in several
  calls, and waiting for FCONSSYNC to go out (`WAIT_ACKS`) only delay.
* The order in which FSched runs the operators of a machine (mover, primary,
  secondary) is kept on the standby, where two copies share a mover that works.
* A failed machine loses what is sent to it. What it had sent may still arrive until
  Ingress closes its connections. At most one machine fails, as the code raises an
  error at a second failure.
* `N`, the number of machines, is at least 3. With two machines both standby
  copies would ask the same mover for state, which has nothing to tell the requests
  apart.

## What the runs check

| Run | Question | What it shows |
| --- | --- | --- |
| `resultq_layout` | Is the circular buffer a FIFO, for mixed sizes and any number of wraps? | The live elements tile the buffer (`LiveElementsTile`), and the byte-level queue implements `Fifo` (`RefinesFifo`): `dequeue_elt` never finds the buffer corrupt. |
| `plan_queue_liveness` | Is a sleeping eddy woken and does a blocking enqueue return, although the semaphores are counted outside the mutex and refused attempts waste counts? | No wakeup is lost, a blocking enqueue never gives up, both sides are served. |
| `result_queue` | Is a result queue safe with a reader that may be killed and a writer that clears it? | One process at a time is inside, and a blocking dequeue that returns has an element. |
| `query_sessions` | With cancels, errors, exits, cursors, batches, EXPLAIN EDDY, wrapper errors and lost messages: is a number reused safely, and when is a query left behind? | A removal only ever hits the query it was sent for, a free number has no traces of its last user, lineage names live queries only. A query is orphaned in three ways only (`OrphanedOnlyBy`, below). |
| `query_served` | Does what is asked for happen, with cancels, exits and lost messages? | A query that the eddy knows gives its number back once its removal is requested (`EndedQueryReclaimed`); a shutdown request that the control queue took ends the eddy (`ShutdownCompletes`). |
| `windowed_aggregate` | Does the activation and deactivation of groups compute the window semantics? | `FAgg` implements `SlideEvents`: every slide event is answered, once, in order, from the tuples live at it (`ImplementsSlideEvents`, `EverySlideAnswered`). No live tuple misses its deactivation, and the punctuation it sends is true. Two of its Asserts fail, each exactly for the queries that `AssertsFailOnlyFor` names; the others hold. |
| `triage` | What happens to a tuple that is shed? | Each tuple is sent or summarised once (`Accounted`), in the window it belongs to; summaries are complete when they are sent, a window that is shed whole is announced by a punctuation (`ShedWindowAnnounced`), order is kept, closing ends unless the engine has stopped reading for good (`DrainEnds`). The errors that stop the clearinghouse occur only in the circumstances below. |
| `wrapch` | Do the indexes, batches and timeouts of the clearinghouse survive failing sockets, new sources and commands? | `conn_list` is exactly the open connections, results of `poll(2)` are used for the connection they are about, no tuple is lost, also not at close. A wrapper is called with the state its init made, but for a pull wrapper that STREAM_SHUTDOWN overtakes (`InitBeforeUse`). |
| `wrapch_live` | Are the ingress queues counted right, and is everyone served? | Every queue has exactly its holders; shutdown requests are served, finished connections closed, held tuples sent. |
| `flux_fail_over` | A machine fails at any moment while tuples flow: is anything lost or repeated? | Every copy has processed a prefix of its partition (`CopyIsPrefix`), what the buffer frees is in the state of every copy that counts (`FreedIsProcessed`), the cursors stay in the list (`CursorsInOrder`), and the processes wait for each other only when both copies are rebuilt (`WaitsOnlyWhenRecovered`, `NotificationNotLost`). |

In two runs the code differs from what it says; `findings` in `PROJECT.json` quotes
the lines.

| Run | Behaviour |
| --- | --- |
| `triage_start` | `g_triage_summary_window_start` starts as `-DBL_MAX` and is compared with `DT_NOBEGIN`, which is another value where `HUGE_VAL` is defined; the first tuple is not put in a window that contains it |
| `punctuation_stops` | a timeout that expires while a tuple waits for room is used up without a call of the wrapper, which never asks for another |

The run `triage` therefore takes `NoStart = NoBegin`, the build in which the two
values agree, to see the rest of the code at work.

The modules that have a type invariant define it as `TypeOK` (`WTypeOK` in `WrapCH`).
Those of `SharedQueue`, `IngresQ` and `QueryLifecycle` are proved, and `Accounted` includes that of
`TriageQ`. The others hold in the same instances and are left out of the runs.

### Behaviour the model has and no run is about

A reader of the properties should know these.

* A process killed between `semop` and the end of `TCQSemaphoreLock` (`DieAcquired`)
  leaves the mutex of the queue taken. `MutualExclusion` holds; progress does not.
* A nonblocking dequeue may take an element before its count is raised, and a later
  blocking dequeue finds nothing. `processPlanQ` treats that as "no plan"; it is
  `SpuriousWakeup` in `QueryLifecycle`, outside its fairness.
* An eddy keeps running a query nobody reads, for ever, in the three ways of
  `OrphanedOnlyBy`. The control queue had no room for the QUERY_REMOVE: wrapper errors
  fill it while the eddy sleeps on the plan queue, and the code only logs "this shouldn't
  happen" (`xact.c:1500`, `nodeScanq.c:402`). An abort with cursors open forgets the
  statement in progress, as closing a cursor resets `cqcancelid`. An exit with cursors
  open forgets them if `cqcancelid` was reset, for example by the end of a SELECT.
* The number of a query that is cancelled before its plan is sent, and the numbers of the
  feeders of a batch that is cancelled before the eddy takes it in, are never free again.
* A SHUTDOWN that finds the control queue full is lost too, and an unending flood of
  wrapper errors would keep `processControlQ` in its loop. `query_served` has no wrapper errors.
* A stream that looks for its queue when a slot in front of it was freed gets a
  second queue.
* The clearinghouse stops with an error of the triage queue if a tuple goes back in time
  (`late`), lies before the first window (`early`), comes after a gap of windows (`gap`),
  meets a full queue (`full`), or if the stream was idle when a summary was due (`idle`).
  `FailsOnlyWhen` says that nothing else does it.
* "Never drop a punctuation tuple" (`triageq.c:883`) is true of `triage_cleanup_expired_tuples`
  only: at a full queue `drop_oldest` takes whatever is oldest. A window shed when nothing of
  a later one is queued gets no punctuation.
* `next_dequeue_ix` can become -1, in front of the array, as C computes `-1 % n` as -1.
* The drain loop of `cleanupUnarchivedStream` runs in the only thread of the clearinghouse and
  spins until the queue is empty. If nobody reads the stream any more it never ends.
* `Assert(window_num > 0)` in `windowStateGetNextSlide` ends the backend at the first slide of a
  join whose windows first end more than a slide apart (ranges 1 and 3, slide 1), and
  `Assert(NIL != pending)` in `add_new_tuple_slices` ends it at the first tuple of a SLICES query
  from before START AT. `AssertsFailOnlyFor` says that no other query meets either.
* SLICES with HAVING keeps a stale list of live tuples; `MCFAgg` has no plan with HAVING.
* STREAM_SHUTDOWN for a pull wrapper whose init has not run or has failed makes
  `processConnection` call `done` without the state `init` allocates.

### Bounds, and why they are enough

* `ResultQ`: 10 bytes, 1 of header and 1 of padding, elements of 3, 5, 8, 10 and
  11 bytes. This covers an element that fills the buffer, two that do, one that never
  fits, walls at different
  distances from the end, refusals before and after a wrap, and several wraps. All
  states are explored, so histories are unbounded; the theorems remove the other bounds.
* `SharedQueue`: two producers compete for the slots of one consumer; a buffer of
  two elements, `Tries` 3 and `Empties` 4. The code's `Empties` also exceeds `Tries`,
  because the first counts the `Queue` struct and the second does not. The theorems remove
  the bounds for the safety properties.
* `QueryLifecycle`: two frontends compete for two numbers, so that numbers are
  reused at once and also run out; batches of up to two; a plan queue of two, in which the
  NULL plan of `wakeup_eddy` makes a frontend wait; a control queue of two, so that
  messages are lost. The real control queue holds about 550 messages for at
  most 128 queries. `ResultCap` 1 makes every report meet a full result queue.
* `FAgg`: time up to 5, two tuples per stream, two groups; overlapping, tumbling,
  hopping and joined windows, a join whose first windows end far apart, and SLICES with tuples
  before and after START AT. Quotients 2 and 3 undershoot in
  `first_window_past`, which corrects it; none does in `last_window_no`, which does
  not. There the end of a tuple's life would come a window early.
* `TriageQ`: three slots, windows of two time units, a horizon of six (three windows),
  four tuples: enough to shed across a window edge, wrap, and fill the queue with tuples of
  two windows. `OtherTs` is another stream that fixes the start of the windows first;
  `Settings` are
  the values of `load_shedding_first_window_start`.
* `WrapCH`: `wrapch` has three sources for a table of two, and archive buffers of
  two; `wrapch_live` two sources on two streams with one scanned twice. Queues, probes and
  control queue hold one, so that each is full at times. A source that has
  pushed `MaxTuples` tuples gets no more timeouts.
* `FluxIngress`: two tuples (`End` 3), a buffer of one entry besides the reserved ones,
  connections that hold one message, one partition with tuples, three machines of which
  either holder of that partition may fail, and the standby. Two tuples suffice to
  have one acknowledged by one copy and one in transit to the other when the machine
  fails. Three tuples, or tuples on two partitions, were checked too and show the same.
  A tuple dropped at a full buffer does not happen in these bounds.

Deadlock checking is off where the system may really stop: behind a mutex whose
holder was killed, after a shutdown or an error or failed Assert that ends a process, and where all
bounded input is used up (`TriageQ`, `FluxIngress`).

### Fairness

* `SharedQueue!Fairness`: a process inside an operation keeps running (weak); a semaphore
  wait that is possible again and again succeeds (strong), because the kernel serves
  the waiters of a SysV semaphore in turn; the consumer comes back, because
  `ExecCQEddy` reads the plan queue on every pass. Producers may stop between
  operations.
* `QueryLifecycle!FairSpec`: weak fairness of the backend, a single process that runs
  unless it waits on the plan queue, and of `wakeup_eddy`, which `pmdie` calls right after
  it has sent SHUTDOWN. Nothing is assumed of frontends: a client may stop reading.
* `FAgg!Spec`: the eddy's loop goes on (`LoopGoesOn`), tuples of the join processor are
  delivered (`ResultsGoOut`), and idle passes call `checkSlideTimeout`
  (`TimeoutsChecked`).
* `TriageQ!FairSpec`: the drain loop of `cleanupUnarchivedStream` runs on while the
  process lives. Nothing is assumed of the query engine.
* `WrapCH!FairSpec`: the clearinghouse takes steps until it ends (`poll(2)` has a timeout),
  and a scan reads its queue. Nothing is assumed of sources.
* `FluxIngress` has no liveness run. `WaitsOnlyWhenRecovered` says that not everyone
  waits before recovery is complete, and all other steps use up bounded input.

Some of these are spelled `[]<>~enabled \/ []<><<step>>_v`, which is weak fairness in a form
that TLC evaluates quickly.

## What is proved

### Queues

`SharedQueue_proofs` proves with TLAPS, for any finite sets of processes, any sizes,
and any mixture of calls that the assumption of the theorem allows:

| Theorem | Property | Assumes |
| --- | --- | --- |
| `TypeCorrect` | `TypeOK` | |
| `Exclusion` | `MutualExclusion` | |
| `HolderExists` | `MutexHasHolder` | nobody is killed |
| `WakeupKept` | `NoLostWakeup` | no consumer is killed |
| `DequeueDelivers` | `BlockingDequeueDelivers` | no consumer is killed, every dequeue blocks |
| `EnqueueNeverGivesUp` | `BlockingEnqueueNeverGivesUp` | every enqueue blocks, `MinSlots > Empties - Tries` |

The assumptions on the constants are `ProcAssumption` and `SizeAssumption` of
`SharedQueue`; TLC evaluates both in every run of that module. The assumptions of
single theorems are needed: the killed holder and the early nonblocking dequeue above
are what happens without those of `HolderExists` and `DequeueDelivers`.

The argument. `Safe` is inductive: types, "mutex = 1 only if nobody is in the
critical section", exclusion, and the control facts that only producers wait for slots,
only consumers for elements, and a producer about to try has an attempt left.
`MutualExclusion` alone is not inductive, as it says nothing about the mutex.
Everything else is counting. `CountStep` shows that every step moves the four numbers
`numelts`, `full`, U (producers that have yet to raise FULL) and C (consumers
that have lowered it and have yet to take) in one of eight ways, and none
makes `numelts > full + U + C`. If every dequeue blocks the two sides stay equal
(`ExactInv`), so a consumer that holds a count finds an element. For the enqueue,
`Credits = empty + numelts + H + R` is the number of slot counts in existence. It
starts at `Empties` and falls by one with every refused attempt. `CreditInv` says
that `Credits` plus what one process has wasted in its current call is at most
`Empties`. A call that is refused for the last time has wasted `Tries`, which leaves
at most `Empties - Tries < MinSlots` credits; but a refusal needs `MinSlots` elements,
each of which is a credit.

`ResultQ_proofs` proves `QueueTiled` (`LiveElementsTile`) and `QueueRefinesFifo`
(`RefinesFifo`), for any capacity, header, padding, element sizes and payloads, from
`QueueConstants` alone. `LiveElementsTile` is not inductive: it says where elements
are, not that their bytes are intact. The inductive invariant says that there is a `Layout`:
a choice between wrapped or not, the elements `es` and their addresses `at`, such that

* the three pointers stand in the order that choice demands, and `bytesfree` is what they leave;
* the first element is at the head, each starts where the one before ends or behind the
  wall at 0, and the last ends at the tail (`Chain`);
* every byte of an element carries it, no two elements share a byte, none lies across the gap;
* the bytes between head and tail are exactly the bytes of elements.

One lemma per operation (`StoreLayout`, `WrapLayout`, `PassLayout`, `TakeLayout`) says how it
changes the layout; a refused enqueue may change the pointers but neither `es` nor
`at`. `WalkFindsLayout` shows that `LiveAddr`, the walk over the length fields, visits the addresses
`at`, hence that `Contents` is `es`. That is an induction over the elements; it is done
with the least address on which walk and layout differ (`LeastNumber`), as the library's
induction rules are beyond the installed provers.

`IngresQ_proofs` proves `CountIsHolders` (`CountsHolders`), `NameKept`
(`HeldQueueKeepsName`) and `LockReleased` (`LockAlwaysReleased`) for any number of
slots, streams, connections and scans, from `IngresConstants` alone. The
conjunction of the three with `TypeOK` is inductive. The last two rest on the counts: a held slot has a
positive count (`HeldIsUsed`), so `freeIngresQ` finds it in use and releases the
lock, and so `allocIngresQ` can give it only to a user of the same stream
(`AllocatedSlot`: the first match of its loop exists and is unused or has the name),
which keeps the name.

The clearinghouse takes only steps of `IngresQ` on the table (`ClearinghouseSteps`, below), so
the three theorems hold of it too.

### The life of a query

`QueryLifecycle_proofs` proves, for any number of frontends, query numbers and places in
the queues, from `LifecycleConstants` alone:

| Theorem | Property |
| --- | --- |
| `OwnershipHolds` | `Ownership`, the inductive invariant |
| `RemovalIsOfEndedQuery` | `RemovalOnlyOfEndedQuery` |
| `FreeNumbersAreFresh` | `FreeNumberIsFresh` |
| `LineageStaysLive` | `LineageIsLive` |

None of the three properties is inductive: each says what must not be in one place,
and the next step may bring it there from another. `Ownership` says who may still speak
of a number. A number is removed at most once, and only while allocated (`RequestsOnce`).
Sessions work with disjoint sets of allocated numbers that nobody has asked to
remove, and `cqcancelid` is one of them, or none (`Sessions`). Nobody else knows the numbers of a
batch that is not sent (`UnsentFresh`). A number is on the plan queue once and not yet in
the eddy (`PlannedOnce`). What is free is unknown to the eddy, and lineage is a subset of the
queries (`EddyNumbers`). Last, a query that feeds another is removed with it or
not at all (`Feeders`). That is the part TLC would hardly suggest: `processQueryRemove`
removes the feeders without a request of their own, so a request for a feeder that came
later would meet the next user of its number. It holds because a frontend sets `cqcancelid`
to the output query, the last of its batch, and makes cursors only of that one.

### The clearinghouse

`WrapCH_proofs` proves, for any number of streams, connections, slots, queue places and any
size of the archive buffer, from `WrapConstants` and `IngresConstants`:

| Theorem | Property |
| --- | --- |
| `TuplesKept` | `NoTupleLost` |
| `CloseLosesNothing` | `NothingLostAtClose`, an action property |
| `PollStaysCurrent` | `PollResultsCurrent` |
| `TableListsOpen` | `TableIsOpenConns` |
| `NextAnswersProbe` | `NextHasProbe` |
| `ClearinghouseCounts` | `CountsHolders`, from `ClearinghouseSteps` and `CountIsHolders` |

The first half is about one connection. `Sound` says that the tuples in the archive
buffer from `head` on, followed by the one kept in `tuple`, are exactly those between the
last sent and the last made, in order (`InOrder`), and that a pull wrapper in mode
NEXT has a probe. Each stage of `processConnection` (the call of the wrapper,
`processTuple`, `flush_stream`, the timeouts) preserves it, whatever the wrapper
returns. The second half is about the process. `ClearingInv` adds that the table lists the open connections without repetition
(`Listed`), that poll results are current, and that there is an unused connection for
every STREAM_STARTUP on the control queue (`Enough`, a bound of the model, since the code
allocates connections). Each step of the process keeps `ClearingInv`, is a step of `IngresQ` or
leaves its variables alone, and closes connections as `NothingLostAtClose` allows (`Good`);
the theorems follow from that one lemma, `GoodStep`.

### Windows

`Window_proofs` proves, for all integers as start, range, slide and timestamp (range
and slide positive) and from `UnderSets` alone:

* `FirstWindowPast`: `first_window_past` returns the first window that ends after a
  timestamp, whichever quotients undershoot. The correction in the code is what makes it
  so, also for timestamps before START AT, where the cast rounds up.
* `NextSlideRight`: `windowStateGetNextSlide` returns the earliest end of a window after a
  timestamp, and its `Assert` holds exactly from one slide before the end of the first
  window on.
* `LifetimeRight`: from birth to death a tuple is live exactly at the ends of the windows it
  is in, if no quotient undershoots in `last_window_no`.

The provers have no theory of products of two variables, so `MulOrder` and the division
facts state the few they need, and `EndFacts` reduces comparisons of
window ends to comparisons of window numbers.

### Transient skew buffer

`TSB_proofs` proves that each routine of the buffer keeps the list of a partition in order
(`ListInOrder`), for lists and sequence numbers of any size, from `EndAssumption`:

| Theorem | Routine | Requires |
| --- | --- | --- |
| `PutKeepsOrder` | `put_ack_TSB` for a new tuple | its number is larger than those in the list |
| `SendKeepsOrder` | `advance_head_TSB` | the head is not at the end |
| `AckKeepsOrder` | `put_ack_TSB` for an acknowledgement | the entry was sent and is not acknowledged |
| `FailOverKeepsOrder` | `ack_all_TSB` | two copies counted; afterwards one does |
| `ResumeKeepsOrder` | `reset_cursors_TSB` | one copy counted; afterwards two do |

`ListInOrder(t, fmask)` says which copies count (`fmask`), that their cursors stand in the
list, head not before ack, that a copy is done with exactly the entries before its
ack cursor, and that no entry is left that all of `fmask` are done with. The last part is
what makes the invariant inductive: without it `reset_cursors_TSB` could leave an
entry in front of the new copy's cursor that does not carry its mark and is never
freed. That a number is larger than all in the list is why `PutKeepsOrder` holds although
the code passes all masks instead of those of the partition ("XXX It really should
be fmasks[dest] not fmask"). `PassOthers` is the core of the acknowledgement proofs: an
entry is deleted only if every other copy's mark is on it, so the other copy's
cursors are behind it. That the callers meet what the theorems require is part of
`CursorsInOrder`, which TLC checks for the composition.

### Only model-checked

* Liveness, and `WaitsOnlyWhenRecovered`: fairness and ENABLED are out of the prover's reach.
* `OrphanedOnlyBy` and `InitBeforeUse`.
* The refinement of `SlideEvents`, and everything about `FAgg`, `TriageQ` and the composition in
  `FluxIngress`, whose inductive invariants are not worked out.

## Not modelled

* What is PostgreSQL: parsing, planning of ordinary queries, storage, transactions
  except for the abort path a continuous query takes.
* How plans are merged into the eddy, which module a tuple visits and what the
  modules (SteMs, filters) compute; the routing policy. `QueryLifecycle` lets a visit
  complete a tuple for any queries that await it, which includes every policy. The merging
  is a transformation of trees of query text without concurrency.
* Of the clearinghouse: more than one wrapper per stream, interrupted system calls
  (EINTR), what is written past the table when a connection uses slot `MAX_CONN`, and
  reads of an ingress queue with index -1. Sources that push do not end with a done line.
* Of load shedding: the DDL that creates the extra streams and the contents of synopses
  (`histogram.c`, `wavelet.c`), which are numeric approximation without concurrency.
* Of Flux: the exchange inside a dataflow (`FluxProd_FT`, `FluxCons_FT`, `SegProd`) and Egress,
  which repeat the protocol of Ingress with paired producers and another buffer per
  machine, beyond what TLC finishes; the mode without acknowledgements; waiting
  for a parent producer before state is copied; connection set-up.
* Socket input (`strmsource.c`): pure I/O.
* Weak memory and torn reads: what is modelled is accessed under a lock or by one process.
