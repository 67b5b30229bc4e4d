------------------------------ MODULE TriageQ ------------------------------
(***************************************************************************)
(* The triage queue of a stream that sheds load (telegraphcq/triageq.c) as *)
(* the wrapper clearinghouse uses it (processTupleUnarchivedDrop,          *)
(* serviceTriageQueue, sendLossSummaries and cleanupUnarchivedStream in    *)
(* telegraphcq/wrapch.c).  Tuples that cannot be delivered in time are     *)
(* dropped into a summary; a pair of summaries (kept, dropped) is sent for *)
(* every summary window ("epoch").                                         *)
(*                                                                         *)
(* Time is counted in ticks of the clock's resolution, so EPSILON is one   *)
(* tick.  A summary is the set of tuples put into it; what the synopsis    *)
(* data structures make of the set is not modelled.  elog(ERROR) ends the  *)
(* clearinghouse: q.err then says where, and nothing follows.              *)
(***************************************************************************)
EXTENDS Window, SequencesExt

CONSTANTS QLen,        \* TRIAGEQLEN
          EpochLen,    \* load_shedding_synopsis_interval
          Delay,       \* the delay constraint less SHADOW_TIME
          AggTime, FullTime,  \* AGG_TIME_PER_TUP, FULL_TIME_PER_TUP
          DisableKept, \* load_shedding_disable_kept_summaries
          OtherTs,     \* first timestamps of another stream that sheds load
          Settings,    \* load_shedding_first_window_start: None or a timestamp
          None,
          NoBegin,     \* the value of DT_NOBEGIN ...
          NoStart,     \* ... and the initial window start, -DBL_MAX
          Horizon,     \* bound: timestamps
          MaxTuples    \* bound: tuples the wrapper delivers

ASSUME TriageConstants ==
  /\ QLen \in Nat \ {0} /\ EpochLen \in Nat \ {0} /\ FullTime \in Nat \ {0}
  /\ Delay \in Int /\ AggTime \in Nat /\ DisableKept \in BOOLEAN
  /\ Horizon \in Nat /\ MaxTuples \in Nat

VARIABLES q,          \* the TriageQueue, its summaries, and *q->epochstart_p
          setting,    \* the value of load_shedding_first_window_start
          generating, \* wrapperstate.tsState = GENERATING
          latestTs,   \* wrapperstate.latestTs
          clock,      \* the time of day, of interest to a generating wrapper
          arrived,    \* number of tuples the wrapper delivered
          phase,      \* "open", "draining" or "closed"
          room,       \* the ingress queue has room for a tuple
          lastSent,   \* timestamp of the last tuple the query engine got
          why         \* history: the unusual inputs and states met so far

vars == <<q, setting, generating, latestTs, clock, arrived, phase, room, lastSent, why>>

NoError == "none"
NoIx == -1            \* TQ_NOT_AN_INDEX
NoTuple == [n |-> 0, ts |-> 0, punct |-> FALSE]

-----------------------------------------------------------------------------
(* Windows whose range is their slide.                                     *)

Epochs(start) == [startAt |-> start, rangeBy |-> EpochLen, slideBy |-> EpochLen]

\* With the start at -DBL_MAX the quotient is infinite; whatever the cast of it
\* to int gives is a window that has ended, which last_window_no reports as -1.
window_no(start, ts) == IF start = NoStart THEN -1 ELSE last_window_no(Epochs(start), ts)

simple_window_end(start, k) == window_end(Epochs(start), k)

simple_ts_past_window(ts, start, k) ==
  start = NoStart \/ timestamp_past_window(Epochs(start), k, ts)

round_timestamp(ts) == ts - (ts % EpochLen)

-----------------------------------------------------------------------------
(* The circular buffer.  Slot -1 stands for the word in front of the array. *)

next_index(i) == (i + 1) % QLen

\* C's % keeps the sign of the dividend: -1 % n is -1, and 0 only for n = 1
prev_index(i) == IF i = 0 /\ QLen > 1 THEN -1 ELSE IF i = 0 THEN 0 ELSE i - 1

index_diff(first, last) == IF last >= first THEN last - first ELSE (QLen - first) + last

is_full(tq) == tq.nelem = QLen

is_empty(tq) == tq.nelem = 0

num_tups_from_cur_epoch(tq) ==
  IF tq.nextEpoch = NoIx THEN tq.nelem ELSE index_diff(tq.deq, tq.nextEpoch)

triage_create(start) ==
  [start |-> start, haveTs |-> FALSE, buf |-> [i \in -1 .. QLen - 1 |-> NoTuple],
   nelem |-> 0, enq |-> 0, deq |-> 0, nextEpoch |-> NoIx, epochnum |-> 1, nsent |-> 0,
   keep |-> {}, drop |-> {}, sums |-> <<>>, err |-> NoError]

triage_peek(tq) == tq.buf[tq.deq]

\* elog(ERROR) leaves the function it is called in, and all its callers
Fail(tq, where) == [tq EXCEPT !.err = where]
Then(tq, Op(_)) == IF tq.err = NoError THEN Op(tq) ELSE tq

WrongWindow(tq) == window_no(tq.start, triage_peek(tq).ts) # tq.epochnum

drop_oldest(tq) ==
  IF WrongWindow(tq) THEN Fail(tq, "drop")
  ELSE [tq EXCEPT !.drop = @ \cup {triage_peek(tq)}, !.deq = next_index(@), !.nelem = @ - 1]

triage_dequeue(tq) ==
  IF WrongWindow(tq) THEN Fail(tq, "dequeue")
  ELSE [tq EXCEPT !.keep = IF DisableKept THEN @ ELSE @ \cup {triage_peek(tq)},
                  !.deq = next_index(@), !.nelem = @ - 1, !.nsent = @ + 1]

\* the number of tuples of the current window there is still time for
TupCap(tq, now) ==
  IF tq.start = NoStart THEN 0
  ELSE TruncDiv(Delay + (simple_window_end(tq.start, tq.epochnum) - now)
                  - AggTime * tq.nsent, FullTime, {}) - 1

DropUnlessPunct(tq) == IF triage_peek(tq).punct THEN tq ELSE drop_oldest(tq)

DropMany(tq, count) == FoldLeft(LAMBDA t, i : Then(t, DropUnlessPunct), tq, [i \in 1 .. count |-> i])

PunctuatesBeforeTwoOnly(tq) ==
  IF num_tups_from_cur_epoch(tq) = 0 /\ tq.nelem > 1
  THEN [tq EXCEPT !.deq = prev_index(@), !.nelem = @ + 1,
                  !.buf[prev_index(tq.deq)] =
                     [n |-> 0, ts |-> simple_window_end(tq.start, tq.epochnum) - 1, punct |-> TRUE]]
  ELSE tq

OverwritesFront(tq) ==
  IF num_tups_from_cur_epoch(tq) = 0 /\ tq.nelem > 0
  THEN [tq EXCEPT !.buf[tq.deq] =
          [n |-> 0, ts |-> simple_window_end(tq.start, tq.epochnum) - 1, punct |-> TRUE]]
  ELSE tq

PunctuatesPreviousWindow(tq) ==
  IF num_tups_from_cur_epoch(tq) = 0 /\ tq.nelem > 0
  THEN [tq EXCEPT !.deq = prev_index(@), !.nelem = @ + 1,
                  !.buf[prev_index(tq.deq)] =
                     [n |-> 0, ts |-> simple_window_end(tq.start, tq.epochnum - 1) - 1, punct |-> TRUE]]
  ELSE tq

\* the current window is gone and a later one is queued: a punctuation tuple
\* that ends the window goes to the front
PunctuateFront(tq) ==
  IF num_tups_from_cur_epoch(tq) = 0 /\ tq.nelem > 0
  THEN [tq EXCEPT !.deq = prev_index(@), !.nelem = @ + 1,
                  !.buf[prev_index(tq.deq)] =
                     [n |-> 0, ts |-> simple_window_end(tq.start, tq.epochnum) - 1, punct |-> TRUE]]
  ELSE tq

triage_cleanup_expired_tuples(tq, now) ==
  LET current  == num_tups_from_cur_epoch(tq)
      twice    == 2 * (current - TupCap(tq, now))
      overflow == IF twice > current THEN current ELSE twice
  IN  IF ~tq.haveTs \/ is_empty(tq) \/ overflow <= 0 THEN tq
      ELSE Then(DropMany(tq, overflow), PunctuateFront)

\* a tuple of the current window, or of a later one
NoteNextEpoch(tq, tup) ==
  IF tq.nextEpoch # NoIx THEN tq
  ELSE IF simple_ts_past_window(tup.ts, tq.start, tq.epochnum)
       THEN [tq EXCEPT !.nextEpoch = tq.enq]
       ELSE IF window_no(tq.start, tup.ts) # tq.epochnum THEN Fail(tq, "enqueue") ELSE tq

Insert(tq, tup) ==
  [tq EXCEPT !.buf[tq.enq] = tup, !.enq = next_index(@), !.nelem = @ + 1]

triage_enqueue(tq, tup) ==
  LET begun  == IF tq.haveTs THEN tq
                ELSE [tq EXCEPT !.haveTs = TRUE, !.epochnum = window_no(tq.start, tup.ts)]
      shed   == IF is_full(begun) THEN drop_oldest(begun) ELSE begun
      noted  == Then(shed, LAMBDA t : NoteNextEpoch(t, tup))
      placed == Then(noted, LAMBDA t : Insert(t, tup))
  IN  Then(placed, LAMBDA t : triage_cleanup_expired_tuples(t, tup.ts))

ReadyInTheWindow(tq, now) ==
  /\ tq.start # NoBegin
  /\ \/ tq.deq = tq.nextEpoch
     \/ is_empty(tq) /\ window_no(tq.start, now) >= tq.epochnum

triage_summaries_ready(tq, now) ==
  /\ tq.start # NoBegin
  /\ \/ tq.deq = tq.nextEpoch
     \/ is_empty(tq) /\ window_no(tq.start, now) > tq.epochnum

\* the same comparison when it has to subtract a non-finite timestamp
ReadyFails(tq, now) ==
  tq.start # NoBegin /\ tq.deq # tq.nextEpoch /\ is_empty(tq) /\ now = NoBegin

\* where the window after the (advanced) current one begins in the queue: the
\* scan ends at next_enqueue_ix, which is where it starts when the queue is full
NextEpochIx(tq) ==
  LET At(k)   == (tq.deq + k) % QLen
      Stop(k) == \/ At(k) = tq.enq
                 \/ simple_ts_past_window(tq.buf[At(k)].ts, tq.start, tq.epochnum)
      k       == CHOOSE i \in 0 .. QLen : Stop(i) /\ \A j \in 0 .. i - 1 : ~Stop(j)
  IN  IF is_empty(tq) \/ At(k) = tq.enq THEN NoIx ELSE At(k)

KeepsNextEpoch(tq) ==
  [tq EXCEPT !.sums = Append(@, [epoch |-> tq.epochnum, kept |-> tq.keep, dropped |-> tq.drop]),
             !.keep = {}, !.drop = {}, !.epochnum = @ + 1, !.nsent = 0]

triage_get_summaries(tq) ==
  LET next == [tq EXCEPT !.sums = Append(@, [epoch |-> tq.epochnum, kept |-> tq.keep,
                                             dropped |-> tq.drop]),
                         !.keep = {}, !.drop = {}, !.epochnum = @ + 1, !.nsent = 0]
  IN  IF tq.deq # tq.nextEpoch /\ ~is_empty(tq) THEN Fail(tq, "assert")
      ELSE [next EXCEPT !.nextEpoch = NextEpochIx(next)]

sendLossSummariesIfReady(tq, now) ==
  IF ReadyFails(tq, now) THEN Fail(tq, "subtract")
  ELSE IF triage_summaries_ready(tq, now) THEN triage_get_summaries(tq) ELSE tq

-----------------------------------------------------------------------------
(* One connection of the clearinghouse, and the first tuple of another.    *)

Running == q.err = NoError

\* g_triage_summary_window_start after a first tuple with timestamp ts
FirstWindowStart(ts) ==
  IF q.start # NoBegin THEN q.start
  ELSE IF setting = None THEN round_timestamp(ts) ELSE setting

\* The stream leaves windows without tuples, more of them than the queue passes
\* over: it passes one per arrival and one before it delivers a tuple.
Gap(start, ts) ==
  /\ q.haveTs
  /\ window_no(start, ts) >
       (IF is_empty(q) THEN q.epochnum + 2 ELSE window_no(start, latestTs) + 1)

Init ==
  /\ q = triage_create(NoStart)
  /\ setting \in Settings
  /\ generating = "dontKnow"
  /\ latestTs = NoBegin
  /\ clock = 0 /\ arrived = 0 /\ phase = "open" /\ room = TRUE
  /\ lastSent = NoBegin /\ why = {}

\* processConnection makes a tuple of what the wrapper returned, and
\* processTupleUnarchivedDrop queues it.  A wrapper that generates timestamps
\* stamps its tuples and its punctuation with the time of day.
Arrive(ts, punct, stamp) ==
  LET start == FirstWindowStart(ts)
      sent  == sendLossSummariesIfReady([q EXCEPT !.start = start], ts)
      tup   == [n |-> arrived + 1, ts |-> ts, punct |-> punct]
      q2    == Then(sent, LAMBDA t : triage_enqueue(t, tup))
  IN  /\ Running /\ phase = "open" /\ arrived < MaxTuples
      /\ stamp \in {"yes", "no"} /\ generating \in {stamp, "dontKnow"}
      /\ generating = "yes" => ts = clock
      /\ punct => generating = "yes"
      /\ generating' = stamp
      /\ clock' = IF stamp = "yes" THEN ts ELSE clock
      /\ latestTs' = IF latestTs # NoBegin /\ ts < latestTs THEN latestTs ELSE ts
      /\ arrived' = arrived + 1
      /\ q' = q2
      /\ why' = why \cup (IF latestTs # NoBegin /\ ts < latestTs THEN {"late"} ELSE {})
                    \cup (IF window_no(start, ts) < 1 THEN {"early"} ELSE {})
                    \cup (IF Gap(start, ts) THEN {"gap"} ELSE {})
                    \cup (IF is_full(q2) THEN {"full"} ELSE {})
      /\ UNCHANGED <<setting, phase, room, lastSent>>

OtherStreamArrives(ts) ==
  /\ Running /\ q.start = NoBegin
  /\ q' = [q EXCEPT !.start = FirstWindowStart(ts)]
  /\ UNCHANGED <<setting, generating, latestTs, clock, arrived, phase, room, lastSent, why>>

get_current_timestamp == IF generating = "yes" THEN clock ELSE latestTs

\* One call of serviceTriageQueue, from serviceTriageQueues or, until the queue
\* is empty, from cleanupUnarchivedStream.  A tuple it sends leaves room for
\* another in the ingress queue or takes the last place.
serviceTriageQueue ==
  LET now  == get_current_timestamp
      q1   == triage_cleanup_expired_tuples(q, now)
      q2   == Then(q1, LAMBDA t : sendLossSummariesIfReady(t, now))
      sends == q2.err = NoError /\ ~is_empty(q2) /\ room
  IN  /\ Running
      /\ phase = "open" \/ (phase = "draining" /\ ~is_empty(q))
      /\ q' = IF sends THEN triage_dequeue(q2) ELSE q2
      /\ lastSent' = IF sends THEN triage_peek(q2).ts ELSE lastSent
      /\ IF sends THEN room' \in BOOLEAN ELSE UNCHANGED room
      /\ why' = why \cup (IF ReadyFails(q, now) THEN {"idle"} ELSE {})
      /\ UNCHANGED <<setting, generating, latestTs, clock, arrived, phase>>

\* The query engine takes a tuple out of the full ingress queue.  Nothing makes
\* it do so.
EngineReads ==
  /\ Running /\ phase # "closed" /\ ~room
  /\ room' = TRUE
  /\ UNCHANGED <<q, setting, generating, latestTs, clock, arrived, phase, lastSent, why>>

Tick ==
  /\ Running /\ generating = "yes" /\ clock < Horizon
  /\ clock' = clock + 1
  /\ UNCHANGED <<q, setting, generating, latestTs, arrived, phase, room, lastSent, why>>

\* The wrapper is done, or its connection is gone.
deleteConn ==
  /\ Running /\ phase = "open"
  /\ phase' = "draining"
  /\ UNCHANGED <<q, setting, generating, latestTs, clock, arrived, room, lastSent, why>>

ClosesWhenReady ==
  /\ Running /\ phase = "draining" /\ is_empty(q)
  /\ ~ReadyFails(q, get_current_timestamp) /\ triage_summaries_ready(q, get_current_timestamp)
  /\ q' = triage_get_summaries(q)
  /\ phase' = "closed"
  /\ UNCHANGED <<setting, generating, latestTs, clock, arrived, room, lastSent, why>>

\* The queue is drained: one last pair of summaries, and the queue is destroyed.
cleanupUnarchivedStream ==
  /\ Running /\ phase = "draining" /\ is_empty(q)
  /\ q' = triage_get_summaries(q)
  /\ phase' = "closed"
  /\ UNCHANGED <<setting, generating, latestTs, clock, arrived, room, lastSent, why>>

Next ==
  \/ \E ts \in 0 .. Horizon, punct \in BOOLEAN, stamp \in {"yes", "no"} : Arrive(ts, punct, stamp)
  \/ \E ts \in OtherTs : OtherStreamArrives(ts)
  \/ serviceTriageQueue
  \/ EngineReads
  \/ Tick
  \/ deleteConn
  \/ cleanupUnarchivedStream

Spec == Init /\ [][Next]_vars

\* The clearinghouse goes on with the loop of cleanupUnarchivedStream and with
\* what follows it.  The first conjunct is the weak fairness of the loop's calls
\* of serviceTriageQueue that find room, with their enabling condition and their
\* effect spelled out for TLC.  Of the query engine nothing is assumed.
FairSpec ==
  /\ Spec
  /\ \/ []<>~(Running /\ phase = "draining" /\ room /\ ~is_empty(q))
     \/ []<><<phase = "draining" /\ (q'.nelem # q.nelem \/ ~Running')>>_vars
  /\ WF_vars(cleanupUnarchivedStream)

-----------------------------------------------------------------------------
Tuples == [n : 0 .. MaxTuples, ts : -2 * EpochLen .. Horizon + EpochLen, punct : BOOLEAN]

\* The positions in the queue, oldest first
Queued == {q.buf[IF k = 0 THEN q.deq ELSE (q.deq + k) % QLen] : k \in 0 .. q.nelem - 1}

\* The indexes stay in the array, but for next_dequeue_ix, which prev_index may
\* move one slot in front of it; the element count never exceeds the array.
TypeOK ==
  /\ q.nelem \in 0 .. QLen /\ q.enq \in 0 .. QLen - 1 /\ q.deq \in -1 .. QLen - 1
  /\ q.nextEpoch \in -1 .. QLen - 1
  /\ q.epochnum \in Int /\ q.nsent \in Nat
  /\ q.keep \subseteq Tuples /\ q.drop \subseteq Tuples
  /\ phase \in {"open", "draining", "closed"}

\* What brings the clearinghouse down, and nothing else does: a tuple refused on
\* arrival went back in time or lies before the first window; a tuple delivered
\* or dropped outside its window needs that, or a gap in the stream, or a queue
\* that was full; and a subtraction of DT_NOBEGIN needs a stream that is served
\* before its first tuple.  The assertion of triage_get_summaries holds.
FailsOnlyWhen ==
  /\ q.err = "enqueue" => why \cap {"late", "early"} # {}
  /\ q.err \in {"drop", "dequeue"} => why \cap {"late", "early", "gap", "full"} # {}
  /\ q.err = "subtract" => "idle" \in why
  /\ q.err # "assert"

\* "contain all information about the current summary window": a summary holds
\* tuples of its window only, none of that window is left in the queue or goes to
\* a later summary, and each window is summarised once, in order.
SummariesComplete ==
  /\ \A i \in 1 .. Len(q.sums) - 1 : q.sums[i].epoch < q.sums[i + 1].epoch
  /\ \A i \in 1 .. Len(q.sums) :
       /\ \A t \in q.sums[i].kept \cup q.sums[i].dropped : window_no(q.start, t.ts) = q.sums[i].epoch
       /\ Running /\ "late" \notin why
            => \A t \in Queued \cup q.keep \cup q.drop : window_no(q.start, t.ts) # q.sums[i].epoch

\* The query engine hears of a window before it gets a tuple of the next one,
\* although all its tuples may be shed: when the current window is used up and a
\* later one is queued, the engine has got a tuple of the current window, if only
\* the punctuation that triage_cleanup_expired_tuples puts in its place.  The
\* exception is a full queue, where drop_oldest may take the last tuple of the
\* window, a punctuation included, and leaves nothing for it.
ShedWindowAnnounced ==
  Running /\ ~is_empty(q) /\ q.deq = q.nextEpoch /\ q.drop # {} /\ "full" \notin why
    => q.keep # {}

\* The engine gets the tuples of a stream that is in order in the order of their
\* timestamps, the punctuation the queue puts in front of a later window included.
SentInOrder ==
  [][lastSent # NoBegin /\ "late" \notin why' => lastSent' >= lastSent]_vars

\* Closing a stream ends: the drain loop empties the queue and the last summaries
\* go out, or an error ends the process, or the query engine has stopped reading
\* for good.  In the last case the loop, and with it the whole clearinghouse,
\* waits for ever: the loop itself never fails to make progress.
DrainEnds == phase = "draining" ~> (phase = "closed" \/ ~Running \/ []~room)

\* A tuple is in the queue or in exactly one of the summaries, kept or dropped,
\* and none is lost, whatever is dropped.
Accounted ==
  /\ TypeOK
  /\ Running /\ ~DisableKept => \A n \in 1 .. arrived :
     LET Holds(set) == \E t \in set : t.n = n
     IN  1 = Cardinality({i \in 1 .. Len(q.sums) : Holds(q.sums[i].kept)})
             + Cardinality({i \in 1 .. Len(q.sums) : Holds(q.sums[i].dropped)})
             + Cardinality({i \in 1 .. 3 : Holds(<<Queued, q.keep, q.drop>>[i])})

\* "to ensure that every tuple is in a window" (wrapch.c, of the start of the
\* summary windows): a queued tuple has a window.
EveryTupleInWindow == \A t \in Queued : window_no(q.start, t.ts) >= 1
=============================================================================
