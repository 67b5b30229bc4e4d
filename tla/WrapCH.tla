------------------------------ MODULE WrapCH -------------------------------
(***************************************************************************)
(* The wrapper clearinghouse (telegraphcq/wrapch.c): one process that      *)
(* polls the connections of all stream sources, calls their wrappers,      *)
(* sends the tuples on to an ingress queue or to the archive, and takes    *)
(* commands of the backend from a control queue.  It uses the ingress      *)
(* queue table of IngresQ, whose variables it extends.                     *)
(*                                                                         *)
(* A step of the clearinghouse is one control queue entry, one poll(2), or *)
(* one call of processConnection.  conn_list[0], the accepting socket, is  *)
(* not part of `table'.  Streams with a triage queue are in TriageQ.       *)
(***************************************************************************)
EXTENDS IngresQ, Sequences, Functions

CONSTANTS PullNames,      \* streams with a pull wrapper; sources push the others
          ArchivedNames,  \* streams of type ST_ARCHIVED
          GenNames,       \* streams whose sources leave the timestamp to the wrapper
          SleepNames,     \* streams whose wrapper sleeps before it hands over a tuple
          MaxConn,        \* MAX_CONN
          ArraySize,      \* ARCHIVED_TUPARRAYSIZE
          QueueCap,       \* elements an ingress queue has room for
          ProbeCap,       \* elements a queue of pending probes has room for
          ControlCap,     \* elements the control queue has room for
          CheckIter,      \* check_control_q_iter
          MaxTuples,      \* bound: tuples a source pushes
          MaxAnswers      \* bound: tuples a pull source answers with

ASSUME WrapConstants ==
  /\ UNION {PullNames, ArchivedNames, GenNames, SleepNames} \subseteq Names
  /\ {MaxConn, ArraySize, QueueCap, ProbeCap, ControlCap, CheckIter} \subseteq Nat \ {0}
  /\ {MaxTuples, MaxAnswers} \subseteq Nat

VARIABLES table,     \* conn_list[1 .. next_free - 1]
          st,        \* the aioconn of each connection and its wrapperstate
          level,     \* elements in each ingress queue
          controlQ,  \* the wrap control queue
          pc,        \* where the process is in its main loop
          active     \* the queue index of the backend's scan of each stream

wvars == <<vars, table, st, level, controlQ, pc, active>>

NotScanned == -2
NoTuple == [kind |-> "none", n |-> 0]
Data(n) == [kind |-> "data", n |-> n]     \* the n-th tuple of the source
EndOfAnswer == [kind |-> "probe", n |-> 0]  \* the probe tuple, back to the backend

(* createConn: a connection that waits for its wrapper's init.  made and sent
   count its tuples as they leave the wrapper and the clearinghouse; begun says
   that udfstate is allocated, fd that the connection has a socket. *)
NewConn(n, pull) ==
  [life |-> "open", name |-> n, pull |-> pull, mode |-> "INIT", begun |-> FALSE, fd |-> ~pull,
   tuple |-> NoTuple, error |-> FALSE, asleep |-> FALSE, timer |-> FALSE, gen |-> FALSE,
   buffered |-> FALSE, probe |-> FALSE, probes |-> 0,
   buf |-> <<>>, head |-> 0, force |-> FALSE, made |-> 0, sent |-> 0, lost |-> 0]

Unused == [NewConn(NULL, FALSE) EXCEPT !.life = "unused"]

Limit(s) == IF s.pull THEN MaxAnswers ELSE MaxTuples

Archived(s) == s.name \in ArchivedNames

-----------------------------------------------------------------------------
(* What happens inside one call is computed on w, the connection with q, the
   elements in its ingress queue, and the results of the wrapper function. *)
Work(c) ==
  LET new == [q |-> IF conn[c].idx \in Slots THEN level[conn[c].idx] ELSE 0,
              ret |-> TRUE, hasTuple |-> FALSE, doneWithProbe |-> FALSE, grew |-> FALSE]
  IN [f \in DOMAIN new \cup DOMAIN st[c] |-> IF f \in DOMAIN new THEN new[f] ELSE st[c][f]]

Conn(w) == [f \in DOMAIN Unused |-> w[f]]

(* Tuples ts leave the clearinghouse, in this order. *)
Emit(w, ts) ==
  LET data == {i \in DOMAIN ts : ts[i].kind = "data"}
      last == CHOOSE i \in data : \A j \in data : j <= i
  IN IF data = {} THEN w ELSE [w EXCEPT !.sent = ts[last].n]

(* The batch of tuples held back for the archive: tupArray[head .. tail - 1],
   where tail is Len(buf). *)
KeepsHead(w) ==                       \* mutant: a partial flush leaves head
  LET full == Len(w.buf) = ArraySize
      flushed == IF ~(full \/ w.force) THEN w
                 ELSE [Emit(w, SubSeq(w.buf, w.head + 1, Len(w.buf))) EXCEPT
                         !.buf = IF full THEN <<>> ELSE @]
  IN IF w.tuple = NoTuple THEN flushed
     ELSE [flushed EXCEPT !.buf = Append(@, w.tuple), !.tuple = NoTuple]

processTupleArchived(w) ==
  LET full == Len(w.buf) = ArraySize
      flushed == IF ~(full \/ w.force) THEN w
                 ELSE [Emit(w, SubSeq(w.buf, w.head + 1, Len(w.buf))) EXCEPT
                         !.buf = IF full THEN <<>> ELSE @,
                         !.head = IF full THEN 0 ELSE Len(w.buf)]
  IN IF w.tuple = NoTuple THEN flushed
     ELSE [flushed EXCEPT !.buf = Append(@, w.tuple), !.tuple = NoTuple]

enqueue_tuple_direct(w) ==
  IF w.q = QueueCap THEN w
  ELSE [Emit(w, <<w.tuple>>) EXCEPT !.q = @ + 1, !.tuple = NoTuple]

(* It succeeded if it leaves no tuple. *)
processTuple(w) == IF Archived(w) THEN processTupleArchived(w) ELSE enqueue_tuple_direct(w)

flush_stream(s) == IF Archived(s) THEN processTupleArchived([s EXCEPT !.force = TRUE]) ELSE s

-----------------------------------------------------------------------------
(* Wrapper functions, as sets of what they may return: csv.c, the sleep of
   quikwrap.c, and the rescan function of a pull wrapper (web.c). *)
Fail(w) == [w EXCEPT !.ret = FALSE, !.error = TRUE]

FailsSilently(w) ==                   \* mutant: a failed init is not recorded
  LET ok == [w EXCEPT !.begun = TRUE, !.mode = IF w.pull THEN "RESCAN" ELSE "NEXT"]
  IN {[ok EXCEPT !.fd = TRUE], [w EXCEPT !.ret = FALSE]}

csv_init(w) ==
  LET ok == [w EXCEPT !.begun = TRUE, !.mode = IF w.pull THEN "RESCAN" ELSE "NEXT"]
  IN {[ok EXCEPT !.fd = TRUE], Fail(w)} \cup (IF w.pull THEN {Fail(ok)} ELSE {})

web_rescan(w) ==
  IF ~w.probe /\ w.probes = 0 THEN {w}
  ELSE LET p == IF w.probe THEN w ELSE [w EXCEPT !.probe = TRUE, !.probes = @ - 1]
       IN {[p EXCEPT !.mode = "NEXT"], Fail(p)}

(* A timeout yields a punctuation, and with it the next timeout, or the tuple a
   sleeping wrapper held back.  Otherwise the wrapper reads from its socket:
   the end, an error, or bytes, in which it looks for one line. *)
csv_next(w, timeout) ==
  LET lines == {[w EXCEPT !.buffered = b] : b \in BOOLEAN}
      gen == w.name \in GenNames
      tuples == {[l EXCEPT !.hasTuple = TRUE, !.gen = gen, !.timer = @ \/ (gen /\ ~w.gen)] :
                   l \in lines}
      more == [w EXCEPT !.buffered = TRUE]
  IN IF timeout THEN {[w EXCEPT !.hasTuple = TRUE, !.timer = w.gen]}
     ELSE UNION {lines, {Fail(w), Fail(more)},
                 IF w.buffered THEN {} ELSE {[w EXCEPT !.mode = "DONE"]},
                 IF w.pull THEN {[more EXCEPT !.doneWithProbe = TRUE]} ELSE {},
                 IF w.made = Limit(w) THEN {}
                 ELSE IF w.name \notin SleepNames THEN tuples
                 ELSE {[w EXCEPT !.asleep = TRUE, !.timer = TRUE]}}

(* Without the private state that init allocates, done reads through NULL. *)
csv_done(w) == {[w EXCEPT !.mode = IF w.begun THEN "END" ELSE "CRASH"]}

WrapperCall(w, timeout) ==
  CASE w.mode = "INIT"   -> csv_init(w)
    [] w.mode = "RESCAN" -> web_rescan(w)
    [] w.mode = "NEXT"   -> csv_next(w, timeout)
    [] w.mode = "DONE"   -> csv_done(w)

(* The part of processConnection after the call: a failure, whose report takes
   a place in the ingress queue; the new tuple; the end of a probe's answer. *)
Failed(w) ==
  IF w.ret THEN w
  ELSE IF ~Archived(w) THEN [w EXCEPT !.q = IF @ < QueueCap THEN @ + 1 ELSE @]
  ELSE IF w.buffered THEN [w EXCEPT !.mode = "NEXT"]
  ELSE [w EXCEPT !.doneWithProbe = TRUE, !.mode = "RESCAN"]

TakeTuple(w) ==
  IF w.hasTuple THEN [w EXCEPT !.made = @ + 1, !.tuple = Data(w.made + 1)] ELSE w

AnswersOnly(w) ==                     \* mutant: stays in MODE_NEXT after an answer
  IF ~w.doneWithProbe \/ ~w.probe THEN w
  ELSE processTuple([w EXCEPT !.tuple = EndOfAnswer, !.probe = FALSE])

EndProbe(w) ==
  LET rescan == [w EXCEPT !.mode = IF @ = "DONE" THEN @ ELSE "RESCAN"]
  IN IF ~w.doneWithProbe THEN w
     ELSE IF ~w.probe THEN rescan
     ELSE processTuple([rescan EXCEPT !.tuple = EndOfAnswer, !.probe = FALSE])

SendTuple(w) ==
  IF w.tuple = NoTuple THEN w
  ELSE LET x == processTuple(w) IN [x EXCEPT !.grew = (x.tuple = NoTuple)]

IgnoresDone(w, timeout) ==            \* mutant: a failed connection is never called
  LET x == IF w.tuple = NoTuple THEN w ELSE processTuple(w)
  IN IF w.error THEN {w}
     ELSE IF x.tuple # NoTuple THEN {x}
     ELSE {SendTuple(EndProbe(TakeTuple(Failed(y)))) : y \in WrapperCall(x, timeout)}

processConnection(w, timeout) ==
  LET x == IF w.tuple = NoTuple THEN w ELSE processTuple(w)
  IN IF w.error /\ w.mode # "DONE" THEN {w}
     ELSE IF x.tuple # NoTuple THEN {x}
     ELSE {SendTuple(EndProbe(TakeTuple(Failed(y)))) : y \in WrapperCall(x, timeout)}

-----------------------------------------------------------------------------
(* addConnToList, where next_free is Len(table) + 1.  The test lets the table use
   slot MAX_CONN, one past its arrays; what that overwrites is not modelled. *)
TableFull == Len(table) + 1 > MaxConn

Free == {c \in Conns : st[c].life = "unused"}
Fresh == CHOOSE c \in Free : TRUE
Spare == Cardinality(Free) - Cardinality({i \in DOMAIN controlQ : controlQ[i].cmd = "STARTUP"})

DropsLast(i) ==                       \* mutant: the hole is not filled
  table' = SubSeq(table, 1, Len(table) - 1)

removeConnFromListByIndex(i) ==
  table' = [j \in 1 .. (Len(table) - 1) |-> IF j = i THEN table[Len(table)] ELSE table[j]]

(* The queue of w gets its new length; a queue nobody holds is gone. *)
SetLevel(c, w) ==
  level' = [i \in Slots |-> IF init'[i] = NULL THEN 0 ELSE IF i = conn[c].idx THEN w.q ELSE level[i]]

(* What deleteConn leaves of a connection. *)
ClosesWithoutFlush(w) ==              \* mutant: forceflush is not set
  LET x == IF Archived(w) THEN processTupleArchived(w) ELSE w
  IN [Unused EXCEPT !.life = "gone", !.lost = x.made - x.sent]

Gone(w) ==
  LET x == flush_stream(w)
  IN [Unused EXCEPT !.life = "gone", !.lost = x.made - x.sent]

(* The rest of deleteConn.  The end-of-stream mark finds room or is given up. *)
send_end_and_close_q(c, w) ==
  IF conn[c].idx \in Slots
  THEN /\ CloseConn(c)
       /\ \E q \in {w.q, w.q + 1} : q <= QueueCap /\ SetLevel(c, [w EXCEPT !.q = q])
  ELSE UNCHANGED <<vars, level>>

(* createConn and the set-up of its stream. *)
CreateConn(c, n) ==
  /\ IF n \in ArchivedNames THEN UNCHANGED vars
     ELSE OpenConn(c) /\ conn'[c].name = n
  /\ UNCHANGED level

-----------------------------------------------------------------------------
(* Commands.  A stream of the model has one wrapper. *)
STREAM_STARTUP(n) ==
  /\ CreateConn(Fresh, n)
  /\ st' = [st EXCEPT ![Fresh] =
              [NewConn(n, TRUE) EXCEPT !.life = IF TableFull THEN "leaked" ELSE "open"]]
  /\ table' = IF TableFull THEN table ELSE Append(table, Fresh)

STREAM_SHUTDOWN(n) ==
  /\ st' = [c \in Conns |-> IF c \in Range(table) /\ st[c].pull /\ st[c].name = n
                            THEN [st[c] EXCEPT !.mode = "DONE"] ELSE st[c]]
  /\ UNCHANGED <<vars, level, table>>

(* The probe goes to the first connection of the stream, if its queue of
   pending probes has room. *)
STREAM_PROBE(n) ==
  LET found == {i \in DOMAIN table : st[table[i]].pull /\ st[table[i]].name = n}
      c == table[CHOOSE i \in found : \A j \in found : i <= j]
  IN /\ IF found = {} THEN UNCHANGED st
        ELSE st' = [st EXCEPT ![c].probes = IF @ < ProbeCap THEN @ + 1 ELSE @]
     /\ UNCHANGED <<vars, level, table>>

Goto(at) == pc' = [pc EXCEPT !.at = at, !.run = {}, !.polled = <<>>, !.got = FALSE]

(* AIORead returns ret, with the connections s, and wrapch_main_loop ends its
   round: it flushes the archive buffers if FLUSHINTERVAL has passed, and every
   CheckIter-th round goes back to the control queue whatever ret is. *)
Flushed(s) == [c \in Conns |-> IF c \in Range(table') THEN flush_stream(s[c]) ELSE s[c]]

StaysInLoop(ret, s) ==                \* mutant: no periodic look at the control queue
  /\ st' \in {s, Flushed(s)}
  /\ pc' = [pc EXCEPT !.run = {}, !.polled = <<>>, !.got = FALSE,
              !.at = IF ret = "OK" THEN "poll" ELSE "control"]

EndRound(ret, s) ==
  LET inum == (pc.inum + 1) % CheckIter
  IN /\ st' \in {s, Flushed(s)}
     /\ pc' = [pc EXCEPT !.run = {}, !.polled = <<>>, !.got = FALSE, !.inum = inum,
                 !.at = IF ret = "OK" /\ inum # 0 THEN "poll" ELSE "control"]

(* One entry per round; an empty queue does not hold up the poll. *)
processWCHControlQ ==
  /\ pc.at = "control" /\ controlQ # <<>>
  /\ controlQ' = Tail(controlQ)
  /\ LET e == Head(controlQ)
     IN \/ e.cmd = "STARTUP" /\ STREAM_STARTUP(e.name) /\ Goto("poll")
        \/ e.cmd = "STREAM_SHUTDOWN" /\ STREAM_SHUTDOWN(e.name) /\ Goto("poll")
        \/ e.cmd = "PROBE" /\ STREAM_PROBE(e.name) /\ Goto("poll")
        \/ e.cmd = "SHUTDOWN" /\ Goto("exit") /\ UNCHANGED <<vars, table, st, level>>
  /\ UNCHANGED active

KeepsRunning(i, w) ==                 \* mutant: AIORead goes on after a removal
  /\ send_end_and_close_q(table[i], w)
  /\ removeConnFromListByIndex(i)
  /\ st' = [st EXCEPT ![table[i]] = Gone(w)]
  /\ pc' = [pc EXCEPT !.run = @ \ {i}]

deleteConnByIndex(i, w) ==
  /\ send_end_and_close_q(table[i], w)
  /\ removeConnFromListByIndex(i)
  /\ EndRound("METADATA_CHANGED", [st EXCEPT ![table[i]] = Gone(w)])

(* AIORead, after poll(2).  A connection in error is deleted, or else a new
   connection accepted, and the round ends; otherwise pc.run gets the indexes
   of the connections to run.  poll(2) reports no input for a sleeper.  A signal
   that interrupts it only ends the round, and is left out. *)
checkForConnectionErrors ==
  \E i \in DOMAIN table :
    /\ st[table[i]].fd
    /\ deleteConnByIndex(i, Work(table[i]))

checkForNewConnections ==
  /\ Spare > 0
  /\ \/ \E n \in Names \ PullNames :
          /\ ~TableFull
          /\ CreateConn(Fresh, n)
          /\ table' = Append(table, Fresh)
          /\ EndRound("METADATA_CHANGED", [st EXCEPT ![Fresh] = NewConn(n, FALSE)])
     \/ /\ UNCHANGED <<vars, level, table>>   \* no room, no such stream or wrapper
        /\ EndRound("METADATA_CHANGED", [st EXCEPT ![Fresh].life = "gone"])

RunsReadableOnly ==                   \* mutant: other modes wait for input too
  \E in \in SUBSET {i \in DOMAIN table : st[table[i]].fd /\ ~st[table[i]].asleep} :
    /\ pc' = [pc EXCEPT !.at = "run", !.polled = table, !.got = in # {},
                !.run = {i \in DOMAIN table : i \in in \/ st[table[i]].mode \in {"INIT", "DONE"}}]
    /\ UNCHANGED <<vars, table, st, level>>

StartRun ==
  \E in \in SUBSET {i \in DOMAIN table : st[table[i]].fd /\ ~st[table[i]].asleep} :
    /\ pc' = [pc EXCEPT !.at = "run", !.polled = table, !.got = in # {},
                !.run = {i \in DOMAIN table : \/ i \in in \/ st[table[i]].buffered
                                              \/ st[table[i]].mode # "NEXT"}]
    /\ UNCHANGED <<vars, table, st, level>>

AIORead_poll ==
  /\ pc.at = "poll" \/ (pc.at = "control" /\ controlQ = <<>>)
  /\ checkForConnectionErrors \/ checkForNewConnections \/ StartRun
  /\ UNCHANGED <<controlQ, active>>

(* One call of processConnection for the lowest index left in pc.run.  Without a
   timeout, a wrapper that has made a tuple is called once more. *)
First == CHOOSE i \in pc.run : \A j \in pc.run : i <= j

Process(w, timeout) ==
  LET c == table[First]
      again(x) == ~timeout /\ x.grew /\ ~x.asleep /\ x.mode = "NEXT"
  IN \E x \in processConnection(w, timeout) :
       IF x.mode = "CRASH" THEN Goto("crashed") /\ UNCHANGED <<vars, table, st, level>>
       ELSE IF x.mode = "END"
       THEN deleteConnByIndex(First, x)
       ELSE /\ st' = [st EXCEPT ![c] = Conn(x)]
            /\ UNCHANGED <<vars, table>> /\ SetLevel(c, x)
            /\ pc' = [pc EXCEPT !.run = IF again(x) THEN @ ELSE @ \ {First}, !.got = @ \/ timeout]

AIORead_run ==
  /\ pc.at = "run" /\ pc.run # {}
  /\ Process(Work(table[First]), FALSE)
  /\ UNCHANGED <<controlQ, active>>

(* Some of the timeouts that are set have expired. *)
AIORead_timeouts ==
  /\ pc.at = "run" /\ pc.run = {}
  /\ \E late \in SUBSET {i \in DOMAIN table : st[table[i]].timer /\ st[table[i]].made < Limit(st[table[i]])} :
       IF late = {} THEN UNCHANGED table /\ EndRound(IF pc.got THEN "OK" ELSE "NO_DATA", st)
       ELSE pc' = [pc EXCEPT !.at = "wake", !.run = late] /\ UNCHANGED <<table, st>>
  /\ UNCHANGED <<vars, level, controlQ, active>>

AIORead_wake ==
  /\ pc.at = "wake"
  /\ IF pc.run = {}
     THEN UNCHANGED <<vars, table, level>> /\ EndRound("OK", st)
     ELSE Process([Work(table[First]) EXCEPT !.asleep = FALSE, !.timer = FALSE], TRUE)
  /\ UNCHANGED <<controlQ, active>>

doShutdown ==
  /\ pc.at = "exit"
  /\ IF table = <<>> THEN Goto("exited") /\ UNCHANGED <<vars, table, st, level>>
     ELSE LET c == Head(table)
          IN /\ send_end_and_close_q(c, Work(c))
             /\ st' = [st EXCEPT ![c] = Gone(Work(c))]
             /\ table' = Tail(table) /\ UNCHANGED pc
  /\ UNCHANGED <<controlQ, active>>

WrapCHStep ==
  \/ processWCHControlQ \/ AIORead_poll \/ AIORead_run \/ AIORead_timeouts
  \/ AIORead_wake \/ doShutdown

-----------------------------------------------------------------------------
(* The backend.  NotifyWCH does not wait: a command that finds the control
   queue full is lost.  Commands for a stream without a pull wrapper, which the
   clearinghouse drops, are left out. *)
NotifyWCH(e) ==
  controlQ' = IF Len(controlQ) < ControlCap /\ e.name \in PullNames
              THEN Append(controlQ, e) ELSE controlQ

Command(cmd, n) == [cmd |-> cmd, name |-> n]

(* ExecInitStrmScan takes the ingress queue; the scan module starts the
   stream's wrapper. *)
ExecInitStrmScan(n) ==
  /\ n \in PullNames \cup (Names \ ArchivedNames)
  /\ active[n] = NotScanned /\ Spare > 0
  /\ active' = [active EXCEPT ![n] = IF n \in ArchivedNames THEN NoIndex ELSE AllocIdx(n)]
  /\ IF n \in ArchivedNames THEN UNCHANGED vars ELSE StartScan(n)
  /\ NotifyWCH(Command("STARTUP", n))
  /\ UNCHANGED <<table, st, level, pc>>

ExecReScanStrmScan(n) ==
  /\ active[n] # NotScanned /\ n \in PullNames
  /\ NotifyWCH(Command("PROBE", n))
  /\ UNCHANGED <<vars, table, st, level, pc, active>>

EndScan(n) ==
  /\ active[n] # NotScanned
  /\ active' = [active EXCEPT ![n] = NotScanned]
  /\ NotifyWCH(Command("STREAM_SHUTDOWN", n))
  /\ UNCHANGED <<vars, table, st, level, pc>>

(* The scan takes an element of its queue. *)
Scanned(i) == \E n \in Names : active[n] = i

Dequeue(i) ==
  /\ level[i] > 0 /\ Scanned(i)
  /\ level' = [level EXCEPT ![i] = @ - 1]
  /\ UNCHANGED <<vars, table, st, controlQ, pc, active>>

(* The postmaster's request to stop, which a full queue loses (pmdie). *)
RequestShutdown ==
  /\ Len(controlQ) < ControlCap
  /\ ~\E i \in DOMAIN controlQ : controlQ[i].cmd = "SHUTDOWN"
  /\ pc.at \notin {"exit", "exited", "crashed"}
  /\ controlQ' = Append(controlQ, Command("SHUTDOWN", NULL))
  /\ UNCHANGED <<vars, table, st, level, pc, active>>

Backend ==
  \/ \E n \in Names : ExecInitStrmScan(n) \/ ExecReScanStrmScan(n) \/ EndScan(n)
  \/ \E i \in Slots : Dequeue(i)
  \/ RequestShutdown

WInit ==
  /\ Init
  /\ table = <<>> /\ st = [c \in Conns |-> Unused] /\ level = [i \in Slots |-> 0]
  /\ controlQ = <<>> /\ active = [n \in Names |-> NotScanned]
  /\ pc = [at |-> "control", run |-> {}, polled |-> <<>>, got |-> FALSE, inum |-> 0]

WNext == WrapCHStep \/ Backend

WSpec == WInit /\ [][WNext]_wvars

(* Fairness.  The clearinghouse does not block (poll(2) has a timeout) and takes
   steps until it ends; each changes pc or st, and no step of the backend does.
   A scan reads its queue.  Both are weak fairness, spelled out for TLC. *)
FairSpec ==
  /\ WSpec
  /\ []<>(pc.at \in {"exited", "crashed"}) \/ []<><<TRUE>>_<<pc, st>>
  /\ \A i \in Slots : \/ []<>(level[i] = 0 \/ ~Scanned(i))
                       \/ []<><<level'[i] < level[i] /\ UNCHANGED <<pc, st>>>>_level

-----------------------------------------------------------------------------
Open(c) == st[c].life = "open"
Running == pc.at \in {"control", "poll", "run", "wake"}

(* Every variable has its type; the table never grows beyond the slot that
   addConnToList still lets it use, and a batch for the archive never beyond
   its array.  A wrapper that sleeps has a timeout that will wake it, as
   setupEventMasks asserts. *)
WTypeOK ==
  /\ TypeOK
  /\ table \in UNION {[1 .. n -> Conns] : n \in 0 .. MaxConn}
  /\ level \in [Slots -> 0 .. QueueCap] /\ active \in [Names -> Slots \cup {NoIndex, NotScanned}]
  /\ pc.at \in {"control", "poll", "run", "wake", "exit", "exited", "crashed"}
  /\ \A c \in Conns : /\ st[c].mode \in {"INIT", "RESCAN", "NEXT", "DONE"}
                      /\ st[c].probes \in 0 .. ProbeCap
                      /\ st[c].head <= Len(st[c].buf) /\ Len(st[c].buf) <= ArraySize
                      /\ st[c].life = "open" /\ st[c].asleep => st[c].timer

(* The tuples of s the clearinghouse still holds: the batch for the archive and
   the tuple that did not fit the ingress queue. *)
Held(s) == Append(SubSeq(s.buf, s.head + 1, Len(s.buf)), s.tuple)

(* Every tuple a wrapper handed over was sent on, in its order and once, or is
   still held: retries of a full ingress queue (processConnection), batches,
   forced flushes and the reset of head and tail (processTupleArchived) neither
   lose, repeat nor reorder one. *)
NoTupleLost ==
  \A c \in Conns : Open(c) =>
    LET h == Held(st[c])
        data == {i \in DOMAIN h : h[i].kind = "data"}
    IN /\ {h[i].n : i \in data} = (st[c].sent + 1) .. st[c].made
       /\ \A i, j \in data : i < j => h[i].n < h[j].n

(* A connection loses no tuple when it is deleted (deleteConn), unless its
   socket failed or the process shuts down while a tuple waits for room in the
   ingress queue.  In particular the archive gets the last batch. *)
NothingLostAtClose ==
  [][\A c \in Conns :
       Open(c) /\ st'[c].life = "gone" =>
         \/ st'[c].lost = 0
         \/ pc.at \notin {"run", "wake"} /\ ~Archived(st[c]) /\ st[c].tuple.kind = "data"]_wvars

(* next of a pull wrapper is called only between a probe and the end of its
   answer, so it always has bindings to echo (getBindingValueByStreamCol reads
   probetuple): every way back to MODE_NEXT goes through a rescan that found a
   probe. *)
NextHasProbe ==
  \A c \in Conns : Open(c) /\ st[c].pull /\ st[c].mode = "NEXT" => st[c].probe \/ st[c].error

(* rescan, next and done of a wrapper find the private state that its init
   allocates: a connection that has left MODE_INIT without it is in error and is
   not called again.  The one exception ends the process: STREAM_SHUTDOWN sets
   MODE_DONE of a pull wrapper whose init has not run or has failed, and
   processConnection calls done even of a connection in error.  Nothing else
   makes the process fail. *)
InitBeforeUse ==
  LET overtaken == {c \in Conns : Open(c) /\ st[c].pull /\ st[c].mode = "DONE" /\ ~st[c].begun}
  IN /\ \A c \in Conns \ overtaken :
          Open(c) /\ ~st[c].begun => st[c].mode = "INIT" \/ (st[c].error /\ st[c].mode # "DONE")
     /\ pc.at = "crashed" => overtaken # {}

(* The results of poll(2) are used only while the table they index is
   unchanged, as checkForConnectionErrors and checkForNewConnections assume:
   whoever removes or adds a connection ends the round. *)
PollResultsCurrent == pc.at \in {"run", "wake"} => pc.polled = table /\ pc.run \subseteq DOMAIN table

Holds(c) == st[c].life \in {"open", "leaked"} /\ ~Archived(st[c])

(* The table lists each open connection once.  Every open connection to a stream
   that is not archived has its place in the table of ingress queues, and a
   queue is held by these only, and by those addConnToList refused: deleteConn
   gives back every queue, so an orderly shutdown frees the queues of all others. *)
TableIsOpenConns ==
  /\ WTypeOK
  /\ \A i, j \in DOMAIN table : table[i] = table[j] => i = j
  /\ \A c \in Conns : /\ Open(c) <=> c \in Range(table)
                      /\ Holds(c) => conn[c].name = st[c].name
                      /\ conn[c].idx \in Slots => Holds(c)

(* A request to shut down is served, however much data arrives and whatever
   the wrappers do, unless the process fails first. *)
ShutdownServed ==
  (\E i \in DOMAIN controlQ : controlQ[i].cmd = "SHUTDOWN") ~> pc.at \in {"exited", "crashed"}

(* A connection whose wrapper is done is closed, unless its last tuple waits
   for room in a queue that no scan reads any more. *)
DoneCloses ==
  \A c \in Conns :
    Open(c) /\ st[c].mode = "DONE" ~>
      \/ ~Open(c) \/ ~Running
      \/ st[c].tuple # NoTuple /\ conn[c].idx \in Slots /\ ~Scanned(conn[c].idx)

(* A tuple that found its ingress queue full is sent once the scan makes room.
   The exceptions: the connection ended or failed, no scan reads the queue, or
   its wrapper waits for input (MODE_NEXT without buffered data), because then
   AIORead calls processConnection, the only place that tries again, only when
   the source sends more.  The end of an answer meets none of the last kind. *)
HeldTupleSent ==
  \A c \in Conns :
    Open(c) /\ st[c].tuple # NoTuple ~>
      \/ st[c].tuple = NoTuple \/ ~Open(c) \/ ~Running \/ st[c].error
      \/ ~Scanned(conn[c].idx)
      \/ st[c].mode = "NEXT" /\ ~st[c].buffered

(* A wrapper that generates the timestamps of its stream keeps asking for the
   timeout at which it sends the next punctuation. *)
PunctuationKeepsComing ==
  \A c \in Conns : Open(c) /\ st[c].gen /\ ~st[c].error /\ st[c].mode = "NEXT" => st[c].timer

=============================================================================
