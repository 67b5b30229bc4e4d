---------------------------- MODULE FluxIngress ----------------------------
(***************************************************************************)
(* A partitioned and replicated dataflow (Flux) and its fail-over.  One    *)
(* Ingress (nodeFluxIngress.c) routes tuples to partitions and sends each  *)
(* to two copies: the primary of partition p runs on machine p and its     *)
(* secondary on the next machine.  When a machine fails, Ingress connects  *)
(* its two copies to a standby machine, and the surviving copies           *)
(* (nodeSegCons.c) move their state there through the state movers         *)
(* (nodeStateMover.c), while the buffer (module TSB) keeps what is not     *)
(* acknowledged.                                                           *)
(*                                                                         *)
(* A consumer is named by its machine and role.  The scheduler of a        *)
(* machine (nodeFSched.c) runs the state mover, the primary and the        *)
(* secondary in turn.                                                      *)
(***************************************************************************)
EXTENDS TSB, Sequences, SequencesExt

CONSTANTS N,         \* machines with a copy (ddeclust); the standby is machine N
          TsbSize,   \* entries of the buffer besides those reserved
          DataCap,   \* tuples and markers in transit on a connection
          AckCap,    \* acknowledgements in transit on a connection
          Routed,    \* partitions the input has tuples for
          Mortal     \* machines that may fail; one fails at most

ASSUME FluxConstants ==
  /\ N \in Nat \ 0 .. 2 /\ TsbSize \in Nat /\ DataCap \in Nat \ {0} /\ AckCap \in Nat \ {0}
  /\ Routed \subseteq 0 .. (N - 1) /\ Mortal \subseteq 0 .. (N - 1)

VARIABLES tsb, free, \* the buffer: its partitions and the number of free entries
          fmasks,    \* who must be done with an entry of a partition before it goes
          ing,       \* Ingress: mode, last sequence number and the machine that failed
          conn,      \* its connection for a partition and role: status, marker, consumer
          data, acks,\* in transit to and from a consumer
          cons,      \* SegCons
          mover,     \* StateMover of a machine
          wire,      \* in transit from one state mover to another
          turn,      \* whom FSched runs next on the standby machine
          up,        \* machines that run
          asleep,    \* a process sleeps for debugging, or raised an error
          accepted   \* history: the tuples put into the buffer, per partition

ingress == <<tsb, free, fmasks, ing, conn, accepted>>
vars == <<ingress, data, acks, cons, mover, wire, turn, up, asleep>>

Parts == 0 .. (N - 1)
Machines == 0 .. N
Spare == N
None == -1
ROTATE_R(m) == (m + 1) % N
ROTATE_L(m) == (m + N - 1) % N
ACK_FCONSSYNC == -101
Conns == Parts \X Roles
Consumers == Machines \X Roles

Tuple(n) == [type |-> "HEAPTUPLE", val |-> n]
FPRODSYNC(m) == [type |-> "FPRODSYNC", val |-> m]
EmptyQueue == [type |-> "EMPTY", val |-> 0]
NullQueue == [type |-> "NULL", val |-> 0]
Page(n) == [type |-> "PAGE", val |-> n]
NoQueue == [type |-> "NONE", val |-> 0]
NoReq == [role |-> "NONE", mach |-> None, send |-> FALSE]

NewCopy(c) ==
  [standby |-> c[1] = Spare, mode |-> "NORMAL", mach |-> None, ready |-> FALSE,
   pending |-> 0, moved |-> 0, state |-> <<>>]

Init ==
  /\ tsb = [p \in Parts |-> EmptyPart] /\ free = TsbSize
  /\ fmasks = [p \in Parts |-> AllMasks]
  /\ ing = [mode |-> "NORMAL", seq |-> 0, failed |-> None]
  /\ conn = [k \in Conns |->
              [status |-> "NORMAL", info |-> None,
               to |-> <<IF k[2] = PRIMARY THEN k[1] ELSE ROTATE_R(k[1]), k[2]>>]]
  /\ data = [c \in Consumers |-> <<>>] /\ acks = [c \in Consumers |-> <<>>]
  /\ cons = [c \in Consumers |-> NewCopy(c)]
  /\ mover = [m \in Machines |->
               [requests |-> <<>>, curr |-> NoReq, mode |-> "NEW", comm |-> NoQueue, bufs |-> <<>>]]
  /\ wire = [l \in Machines \X Machines |-> <<>>]
  /\ turn = "MOVER"
  /\ up = Machines /\ asleep = FALSE
  /\ accepted = [p \in Parts |-> <<>>]

-----------------------------------------------------------------------------
(* Ingress *)

(* do_fail_over: the standby takes the place of the failed machine, whose
   connections are closed.  Both copies of a partition are told whom to trade state with. *)
do_fail_over ==
  LET f  == ing.failed
      pp == f                         \* f_part_p
      ps == ROTATE_L(f)               \* f_part_s
      a  == ack_all_TSB(tsb[pp], free, PRIMARY, fmasks[pp])
      b  == ack_all_TSB(tsb[ps], a.free, SECONDARY, fmasks[ps])
  IN  /\ conn' = [conn EXCEPT
           ![<<pp, PRIMARY>>]   = [status |-> "RECOVER", info |-> ROTATE_R(f), to |-> <<Spare, PRIMARY>>],
           ![<<ps, SECONDARY>>] = [status |-> "RECOVER", info |-> ps, to |-> <<Spare, SECONDARY>>],
           ![<<pp, SECONDARY>>].status = "SEND_MARKER", ![<<pp, SECONDARY>>].info = Spare,
           ![<<ps, PRIMARY>>].status = "SEND_MARKER", ![<<ps, PRIMARY>>].info = Spare]
      /\ tsb' = [tsb EXCEPT ![pp] = a.t, ![ps] = b.t]
      /\ free' = b.free
      /\ fmasks' = [fmasks EXCEPT ![pp] = @ \ {PRIMARY}, ![ps] = @ \ {SECONDARY}]
      /\ ing' = [ing EXCEPT !.mode = "TAKE_OVER"]
      /\ acks' = [c \in Consumers |-> IF c[1] = f THEN <<>> ELSE acks[c]]
      /\ UNCHANGED accepted

(* do_take_over: back to normal once both connections are. *)
ModeAfterTakeOver ==
  IF ing.mode = "TAKE_OVER" /\ conn[<<ing.failed, PRIMARY>>].status = "NORMAL"
       /\ conn[<<ROTATE_L(ing.failed), SECONDARY>>].status = "NORMAL"
  THEN "NORMAL" ELSE ing.mode

(* The rest of ExecFluxIngress up to serviceConn: the tuple that the last call
   fetched goes into the buffer, or is dropped when that is full. *)
PutSlot ==
  /\ \/ /\ ing.seq < End - 1
        /\ \E p \in Routed :
             LET n == ing.seq + 1
                 q == put_ack_TSB(tsb[p], free, n, PRODUCED, AllMasks)
             IN  /\ tsb' = [tsb EXCEPT ![p] = q.t] /\ free' = q.free
                 /\ accepted' = IF q.ok THEN [accepted EXCEPT ![p] = Append(@, n)] ELSE accepted
                 /\ ing' = [ing EXCEPT !.mode = ModeAfterTakeOver, !.seq = n]
     \/ /\ ing.mode # ModeAfterTakeOver
        /\ ing' = [ing EXCEPT !.mode = ModeAfterTakeOver]
        /\ UNCHANGED <<tsb, free, accepted>>
  /\ UNCHANGED <<fmasks, conn, acks>>

ExecFluxIngress ==
  /\ \/ ing.mode = "FAIL_OVER" /\ do_fail_over
     \/ ing.mode # "FAIL_OVER" /\ PutSlot
  /\ UNCHANGED <<data, cons, mover, wire, turn, up, asleep>>

(* serviceConn visits connections in a circle until a visit was of use.  The
   other machines go on between two visits, so that each visit (service_fdest)
   is a step; how many one call makes is left open. *)

(* set_failed_conn and set_failed_machine, when the connection to a machine
   that is down returns an error. *)
ConnFails(k) ==
  /\ conn[k].status \in {"NORMAL", "SEND_MARKER", "RECOVER", "FLUSHBUF"}
  /\ conn[k].to[1] \notin up
  /\ conn' = [conn EXCEPT ![k].status = "ERR"]
  /\ ing' = IF ing.failed = None THEN [ing EXCEPT !.mode = "FAIL_OVER", !.failed = conn[k].to[1]]
            ELSE ing
  /\ UNCHANGED <<tsb, free, fmasks, data, acks, asleep>>

(* An acknowledgement from the copy with role r (process_acks_FluxProd_FT);
   FCONSSYNC says that it starts to copy its state (received_fconssync). *)
TakeAck_mutant(s, a, r) ==               \* mutant: the new copy starts behind all of the buffer
  IF a = ACK_FCONSSYNC
  THEN [s EXCEPT !.fmask = @ \cup {OtherRole(r)}]
  ELSE LET q == put_ack_TSB(s.t, s.free, a, r, s.fmask) IN
       [s EXCEPT !.t = q.t, !.free = q.free, !.asleep = @ \/ OutOfStep(s.t, a, r)]

TakeAck(s, a, r) ==
  IF a = ACK_FCONSSYNC
  THEN [s EXCEPT !.t = reset_cursors_TSB(s.t, OtherRole(r)), !.fmask = @ \cup {OtherRole(r)}]
  ELSE LET q == put_ack_TSB(s.t, s.free, a, r, s.fmask) IN
       [s EXCEPT !.t = q.t, !.free = q.free, !.asleep = @ \/ OutOfStep(s.t, a, r)]

(* CONN_NORMAL: send the tuple at the head if the connection takes it, then
   handle the acknowledgements that have arrived, up to an FCONSSYNC. *)
ConnNormal(k) ==
  LET p == k[1]
      r == k[2]
      c == conn[k].to
      h == tsb[p].head[r]
  IN  /\ conn[k].status = "NORMAL"
      /\ \E sent \in BOOLEAN, n \in 0 .. Len(acks[c]) :
           /\ sent \/ n > 0
           /\ sent => h # End /\ PRODUCED \in tsb[p].dmask[h] /\ Len(data[c]) < DataCap
           /\ \A j \in 1 .. (n - 1) : acks[c][j] # ACK_FCONSSYNC
           /\ LET t0 == IF sent THEN [tsb[p] EXCEPT !.head[r] = AfterHead(tsb[p], r)] ELSE tsb[p]
                  s  == FoldLeft(LAMBDA x, a : TakeAck(x, a, r),
                                 [t |-> t0, free |-> free, fmask |-> fmasks[p], asleep |-> asleep],
                                 SubSeq(acks[c], 1, n))
              IN  /\ tsb' = [tsb EXCEPT ![p] = s.t] /\ free' = s.free
                  /\ fmasks' = [fmasks EXCEPT ![p] = s.fmask] /\ asleep' = s.asleep
           /\ data' = IF sent /\ c[1] \in up THEN [data EXCEPT ![c] = Append(@, Tuple(h))] ELSE data
           /\ acks' = [acks EXCEPT ![c] = SubSeq(@, n + 1, Len(@))]
      /\ UNCHANGED <<conn, ing>>

(* CONN_SEND_MARKER and CONN_RECOVER send the marker when there is room. *)
ConnMarker(k) ==
  LET c == conn[k].to IN
  /\ conn[k].status \in {"SEND_MARKER", "RECOVER"}
  /\ Len(data[c]) < DataCap
  /\ data' = [data EXCEPT ![c] = Append(@, FPRODSYNC(conn[k].info))]
  /\ conn' = [conn EXCEPT ![k].status = IF @ = "RECOVER" THEN "FLUSHBUF" ELSE "NORMAL"]
  /\ UNCHANGED <<tsb, free, fmasks, ing, acks, asleep>>

(* CONN_FLUSHBUF waits for the marker to go out and for the FCONSSYNC of the
   other copy. *)
ConnFlush(k) ==
  /\ conn[k].status = "FLUSHBUF"
  /\ k[2] \in fmasks[k[1]]
  /\ conn' = [conn EXCEPT ![k].status = "NORMAL"]
  /\ UNCHANGED <<tsb, free, fmasks, ing, data, acks, asleep>>

service_fdest(k) ==
  /\ ConnFails(k) \/ ConnNormal(k) \/ ConnMarker(k) \/ ConnFlush(k)
  /\ UNCHANGED <<accepted, cons, mover, wire, turn, up>>

-----------------------------------------------------------------------------
(* SegCons, by the mode and rec_mode of the copy *)

(* FSched runs the three parts of a machine in turn.  That matters only where
   two copies share a mover that has something to do: on the standby. *)
Busy(m) == mover[m].requests # <<>> \/ mover[m].curr # NoReq \/ mover[m].bufs # <<>>

NextTurn == [MOVER |-> PRIMARY, PRIMARY |-> SECONDARY, SECONDARY |-> "MOVER"]

Scheduled(m, who) ==
  /\ m \in up
  /\ IF m # Spare THEN UNCHANGED turn
     ELSE /\ Busy(m) => turn = who
          /\ turn' = IF Busy(m)' THEN NextTurn[who] ELSE "MOVER"

(* getNextTuple with what its callers do with the result: a tuple waits until
   its acknowledgement is queued and then goes up the dataflow; a marker asks
   for a state movement (process_fprodsync).  If nothing has arrived, only the
   turn passes. *)
Receive(c, k) ==
  LET d     == data[c]
      fetch == k.pending = 0
      n     == IF fetch THEN Head(d).val ELSE k.pending
      rest  == IF fetch THEN Tail(d) ELSE d
  IN  \/ /\ k # cons[c] \/ c[1] = Spare
         /\ cons' = [cons EXCEPT ![c] = k]
         /\ UNCHANGED <<data, acks, asleep>>
      \/ /\ fetch /\ d # <<>> /\ Head(d).type = "FPRODSYNC"
         /\ cons' = [cons EXCEPT ![c] = [k EXCEPT !.mode = "SIGNAL_SMOVER", !.mach = n]]
         /\ data' = [data EXCEPT ![c] = rest]
         /\ UNCHANGED <<acks, asleep>>
      \/ /\ fetch => d # <<>> /\ Head(d).type = "HEAPTUPLE"
         /\ data' = [data EXCEPT ![c] = rest]
         /\ IF Len(acks[c]) < AckCap
            THEN /\ acks' = [acks EXCEPT ![c] = Append(@, n)]
                 /\ cons' = [cons EXCEPT ![c] = [k EXCEPT !.pending = 0, !.state = Append(@, n)]]
                 /\ asleep' = (asleep \/ k.standby)
            ELSE /\ cons' = [cons EXCEPT ![c] = [k EXCEPT !.pending = n]]
                 /\ UNCHANGED <<acks, asleep>>

(* do_fail_over_1: ask the mover, wait until it is ready, go on.  A surviving
   copy works on meanwhile (do_normal in the same call). *)
do_fail_over_1(c) ==
  LET k == cons[c]
      m == c[1]
      next == CASE k.mode = "SIGNAL_SMOVER" -> "WAIT_SMOVER"
                [] k.mode = "WAIT_SMOVER" -> IF k.ready THEN "WAIT_FPRODSYNC" ELSE k.mode
                [] k.mode = "WAIT_FPRODSYNC" -> IF k.standby THEN "INSTALL" ELSE "ADJUST_CONN"
      k1 == [k EXCEPT !.mode = next]
  IN  /\ k.mode \in {"SIGNAL_SMOVER", "WAIT_SMOVER", "WAIT_FPRODSYNC"}
      /\ mover' = IF k.mode = "SIGNAL_SMOVER"
                  THEN [mover EXCEPT ![m].requests =
                          Append(@, [role |-> c[2], mach |-> k.mach, send |-> ~k.standby])]
                  ELSE mover
      /\ IF k.standby
         THEN cons' = [cons EXCEPT ![c] = k1] /\ UNCHANGED <<data, acks, asleep>>
         ELSE Receive(c, k1)

(* do_take_over: tell Ingress that the copying starts.  Waiting until that has
   gone out (WAIT_ACKS) only delays it. *)
do_take_over_mutant(c) ==                \* mutant: Ingress is not told
  /\ cons[c].mode = "ADJUST_CONN"
  /\ cons' = [cons EXCEPT ![c].mode = "MOVE", ![c].moved = 0]
  /\ UNCHANGED <<acks, data, mover, asleep>>

do_take_over(c) ==
  /\ cons[c].mode = "ADJUST_CONN" /\ Len(acks[c]) < AckCap
  /\ acks' = [acks EXCEPT ![c] = Append(@, ACK_FCONSSYNC)]
  /\ cons' = [cons EXCEPT ![c].mode = "MOVE", ![c].moved = 0]
  /\ UNCHANGED <<data, mover, asleep>>

(* do_take_over_1 hands the state to the mover page by page (here a page is a
   tuple), and then the null that ends it. *)
do_take_over_1(c) ==
  LET k == cons[c]
      done == k.moved = Len(k.state)
  IN  /\ k.mode = "MOVE"
      /\ mover' = [mover EXCEPT ![c[1]].bufs =
                     Append(@, IF done THEN NullQueue ELSE Page(k.state[k.moved + 1]))]
      /\ cons' = [cons EXCEPT ![c] = IF done THEN [k EXCEPT !.mode = "NORMAL", !.moved = 0]
                                     ELSE [k EXCEPT !.moved = @ + 1]]
      /\ UNCHANGED <<data, acks, asleep>>

(* do_standby_take_over installs a page, or is done at the empty queue. *)
do_standby_take_over(c) ==
  LET b == mover[c[1]].bufs IN
  /\ cons[c].mode = "INSTALL"
  /\ IF b = <<>> THEN UNCHANGED <<cons, mover>>
     ELSE /\ mover' = [mover EXCEPT ![c[1]].bufs = Tail(b)]
          /\ cons' = [cons EXCEPT ![c] =
                        IF Head(b) = EmptyQueue THEN [@ EXCEPT !.standby = FALSE, !.mode = "NORMAL"]
                        ELSE [@ EXCEPT !.state = Append(@, Head(b).val)]]
  /\ UNCHANGED <<data, acks, asleep>>

ExecSegCons(c) ==
  /\ \/ cons[c].mode = "NORMAL" /\ Receive(c, cons[c]) /\ UNCHANGED mover
     \/ do_fail_over_1(c) \/ do_take_over(c) \/ do_take_over_1(c) \/ do_standby_take_over(c)
  /\ Scheduled(c[1], c[2])
  /\ UNCHANGED <<ingress, wire, up>>

-----------------------------------------------------------------------------
(* StateMover *)

(* notify_requestor, which does nothing unless the others are done. *)
notify_requestor_mutant(m) ==            \* mutant: looks at the requests
  cons' = IF mover[m].requests = <<>> THEN [cons EXCEPT ![<<m, mover[m].curr.role>>].ready = TRUE]
          ELSE cons

notify_requestor(m) ==
  cons' = IF mover[m].bufs = <<>> THEN [cons EXCEPT ![<<m, mover[m].curr.role>>].ready = TRUE]
          ELSE cons

(* prepare_request: the receiver sends an empty queue, the sender waits for it. *)
prepare_request(m) ==
  LET o == mover[m].curr.mach IN
  /\ mover[m].mode = "NEW"
  /\ \/ /\ ~mover[m].curr.send
        /\ wire' = [wire EXCEPT ![<<m, o>>] = Append(@, EmptyQueue)]
        /\ mover' = [mover EXCEPT ![m].mode = "RECV_BUF"]
        /\ notify_requestor(m) /\ UNCHANGED asleep
     \/ /\ mover[m].curr.send /\ wire[<<o, m>>] # <<>>
        /\ wire' = [wire EXCEPT ![<<o, m>>] = Tail(@)]
        /\ mover' = [mover EXCEPT ![m].mode = "SEND_BUF"]
        /\ asleep' = (asleep \/ Head(wire[<<o, m>>]) # EmptyQueue)
        /\ notify_requestor(m)
     \/ m = Spare /\ UNCHANGED <<mover, wire, cons, asleep>>

(* process_receive: one call receives a queue, the next passes it on. *)
process_receive(m) ==
  LET o == mover[m].curr.mach
      q == mover[m].comm
  IN  /\ mover[m].mode = "RECV_BUF"
      /\ \/ /\ q # NoQueue
            /\ mover' = [mover EXCEPT ![m].bufs = Append(@, q), ![m].comm = NoQueue,
                           ![m].curr = IF q = EmptyQueue THEN NoReq ELSE @]
            /\ UNCHANGED wire
         \/ /\ q = NoQueue /\ wire[<<o, m>>] # <<>>
            /\ mover' = [mover EXCEPT ![m].comm = Head(wire[<<o, m>>])]
            /\ wire' = [wire EXCEPT ![<<o, m>>] = Tail(@)]
         \/ q = NoQueue /\ UNCHANGED <<mover, wire>>
      /\ UNCHANGED <<cons, asleep>>

(* process_send and process_send_eof; that sending a queue may take several
   calls only delays it. *)
process_send(m) ==
  LET v    == mover[m]
      last == Head(v.bufs) = NullQueue
  IN  /\ \/ /\ v.mode = "SEND_BUF" /\ v.bufs # <<>>
            /\ wire' = [wire EXCEPT ![<<m, v.curr.mach>>] =
                                   Append(@, IF last THEN EmptyQueue ELSE Head(v.bufs))]
            /\ mover' = [mover EXCEPT ![m].bufs = Tail(@),
                                     ![m].mode = IF last THEN "SEND_EOF" ELSE @]
         \/ /\ v.mode = "SEND_EOF"
            /\ mover' = [mover EXCEPT ![m].curr = NoReq]
            /\ UNCHANGED wire
      /\ UNCHANGED <<cons, asleep>>

ExecStateMover(m) ==
  /\ Busy(m)
  /\ \/ mover[m].curr # NoReq /\ (prepare_request(m) \/ process_receive(m) \/ process_send(m))
     \/ /\ mover[m].curr = NoReq
        /\ LET q == mover[m].requests IN
           mover' = IF q = <<>> THEN mover
                    ELSE [mover EXCEPT ![m].curr = Head(q), ![m].requests = Tail(q), ![m].mode = "NEW"]
        /\ UNCHANGED <<cons, wire, asleep>>
  /\ Scheduled(m, "MOVER")
  /\ UNCHANGED <<ingress, data, acks, up>>

-----------------------------------------------------------------------------
(* A machine fails.  What it had sent may still arrive; what is sent to it is
   lost, although sending may succeed for a while. *)
Fail(m) ==
  /\ up = Machines /\ m \in Mortal
  /\ up' = up \ {m}
  /\ data' = [c \in Consumers |-> IF c[1] = m THEN <<>> ELSE data[c]]
  /\ cons' = [c \in Consumers |-> IF c[1] = m THEN NewCopy(c) ELSE cons[c]]
  /\ UNCHANGED <<ingress, acks, mover, wire, turn, asleep>>

RunIngress == ExecFluxIngress \/ \E k \in Conns : service_fdest(k)
RunMachine(m) == ExecStateMover(m) \/ \E r \in Roles : ExecSegCons(<<m, r>>)

Next == RunIngress \/ \E m \in Machines : RunMachine(m) \/ Fail(m)

Spec == Init /\ [][Next]_vars

-----------------------------------------------------------------------------
(* Every copy of a partition has processed a prefix of the tuples that Ingress
   accepted for it: none is skipped, none arrives twice, whenever the machine
   of the other copy fails and however far the move of the state is. *)
CopyIsPrefix ==
  \A k \in Conns : LET c == conn[k].to IN
    c[1] \in up => IsPrefix(cons[c].state, accepted[k[1]])

(* An accepted tuple leaves the buffer (del_entry) only when the state of every
   copy that counts has it: a copy that is connected, or that the standby is
   going to take over from its FCONSSYNC on. *)
FreedIsProcessed ==
  \A k \in Conns : LET c == conn[k].to IN
    c[1] \in up /\ ~cons[c].standby =>
      \A n \in ToSet(accepted[k[1]]) \ Entries(tsb[k[1]]) : n \in ToSet(cons[c].state)

(* The buffer keeps what its comments say: each list is in order for the copies
   that count, whatever acknowledgements and fail-over do to its cursors.  "Should
   not be happening": no acknowledgement is out of step, no tuple reaches a
   standby, no mover reads a page where the empty queue should be.  "Allocate one
   for just the last, so we can make progress": an empty partition has its
   reserved entry. *)
CursorsInOrder ==
  /\ ~asleep /\ free \in 0 .. (TsbSize + N)
  /\ \A p \in Parts : ListInOrder(tsb[p], fmasks[p]) /\ (Entries(tsb[p]) = {} => tsb[p].last)

Recovered ==
  /\ ing.mode = "NORMAL" /\ \A p \in Parts : fmasks[p] = AllMasks
  /\ \A k \in Conns : LET c == conn[k].to IN
       c[1] \in up /\ ~cons[c].standby /\ cons[c].mode = "NORMAL"

(* The standby only polls: its mover waits for a queue from another machine or
   has no request, and its copies wait for Ingress or for the mover. *)
StandbyPolls ==
  LET v == mover[Spare] IN
  /\ IF v.curr = NoReq THEN v.requests = <<>>
     ELSE v.mode = "RECV_BUF" /\ v.comm = NoQueue /\ wire[<<v.curr.mach, Spare>>] = <<>>
  /\ \A r \in Roles : LET k == cons[<<Spare, r>>] IN
       \/ k.mode = "NORMAL" /\ k.pending = 0 /\ data[<<Spare, r>>] = <<>>
       \/ k.mode = "WAIT_SMOVER" /\ ~k.ready
       \/ k.mode = "INSTALL" /\ v.bufs = <<>>

(* After a failure the processes wait for each other only when every partition
   has two copies again that process tuples and Ingress is back to normal: no
   copy waits for a mover that waits for a copy, and Ingress for neither. *)
WaitsOnlyWhenRecovered ==
  up # Machines /\ StandbyPolls /\ ~ENABLED RunIngress
    /\ (\A m \in Parts : ~ENABLED RunMachine(m)) => Recovered

(* notify_requestor sets the ready flag only if the buffers of the mover are
   empty at that moment, and nobody tries again: they are, so that a mover that
   works on a request has told the copy that made it. *)
NotificationNotLost ==
  \A m \in up : mover[m].curr # NoReq /\ mover[m].mode # "NEW" => cons[<<m, mover[m].curr.role>>].ready

=============================================================================
