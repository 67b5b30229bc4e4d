----------------------------- MODULE SlideEvents -----------------------------
(***************************************************************************)
(* What a windowed aggregate promises ("Our current aggregate window       *)
(* semantics", nodeFAgg.c:26-58): every slide event up to the current time *)
(* is answered once, in order, from exactly the tuples that are live at    *)
(* it.  No queue, list or group of the implementation appears here.        *)
(*                                                                         *)
(* An intermediate tuple is a function from the streams it joins to base   *)
(* tuples [no, ts].  A window expression is either a function from streams *)
(* to windows [startAt, rangeBy, slideBy] or, for SLICES, a record         *)
(* [stream, startAt, slices] for the query's one stream.                   *)
(***************************************************************************)
EXTENDS Integers, Sequences, FiniteSets, FiniteSetsExt

CONSTANT Horizon      \* bound: no timestamp and no slide event past it

VARIABLES expr,       \* the window expression; NoExpr before there is one
          accepted,   \* the intermediate tuples taken in
          answers     \* [wtime, tuples], one for every slide event answered

vars == <<expr, accepted, answers>>

NoExpr == [none |-> TRUE]

IsSliced(e) == "slices" \in DOMAIN e

StreamsOf(e) == IF IsSliced(e) THEN {e.stream} ELSE DOMAIN e

-----------------------------------------------------------------------------
(* RANGE BY / SLIDE BY: "the window that is closest to the current time    *)
(* without going beyond it is considered the current window"; 0 or less    *)
(* when the first window has not ended yet.                                *)
CurrentWindow(w, s) == (s - (w.startAt + w.rangeBy)) \div w.slideBy + 1

LiveInWindow(w, ts, s) ==
  LET k     == CurrentWindow(w, s)
      begin == w.startAt + w.slideBy * (k - 1)
  IN  k >= 1 /\ begin <= ts /\ ts < begin + w.rangeBy

WindowEnds(w) ==
  {s \in 0..Horizon : CurrentWindow(w, s) >= 1 /\ CurrentWindow(w, s) > CurrentWindow(w, s - 1)}

(* SLICES: the edges go round the list of slices, from START AT.           *)
Edges(e) ==
  LET n       == Len(e.slices)
      edge[k \in 0..Horizon] ==
        IF k = 0 THEN e.startAt ELSE edge[k - 1] + e.slices[((k - 1) % n) + 1]
  IN  {edge[k] : k \in 1..Horizon} \cap 0..Horizon

LiveInSlice(e, ts, s) ==
  /\ e.startAt <= ts /\ ts < s
  /\ \A edge \in Edges(e) : edge < s => edge <= ts

-----------------------------------------------------------------------------
SlideTimes(e) == IF IsSliced(e) THEN Edges(e) ELSE UNION {WindowEnds(e[i]) : i \in DOMAIN e}

LiveAt(e, t, s) ==
  IF IsSliced(e) THEN LiveInSlice(e, t[e.stream].ts, s)
  ELSE \A i \in DOMAIN e : LiveInWindow(e[i], t[i].ts, s)

\* "the lowest maximum timestamp the join processor has consumed across all
\* the streams we are joining", after taking in the tuples of A
CurrentTime(A) ==
  IF A = {} THEN -1 ELSE Min({Max({t[i].ts : t \in A}) : i \in StreamsOf(expr)})

LastSlide == IF answers = <<>> THEN -1 ELSE answers[Len(answers)].wtime

Due(A) == {s \in SlideTimes(expr) : LastSlide < s /\ s <= CurrentTime(A)}

Init == expr = NoExpr /\ accepted = {} /\ answers = <<>>

AddWindows == expr = NoExpr /\ UNCHANGED <<accepted, answers>>

\* Answers are final: a tuple taken in later is live at no slide event that
\* has been answered.
Accept ==
  \E t \in accepted' \ accepted :
    /\ accepted' = accepted \cup {t}
    /\ \A k \in 1..Len(answers) : ~ LiveAt(expr, t, answers[k].wtime)

AcceptOnly == Accept /\ UNCHANGED <<expr, answers>>

\* the first slide event that is due is answered, possibly by the step that
\* takes in the tuple that makes it due
Slide ==
  /\ accepted' = accepted \/ Accept
  /\ Due(accepted') # {}
  /\ LET s == Min(Due(accepted'))
     IN  answers' = Append(answers,
           [wtime |-> s, tuples |-> {t \in accepted' : LiveAt(expr, t, s)}])
  /\ UNCHANGED expr

Next == AddWindows \/ AcceptOnly \/ Slide

Spec == Init /\ [][Next]_vars

=============================================================================
