------------------------------- MODULE Window -------------------------------
(***************************************************************************)
(* The window arithmetic of telegraphcq/window.c.  A window expression is  *)
(* a record [startAt, rangeBy, slideBy]; its window number k (the first is *)
(* number 1) covers [startAt + slideBy*(k-1), that + rangeBy).             *)
(*                                                                         *)
(* Timestamps and intervals are integers (a multiple of the clock's        *)
(* resolution).  The code divides intervals as doubles and casts to int:   *)
(* the cast rounds toward zero, and the division of an exact multiple may  *)
(* come out just below the integer it should be ("Sometimes, rounding      *)
(* error causes us to undershoot the window").  UnderPast and UnderLast    *)
(* are the exact quotients for which that happens in first_window_past and *)
(* in last_window_no: they depend on the interval (0.3/0.1 undershoots,    *)
(* 3/1 does not), so they are constants here.                              *)
(***************************************************************************)
EXTENDS Integers

CONSTANTS UnderPast, UnderLast

ASSUME UnderSets == UnderPast \subseteq Int /\ UnderLast \subseteq Int

Windows == [startAt : Int, rangeBy : Int, slideBy : Int]

\* (int) (n / s), computed in doubles; s > 0.
TruncDiv(n, s, Under) ==
  LET q == n \div s
  IN  IF n < 0 /\ n % s # 0 THEN q + 1
      ELSE IF n > 0 /\ n % s = 0 /\ q \in Under THEN q - 1
      ELSE q

window_begin(w, k) == w.startAt + w.slideBy * (k - 1)

window_end(w, k) == window_begin(w, k) + w.rangeBy

timestamp_past_window(w, k, ts) == ts >= window_end(w, k)

UncorrectedWindowPast(w, ts) ==
  TruncDiv(2 * w.slideBy + (ts - (w.startAt + w.rangeBy)), w.slideBy, UnderPast)

\* the correction at the end is the code's own: one more window when the
\* quotient undershot
first_window_past(w, ts) ==
  LET k == TruncDiv(2 * w.slideBy + (ts - (w.startAt + w.rangeBy)), w.slideBy, UnderPast)
  IN  IF ts >= window_end(w, k) THEN k + 1 ELSE k

first_window_no(w, ts) ==
  LET p == first_window_past(w, ts)
      k == IF p < 1 THEN 1 ELSE p
  IN  IF ts >= window_begin(w, k) THEN k ELSE -1

last_window_no(w, ts) ==
  LET k == TruncDiv(w.slideBy + (ts - w.startAt), w.slideBy, UnderLast)
  IN  IF timestamp_past_window(w, k, ts) THEN -1 ELSE k

windowStateGetFirstChange(w) == w.startAt + w.rangeBy

DiesWithLastWindow(w, ts) ==
  [ever |-> first_window_no(w, ts) # -1, birth |-> window_end(w, first_window_no(w, ts)),
   death |-> window_end(w, last_window_no(w, ts))]

\* When a tuple joins the live tuples and when it leaves them; the code
\* leaves death_ts alone, and sets birth_ts to DT_NOEND, for a tuple that
\* is in no window: "ever" says whether it is in one.
windowStateGetLifetime(w, ts) ==
  LET first == first_window_no(w, ts)
      last  == last_window_no(w, ts)
  IN  [ever  |-> first # -1,
       birth |-> window_end(w, first),
       death |-> window_end(w, last + 1)]

\* windowStateGetNextSlide asserts that the window it finds has a number
NextSlideAsserts(w, ts) == first_window_past(w, ts) > 0

windowStateGetNextSlide(w, ts) == window_end(w, first_window_past(w, ts))

-----------------------------------------------------------------------------
(* What the numbers above are meant to be.                                 *)

InWindow(w, k, ts) == window_begin(w, k) <= ts /\ ts < window_end(w, k)

=============================================================================
