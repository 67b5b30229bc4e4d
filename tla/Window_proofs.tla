---------------------------- MODULE Window_proofs ----------------------------
(***************************************************************************)
(* The window numbers of window.c are the right ones, for every window and *)
(* every timestamp, whatever quotients undershoot in first_window_past.    *)
(* The argument is about the cast: TruncDiv returns the floor, or one less *)
(* exactly when the code's correction will add it back; below zero it      *)
(* returns the ceiling, which never reaches window 1.                      *)
(***************************************************************************)
EXTENDS Window, TLAPS

\* The windows a query can have: both intervals are positive.
Proper(w) == w \in Windows /\ w.rangeBy > 0 /\ w.slideBy > 0

\* What the cast does to a quotient, by sign of the dividend.
LEMMA DivFacts ==
  ASSUME NEW n \in Int, NEW s \in Int, s > 0
  PROVE  /\ n \div s \in Int /\ n % s \in Int
         /\ n = s * (n \div s) + (n % s)
         /\ 0 <= n % s /\ n % s < s
  OBVIOUS

LEMMA MulOrder ==
  ASSUME NEW s \in Int, s > 0, NEW a \in Int, NEW b \in Int
  PROVE  /\ a < b <=> s * a < s * b
         /\ a <= b <=> s * a <= s * b
         /\ s * (a + 1) = s * a + s
         /\ s * (a - 1) = s * a - s
         /\ s * a \in Int /\ s * b \in Int
  OBVIOUS

\* The cast on a dividend that is not negative: the floor, or one less when
\* the division is exact and undershoots.
LEMMA TruncUp ==
  ASSUME NEW n \in Int, NEW s \in Int, s > 0, n >= 0, NEW U
  PROVE  LET k == TruncDiv(n, s, U)
         IN  /\ k \in Int
             /\ \/ s * k <= n /\ n < s * k + s
                \/ n = s * k + s /\ n > 0 /\ k + 1 \in U
<1> DEFINE q == n \div s
<1>1. q \in Int /\ n % s \in Int /\ n = s * q + (n % s) /\ 0 <= n % s /\ n % s < s
  BY DivFacts
<1>2. s * (q - 1) = s * q - s /\ s * q \in Int
  BY <1>1, MulOrder
<1>3. CASE n > 0 /\ n % s = 0 /\ q \in U
  <2>1. TruncDiv(n, s, U) = q - 1
    BY <1>3, <1>1 DEF TruncDiv
  <2> QED BY <2>1, <1>1, <1>2, <1>3
<1>4. CASE ~ (n > 0 /\ n % s = 0 /\ q \in U)
  <2>1. TruncDiv(n, s, U) = q
    BY <1>4, <1>1 DEF TruncDiv
  <2> QED BY <2>1, <1>1, <1>2
<1> QED BY <1>3, <1>4

\* On a negative dividend the cast is the ceiling: not above 0, and at least
\* the quotient.
LEMMA TruncDown ==
  ASSUME NEW n \in Int, NEW s \in Int, s > 0, n < 0, NEW U
  PROVE  LET k == TruncDiv(n, s, U)
         IN  k \in Int /\ k <= 0 /\ n <= s * k /\ s * k < n + s
<1> DEFINE q == n \div s
<1>1. q \in Int /\ n % s \in Int /\ n = s * q + (n % s) /\ 0 <= n % s /\ n % s < s
  BY DivFacts
<1>2. s * (q + 1) = s * q + s /\ s * q \in Int /\ s * 0 = 0
  BY <1>1, MulOrder
<1>3. q < 0
  <2>1. s * q < s * 0
    BY <1>1, <1>2
  <2> QED BY <2>1, <1>1, MulOrder
<1>4. CASE n % s # 0
  <2>1. TruncDiv(n, s, U) = q + 1
    BY <1>4, <1>1 DEF TruncDiv
  <2> QED BY <2>1, <1>1, <1>2, <1>3, <1>4
<1>5. CASE n % s = 0
  <2>1. TruncDiv(n, s, U) = q
    BY <1>5, <1>1 DEF TruncDiv
  <2> QED BY <2>1, <1>1, <1>2, <1>3, <1>5
<1> QED BY <1>4, <1>5

-----------------------------------------------------------------------------
LEMMA EndFacts ==
  ASSUME NEW w, Proper(w), NEW k \in Int
  PROVE  /\ window_end(w, k) = w.startAt + w.rangeBy + w.slideBy * k - w.slideBy
         /\ window_begin(w, k) = w.startAt + w.slideBy * k - w.slideBy
         /\ window_end(w, k) \in Int /\ window_begin(w, k) \in Int
         /\ w.slideBy * k \in Int
<1>1. w.startAt \in Int /\ w.rangeBy \in Int /\ w.slideBy \in Int /\ w.slideBy > 0
  BY DEF Proper, Windows
<1>2. w.slideBy * (k - 1) = w.slideBy * k - w.slideBy /\ w.slideBy * k \in Int
  BY <1>1, MulOrder
<1> QED BY <1>1, <1>2 DEF window_end, window_begin

\* The ends of windows grow with their numbers.
LEMMA EndsGrow ==
  ASSUME NEW w, Proper(w), NEW j \in Int, NEW k \in Int
  PROVE  /\ j < k <=> window_end(w, j) < window_end(w, k)
         /\ j < k <=> window_begin(w, j) < window_begin(w, k)
<1>1. w.startAt \in Int /\ w.rangeBy \in Int /\ w.slideBy \in Int /\ w.slideBy > 0
  BY DEF Proper, Windows
<1>2. j < k <=> w.slideBy * j < w.slideBy * k
  BY <1>1, MulOrder
<1> QED BY <1>1, <1>2, EndFacts

\* first_window_past (window.c:563-570): whatever quotients undershoot, its
\* result is "the first window whose right hand side is STRICTLY GREATER THAN
\* the indicated timestamp", as long as that window has a number: below 1 it
\* only says that every window does.
THEOREM FirstWindowPast ==
  ASSUME NEW w, Proper(w), NEW ts \in Int
  PROVE  LET k == first_window_past(w, ts)
         IN  /\ k \in Int
             /\ ts < window_end(w, k)
             /\ \A j \in Int : k >= 1 /\ j < k => window_end(w, j) <= ts
             /\ k >= 1 <=> ts >= window_end(w, 0)
<1> DEFINE s == w.slideBy
           b == w.startAt + w.rangeBy
           n == 2 * s + (ts - b)
           k == TruncDiv(n, s, UnderPast)
           K == first_window_past(w, ts)
<1>1. w.startAt \in Int /\ w.rangeBy \in Int /\ s \in Int /\ s > 0 /\ b \in Int /\ n \in Int
  BY DEF Proper, Windows
<1>2. K = IF ts >= window_end(w, k) THEN k + 1 ELSE k
  BY DEF first_window_past
<1>3. k \in Int
  BY <1>1, TruncUp, TruncDown
<1>4. /\ window_end(w, k) = b + s * k - s
      /\ window_end(w, k + 1) = b + s * k
      /\ window_end(w, k - 1) = b + s * k - s - s
      /\ window_end(w, 0) = b - s
      /\ s * k \in Int
  <2>1. s * (k + 1) = s * k + s /\ s * (k - 1) = s * k - s /\ s * 0 = 0
    BY <1>1, <1>3, MulOrder
  <2> QED BY <1>1, <1>3, <2>1, EndFacts
<1>5. CASE n >= 0
  <2>1. \/ s * k <= n /\ n < s * k + s
        \/ n = s * k + s
    BY <1>5, <1>1, TruncUp
  <2>2. CASE s * k <= n /\ n < s * k + s
    <3>1. K = k /\ ts < window_end(w, K) /\ window_end(w, K - 1) <= ts
      BY <2>2, <1>1, <1>2, <1>3, <1>4
    <3>2. \A j \in Int : j < K => window_end(w, j) <= ts
      BY <3>1, <1>3, EndsGrow, EndFacts
    <3>3. K >= 1 <=> ts >= window_end(w, 0)
      <4>1. k >= 1 => s * k >= s
        BY <1>1, <1>3, MulOrder
      <4>2. k < 1 => s * k + s <= s
        <5>1. k < 1 => s * k <= s * 0 /\ s * 0 = 0
          BY <1>1, <1>3, MulOrder
        <5> QED BY <5>1, <1>1, <1>4
      <4> QED BY <4>1, <4>2, <3>1, <2>2, <1>1, <1>3, <1>4
    <3> QED BY <3>1, <3>2, <3>3, <1>3
  <2>3. CASE n = s * k + s
    <3>1. K = k + 1 /\ ts < window_end(w, K) /\ window_end(w, K - 1) <= ts
      BY <2>3, <1>1, <1>2, <1>3, <1>4
    <3>2. \A j \in Int : j < K => window_end(w, j) <= ts
      BY <3>1, <1>3, EndsGrow, EndFacts
    <3>3. K >= 1 <=> ts >= window_end(w, 0)
      <4>1. s * (k + 1) = s * k + s /\ (k + 1 >= 1 <=> s * (k + 1) >= s * 1) /\ s * 1 = s
        BY <1>1, <1>3, MulOrder
      <4> QED BY <4>1, <3>1, <2>3, <1>1, <1>3, <1>4
    <3> QED BY <3>1, <3>2, <3>3, <1>3
  <2> QED BY <2>1, <2>2, <2>3
<1>6. CASE n < 0
  <2>1. k <= 0 /\ n <= s * k /\ s * k < n + s
    BY <1>6, <1>1, TruncDown
  <2>2. K = k /\ ts < window_end(w, K)
    BY <2>1, <1>1, <1>2, <1>3, <1>4
  <2>3. ~ (K >= 1) /\ ~ (ts >= window_end(w, 0))
    BY <2>1, <2>2, <1>1, <1>3, <1>4, <1>6
  <2> QED BY <2>2, <2>3, <1>3
<1> QED BY <1>5, <1>6, <1>1

\* windowStateGetNextSlide (window.c:896-905) returns "the earliest point in
\* time strictly after ts at which a window will end", and its
\* Assert(window_num > 0) holds exactly from the end of the window before the
\* first.  A query over one stream slides from the end of its first window, so
\* there the Assert never fails; the slides of another stream may come sooner.
THEOREM NextSlideRight ==
  ASSUME NEW w, Proper(w), NEW ts \in Int
  PROVE  /\ ts < windowStateGetNextSlide(w, ts)
         /\ NextSlideAsserts(w, ts) <=> ts >= w.startAt + w.rangeBy - w.slideBy
         /\ ts >= windowStateGetFirstChange(w) => NextSlideAsserts(w, ts)
         /\ NextSlideAsserts(w, ts) =>
              \A k \in Int : ts < window_end(w, k) =>
                 windowStateGetNextSlide(w, ts) <= window_end(w, k)
<1> DEFINE K == first_window_past(w, ts)
<1>1. /\ K \in Int /\ ts < window_end(w, K)
      /\ \A j \in Int : K >= 1 /\ j < K => window_end(w, j) <= ts
      /\ K >= 1 <=> ts >= window_end(w, 0)
  BY FirstWindowPast
<1>2. w.startAt \in Int /\ w.rangeBy \in Int /\ w.slideBy \in Int /\ w.slideBy > 0
  BY DEF Proper, Windows
<1>3. window_end(w, 0) = w.startAt + w.rangeBy - w.slideBy
  BY <1>2 DEF window_end, window_begin
<1>4. NextSlideAsserts(w, ts) <=> K >= 1
  BY <1>1 DEF NextSlideAsserts
<1>5. ASSUME NEW k \in Int, K >= 1, ts < window_end(w, k)
      PROVE  window_end(w, K) <= window_end(w, k)
  <2>0. window_end(w, k) \in Int /\ window_end(w, K) \in Int
    BY <1>1, EndFacts
  <2>1. ~ (k < K)
    BY <2>0, <1>1, <1>5
  <2>2. ~ (window_end(w, k) < window_end(w, K))
    BY <2>1, <1>1, EndsGrow
  <2> QED BY <2>0, <2>2
<1>6. windowStateGetNextSlide(w, ts) = window_end(w, K)
  BY DEF windowStateGetNextSlide
<1>7. ts >= windowStateGetFirstChange(w) => ts >= window_end(w, 0)
  BY <1>2, <1>3 DEF windowStateGetFirstChange
<1> QED BY <1>1, <1>3, <1>4, <1>5, <1>6, <1>7

\* The number of the last window that begins by ts, when no quotient
\* undershoots.
LEMMA LastBegun ==
  ASSUME NEW w, Proper(w), NEW ts \in Int, ts >= w.startAt, UnderLast = {}
  PROVE  LET k == TruncDiv(w.slideBy + (ts - w.startAt), w.slideBy, UnderLast)
         IN  /\ k \in Int /\ k >= 1
             /\ window_begin(w, k) <= ts /\ ts < window_begin(w, k + 1)
<1> DEFINE s == w.slideBy
           n == s + (ts - w.startAt)
           k == TruncDiv(n, s, UnderLast)
<1>1. w.startAt \in Int /\ s \in Int /\ s > 0 /\ n \in Int /\ n >= s
  BY DEF Proper, Windows
<1>2. k \in Int /\ s * k <= n /\ n < s * k + s
  BY <1>1, TruncUp
<1>3. k >= 1
  <2>1. s * (k + 1) = s * k + s /\ s * 1 = s /\ (1 < k + 1 <=> s * 1 < s * (k + 1))
    BY <1>1, <1>2, MulOrder
  <2> QED BY <2>1, <1>1, <1>2
<1>4. window_begin(w, k) = w.startAt + s * k - s /\ window_begin(w, k + 1) = w.startAt + s * k
  <2>1. s * (k + 1) = s * k + s /\ s * k \in Int
    BY <1>1, <1>2, MulOrder
  <2> QED BY <2>1, <1>1, <1>2, EndFacts
<1> QED BY <1>1, <1>2, <1>3, <1>4

\* windowStateGetLifetime (window.c:846-856): from birth to death a tuple is
\* live exactly at the ends of the windows it is in, provided that no quotient
\* undershoots in last_window_no, which has no correction.
THEOREM LifetimeRight ==
  ASSUME NEW w, Proper(w), NEW ts \in Int, NEW k \in Int, k >= 1, UnderLast = {}
  PROVE  LET life == windowStateGetLifetime(w, ts)
         IN  InWindow(w, k, ts) <=>
               life.ever /\ life.birth <= window_end(w, k) /\ window_end(w, k) < life.death
<1> DEFINE p     == first_window_past(w, ts)
           f     == IF p < 1 THEN 1 ELSE p
           l     == TruncDiv(w.slideBy + (ts - w.startAt), w.slideBy, UnderLast)
           first == first_window_no(w, ts)
           last  == last_window_no(w, ts)
           life  == windowStateGetLifetime(w, ts)
<1>1. /\ p \in Int /\ ts < window_end(w, p)
      /\ \A j \in Int : p >= 1 /\ j < p => window_end(w, j) <= ts
  BY FirstWindowPast
<1>2. f \in Int /\ f >= 1 /\ p <= f
  BY <1>1
<1>3. first = (IF ts >= window_begin(w, f) THEN f ELSE -1)
  BY DEF first_window_no
<1>4. last = (IF ts >= window_end(w, l) THEN -1 ELSE l)
  BY DEF last_window_no, timestamp_past_window
<1>5. /\ life.ever = (first # -1)
      /\ life.birth = window_end(w, first) /\ life.death = window_end(w, last + 1)
  BY DEF windowStateGetLifetime
<1>6. life.ever <=> ts >= window_begin(w, f)
  <2>1. first # -1 <=> ts >= window_begin(w, f)
    BY <1>2, <1>3
  <2> QED BY <2>1, <1>5, Zenon
<1>7. window_begin(w, 1) = w.startAt /\ w.startAt \in Int
  <2>1. w.startAt \in Int /\ w.slideBy \in Int /\ w.slideBy > 0
    BY DEF Proper, Windows
  <2> QED BY <2>1 DEF window_begin
<1>8. ASSUME InWindow(w, k, ts)
      PROVE  life.ever /\ life.birth <= window_end(w, k) /\ window_end(w, k) < life.death
  <2>1. window_begin(w, k) <= ts /\ ts < window_end(w, k)
    BY <1>8 DEF InWindow
  <2>2. f <= k
    BY <2>1, <1>1, EndFacts
  <2>3. window_begin(w, f) <= window_begin(w, k) /\ window_end(w, f) <= window_end(w, k)
    BY <2>2, <1>2, EndsGrow, EndFacts
  <2>4. life.ever /\ first = f
    BY <2>1, <2>3, <1>2, <1>3, <1>6, EndFacts
  <2>5. ts >= w.startAt
    <3>1. window_begin(w, 1) <= window_begin(w, k)
      BY EndsGrow, EndFacts
    <3> QED BY <3>1, <2>1, <1>7, EndFacts
  <2>6. l \in Int /\ l >= 1 /\ window_begin(w, l) <= ts /\ ts < window_begin(w, l + 1)
    BY <2>5, LastBegun
  <2>7. k <= l
    BY <2>1, <2>6, EndsGrow, EndFacts
  <2>8. window_end(w, k) <= window_end(w, l) /\ window_end(w, k) < window_end(w, l + 1)
    BY <2>7, <2>6, EndsGrow, EndFacts
  <2>9. last = l
    BY <2>8, <2>1, <2>6, <1>4, EndFacts
  <2> QED BY <2>3, <2>4, <2>8, <2>9, <1>5
<1>9. ASSUME life.ever, life.birth <= window_end(w, k), window_end(w, k) < life.death
      PROVE  InWindow(w, k, ts)
  <2>1. ts >= window_begin(w, f) /\ first = f
    BY <1>9, <1>6, <1>3
  <2>2. f <= k
    <3>1. ~ (window_end(w, k) < window_end(w, f))
      BY <1>9, <1>5, <2>1, <1>2, EndFacts
    <3> QED BY <3>1, <1>2, EndsGrow
  <2>3. ts < window_end(w, k)
    <3>1. window_end(w, p) <= window_end(w, k)
      BY <2>2, <1>1, <1>2, EndsGrow, EndFacts
    <3> QED BY <3>1, <1>1, EndFacts
  <2>4. ts >= w.startAt
    <3>1. window_begin(w, 1) <= window_begin(w, f)
      BY <1>2, EndsGrow, EndFacts
    <3> QED BY <3>1, <2>1, <1>2, <1>7, EndFacts
  <2>5. l \in Int /\ l >= 1 /\ window_begin(w, l) <= ts
    BY <2>4, LastBegun
  <2>6. last = l
    <3>1. SUFFICES ASSUME last = -1 PROVE FALSE
      BY <1>4
    <3>2. window_end(w, k) < window_end(w, 0)
      BY <3>1, <1>5, <1>9
    <3> QED BY <3>2, EndsGrow
  <2>7. k <= l
    <3>1. k < l + 1
      BY <2>5, <2>6, <1>5, <1>9, EndsGrow
    <3> QED BY <3>1, <2>5
  <2>8. window_begin(w, k) <= window_begin(w, l)
    BY <2>7, <2>5, EndsGrow, EndFacts
  <2> QED BY <2>3, <2>5, <2>8, EndFacts DEF InWindow
<1> QED BY <1>8, <1>9

=============================================================================
