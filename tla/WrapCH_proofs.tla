---------------------------- MODULE WrapCH_proofs ----------------------------
(***************************************************************************)
(* Proofs about the wrapper clearinghouse, for any number of connections,  *)
(* streams and queue slots.  First what one call of processConnection does *)
(* to the connection it is called with, then the invariant of the process  *)
(* and each of its steps.                                                  *)
(***************************************************************************)
EXTENDS WrapCH, IngresQ_proofs

-----------------------------------------------------------------------------
(* One connection. *)

Fields == {"life", "name", "pull", "mode", "begun", "fd", "tuple", "error", "asleep", "timer",
           "gen", "buffered", "probe", "probes", "buf", "head", "force", "made", "sent", "lost"}
Results == {"q", "ret", "hasTuple", "doneWithProbe", "grew"}

Tuples == {NoTuple, EndOfAnswer} \cup {Data(n) : n \in Nat}

(* The tuples held, buf[head + 1 ..] and then t, are those from sent + 1 to made
   in this order, with probe tuples among them. *)
InOrder(buf, head, t, sent, made) ==
  /\ sent <= made
  /\ \A k \in (sent + 1) .. made : t = Data(k) \/ \E i \in (head + 1) .. Len(buf) : buf[i] = Data(k)
  /\ \A i \in (head + 1) .. Len(buf) :
       buf[i].kind = "data" =>
         /\ buf[i].n \in (sent + 1) .. made
         /\ t.kind = "data" => buf[i].n < t.n
         /\ \A j \in (i + 1) .. Len(buf) : buf[j].kind = "data" => buf[i].n < buf[j].n
  /\ t.kind = "data" => t.n \in (sent + 1) .. made

(* last is the number of the last data tuple among ts[lo .. hi], or sent if it
   has none. *)
LastData(ts, lo, hi, last, sent) ==
  \/ last = sent /\ \A i \in lo .. hi : ts[i].kind # "data"
  \/ \E i \in lo .. hi :
       /\ ts[i].kind = "data" /\ last = ts[i].n
       /\ \A j \in lo .. hi : ts[j].kind = "data" => j <= i

(* Sequences: the empty one, what Append, Tail and SubSeq leave. *)
LEMMA EmptySequence == \A S : <<>> \in Seq(S) /\ Len(<<>>) = 0
OBVIOUS

(* A sequence and one more element. *)
LEMMA Appending ==
  ASSUME NEW S, NEW q \in Seq(S), NEW e \in S
  PROVE  /\ Append(q, e) \in Seq(S) /\ Len(Append(q, e)) = Len(q) + 1 /\ Append(q, e)[Len(q) + 1] = e
         /\ Append(q, e) # <<>> /\ \A i \in 1 .. Len(q) : Append(q, e)[i] = q[i]
OBVIOUS

(* A sequence without its first element. *)
LEMMA Taking ==
  ASSUME NEW S, NEW q \in Seq(S), q # <<>>
  PROVE  /\ Head(q) \in S /\ Tail(q) \in Seq(S) /\ Len(q) \in Nat \ {0} /\ Len(Tail(q)) = Len(q) - 1
         /\ \A i \in 1 .. Len(Tail(q)) : Tail(q)[i] = q[i + 1]
OBVIOUS

(* A part of a sequence. *)
LEMMA Slicing ==
  ASSUME NEW S, NEW q \in Seq(S), NEW m \in Nat, NEW n \in Nat, m >= 1, n <= Len(q), m <= n + 1
  PROVE  /\ SubSeq(q, m, n) \in Seq(S) /\ Len(SubSeq(q, m, n)) = n - m + 1
         /\ \A i \in 1 .. (n - m + 1) : SubSeq(q, m, n)[i] = q[m + i - 1]
OBVIOUS

(* The three kinds of tuple. *)
LEMMA TupleFacts ==
  /\ \A t \in Tuples : t.n \in Nat /\ (t.kind = "data" => t = Data(t.n))
  /\ \A n \in Nat : Data(n) \in Tuples /\ Data(n).kind = "data" /\ Data(n).n = n
  /\ NoTuple \in Tuples /\ NoTuple.kind = "none"
  /\ EndOfAnswer \in Tuples /\ EndOfAnswer.kind = "probe"
<1>1. \A n \in Nat : Data(n) \in Tuples /\ Data(n).kind = "data" /\ Data(n).n = n
  BY Zenon DEF Tuples, Data
<1>2. NoTuple \in Tuples /\ NoTuple.kind = "none" /\ NoTuple.n = 0
  BY Zenon DEF Tuples, NoTuple
<1>3. EndOfAnswer \in Tuples /\ EndOfAnswer.kind = "probe" /\ EndOfAnswer.n = 0
  BY Zenon DEF Tuples, EndOfAnswer
<1>4. \A t \in Tuples : t = NoTuple \/ t = EndOfAnswer \/ \E n \in Nat : t = Data(n)
  BY Zenon DEF Tuples
<1> QED
  BY <1>1, <1>2, <1>3, <1>4

(* A nonempty set of indices has a last one. *)
LEMMA LastMatch ==
  ASSUME NEW m \in Nat, NEW T, T \subseteq 1 .. m, T # {}
  PROVE  \E i \in T : \A j \in T : j <= i
<1> DEFINE U == {m - i : i \in T}
<1>1. U \subseteq Nat /\ U # {}
  <2>1. \A i \in T : i \in 1 .. m
    BY Zenon
  <2>2. \A i \in T : m - i \in Nat
    BY <2>1
  <2> QED
    BY <2>2, Zenon
<1> HIDE DEF U
<1>2. PICK k \in U : \A j \in U : k <= j
  BY <1>1, FirstMatch, Zenon
<1> USE DEF U
<1>3. PICK i \in T : k = m - i
  BY Zenon
<1>4. \A j \in T : m - i <= m - j
  BY <1>2, <1>3, Zenon
<1>5. \A j \in T : j <= i
  BY <1>4
<1> QED
  BY <1>5, Zenon

(* A tuple that joins the batch keeps its place behind the others. *)
LEMMA Appended ==
  ASSUME NEW buf \in Seq(Tuples), NEW head \in 0 .. Len(buf), NEW t \in Tuples,
         NEW sent \in Nat, NEW made \in Nat, InOrder(buf, head, t, sent, made)
  PROVE  InOrder(Append(buf, t), head, NoTuple, sent, made)
<1> PICK b : b = Append(buf, t)
  BY Zenon
<1> PICK l \in Nat : l = Len(buf)
  OBVIOUS
<1>1. /\ Len(b) = l + 1 /\ b[l + 1] = t
      /\ \A i \in 1 .. l : b[i] = buf[i]
  OBVIOUS
<1>2. \A i \in 1 .. l : buf[i] \in Tuples
  OBVIOUS
<1> HIDE DEF Tuples
<1>3. \A k \in (sent + 1) .. made : \E i \in (head + 1) .. (l + 1) : b[i] = Data(k)
  BY <1>1 DEF InOrder
<1>4. ASSUME NEW i \in (head + 1) .. (l + 1), b[i].kind = "data"
      PROVE  /\ b[i].n \in (sent + 1) .. made
             /\ \A j \in (i + 1) .. (l + 1) : b[j].kind = "data" => b[i].n < b[j].n
  <2>1. CASE i = l + 1
    BY <1>1, <1>4, <2>1 DEF InOrder
  <2>2. CASE i \in (head + 1) .. l
    <3>1. b[i] = buf[i] /\ buf[i].kind = "data"
      BY <1>1, <1>4, <2>2
    <3>2. /\ buf[i].n \in (sent + 1) .. made
          /\ t.kind = "data" => buf[i].n < t.n
          /\ \A j \in (i + 1) .. l : buf[j].kind = "data" => buf[i].n < buf[j].n
      BY <2>2, <3>1, Zenon DEF InOrder
    <3>3. ASSUME NEW j \in (i + 1) .. (l + 1), b[j].kind = "data" PROVE buf[i].n < b[j].n
      <4>1. CASE j = l + 1
        BY <1>1, <3>2, <3>3, <4>1, Zenon
      <4>2. CASE j \in (i + 1) .. l
        <5>1. b[j] = buf[j]
          BY <1>1, <2>2, <4>2
        <5> QED
          BY <3>2, <3>3, <4>2, <5>1, Zenon
      <4>3. j = l + 1 \/ j \in (i + 1) .. l
        BY <2>2
      <4> QED
        BY <4>1, <4>2, <4>3, Zenon
    <3> QED
      BY <3>1, <3>2, <3>3, Zenon
  <2> QED
    BY <2>1, <2>2
<1>5. NoTuple.kind # "data"
  BY TupleFacts, Zenon
<1> QED
  BY <1>1, <1>3, <1>4, <1>5, Zenon DEF InOrder

(* Emitting what is held in the buffer leaves t the only tuple held. *)
LEMMA Emitted ==
  ASSUME NEW buf \in Seq(Tuples), NEW head \in 0 .. Len(buf), NEW t \in Tuples,
         NEW sent \in Nat, NEW made \in Nat, InOrder(buf, head, t, sent, made), NEW last,
         LastData(buf, head + 1, Len(buf), last, sent),
         NEW b \in Seq(Tuples)
  PROVE  /\ last \in Nat /\ InOrder(b, Len(b), t, last, made)
         /\ t.kind # "data" => last = made
<1> PICK l \in Nat : l = Len(buf)
  OBVIOUS
<1> PICK m \in Nat : m = Len(b)
  OBVIOUS
<1>0. \A i \in 1 .. l : buf[i] \in Tuples
  OBVIOUS
<1> HIDE DEF Tuples
<1>1. CASE last = sent /\ \A i \in (head + 1) .. Len(buf) : buf[i].kind # "data"
  <2>1. ASSUME NEW k \in (sent + 1) .. made PROVE t = Data(k)
    <3>1. k \in Nat
      OBVIOUS
    <3>2. Data(k).kind = "data"
      BY <3>1, TupleFacts, Zenon
    <3> QED
      BY <1>1, <3>2, Zenon DEF InOrder
  <2>2. sent <= made /\ (t.kind = "data" => t.n \in (sent + 1) .. made)
    BY Zenon DEF InOrder
  <2>3. InOrder(b, Len(b), t, last, made)
    BY <1>1, <2>1, <2>2 DEF InOrder
  <2>4. t.kind # "data" => last = made
    <3>1. Data(made).kind = "data"
      BY TupleFacts, Zenon
    <3>2. made \in (sent + 1) .. made => t.kind = "data"
      BY <2>1, <3>1, Zenon
    <3> QED
      BY <1>1, <2>2, <3>2
  <2> QED
    BY <1>1, <2>3, <2>4, Zenon
<1>2. ASSUME NEW i \in (head + 1) .. Len(buf), buf[i].kind = "data", last = buf[i].n,
             \A j \in (head + 1) .. Len(buf) : buf[j].kind = "data" => j <= i
      PROVE  /\ last \in Nat /\ InOrder(b, Len(b), t, last, made)
             /\ t.kind # "data" => last = made
  <2>1. last \in (sent + 1) .. made /\ (t.kind = "data" => last < t.n)
    BY <1>2, Zenon DEF InOrder
  <2>2. ASSUME NEW k \in (last + 1) .. made PROVE t = Data(k)
    <3>1. k \in (sent + 1) .. made
      BY <2>1
    <3>2. CASE \E j \in (head + 1) .. Len(buf) : buf[j] = Data(k)
      <4>1. PICK j \in (head + 1) .. Len(buf) : buf[j] = Data(k)
        BY <3>2, Zenon
      <4>2. buf[j].kind = "data" /\ buf[j].n = k
        BY <4>1, <2>1, TupleFacts
      <4>3. j <= i
        BY <1>2, <4>2, Zenon
      <4>4. j = i \/ i \in (j + 1) .. Len(buf)
        BY <4>3
      <4>5. i \in (j + 1) .. Len(buf) => buf[j].n < buf[i].n
        BY <1>2, <4>2, Zenon DEF InOrder
      <4>6. k <= last
        BY <1>2, <2>1, <4>2, <4>4, <4>5
      <4> QED
        BY <4>6, <2>1
    <3> QED
      BY <3>1, <3>2, Zenon DEF InOrder
  <2>3. t.kind = "data" => t.n \in (last + 1) .. made
    BY <2>1, TupleFacts DEF InOrder
  <2>4. t.kind # "data" => last = made
    <3>1. Data(made).kind = "data"
      BY TupleFacts, Zenon
    <3>2. made \in (last + 1) .. made => t.kind = "data"
      BY <2>2, <3>1, Zenon
    <3> QED
      BY <2>1, <3>2
  <2>5. InOrder(b, Len(b), t, last, made)
    BY <2>1, <2>2, <2>3 DEF InOrder
  <2> QED
    BY <2>1, <2>4, <2>5
<1> QED
  BY <1>1, <1>2, Zenon DEF LastData

(* Sending the waiting tuple when the buffer holds nothing. *)
LEMMA Sent ==
  ASSUME NEW buf \in Seq(Tuples), NEW t \in Tuples, NEW sent \in Nat, NEW made \in Nat,
         InOrder(buf, Len(buf), t, sent, made), NEW last,
         last = IF t.kind = "data" THEN t.n ELSE sent
  PROVE  last \in Nat /\ InOrder(buf, Len(buf), NoTuple, last, made)
<1> PICK l \in Nat : l = Len(buf)
  OBVIOUS
<1> HIDE DEF Tuples
<1>1. \A k \in (sent + 1) .. made : t = Data(k)
  BY DEF InOrder
<1>2. sent <= made /\ (t.kind = "data" => t.n \in (sent + 1) .. made)
  BY Zenon DEF InOrder
<1>3. last = made
  <2>1. CASE sent = made
    BY <1>2, <2>1
  <2>2. CASE sent < made
    <3>1. made \in (sent + 1) .. made
      BY <2>2
    <3> QED
      BY <1>1, <3>1, TupleFacts, Zenon
  <2> QED
    BY <1>2, <2>1, <2>2
<1> QED
  BY <1>3, TupleFacts DEF InOrder

(* The wrapper hands over the next tuple, or a probe tuple takes the place. *)
LEMMA Taken ==
  ASSUME NEW buf \in Seq(Tuples), NEW head \in 0 .. Len(buf), NEW t \in Tuples,
         NEW sent \in Nat, NEW made \in Nat, InOrder(buf, head, t, sent, made), t.kind # "data"
  PROVE  /\ InOrder(buf, head, Data(made + 1), sent, made + 1)
         /\ InOrder(buf, head, EndOfAnswer, sent, made)
<1> PICK l \in Nat : l = Len(buf)
  OBVIOUS
<1>0. \A i \in 1 .. l : buf[i] \in Tuples
  OBVIOUS
<1> HIDE DEF Tuples
<1>1. \A k \in (sent + 1) .. made : t # Data(k)
  BY TupleFacts
<1>2. InOrder(buf, head, EndOfAnswer, sent, made)
  BY <1>1, TupleFacts, Zenon DEF InOrder
<1>3. InOrder(buf, head, Data(made + 1), sent, made + 1)
  <2>1. \A k \in (sent + 1) .. (made + 1) : k = made + 1 \/ k \in (sent + 1) .. made
    OBVIOUS
  <2>2. Data(made + 1).kind = "data" /\ Data(made + 1).n = made + 1
    BY TupleFacts
  <2>3. ASSUME NEW i \in (head + 1) .. l, buf[i].kind = "data"
        PROVE  buf[i].n \in (sent + 1) .. made
    BY <2>3, Zenon DEF InOrder
  <2>4. ASSUME NEW i \in (head + 1) .. l, buf[i].kind = "data"
        PROVE  /\ buf[i].n \in (sent + 1) .. (made + 1)
               /\ buf[i].n < Data(made + 1).n
    BY <2>2, <2>3, <2>4
  <2> QED
    BY <1>1, <2>1, <2>2, <2>4 DEF InOrder
<1> QED
  BY <1>2, <1>3, Zenon

-----------------------------------------------------------------------------
(* x differs from w at most in the fields F. *)
Alike(x, w, F) == DOMAIN x = DOMAIN w /\ \A f \in DOMAIN w \ F : x[f] = w[f]

(* What a connection holds. *)
Stock(w) ==
  /\ w.tuple \in Tuples /\ w.buf \in Seq(Tuples)
  /\ w.head \in 0 .. Len(w.buf) /\ Len(w.buf) <= ArraySize
  /\ ~Archived(w) => w.buf = <<>>
  /\ w.sent \in Nat /\ w.made \in Nat /\ InOrder(w.buf, w.head, w.tuple, w.sent, w.made)

(* How it goes on. *)
Manner(w) ==
  /\ w.probes \in 0 .. ProbeCap
  /\ w.asleep \in BOOLEAN /\ w.timer \in BOOLEAN /\ w.gen \in BOOLEAN
  /\ w.asleep => w.timer
  /\ w.pull /\ w.mode = "NEXT" => w.probe \/ w.error

Sound(w) == Fields \subseteq DOMAIN w /\ Stock(w) /\ Manner(w)

(* How a connection is called does not depend on the tuples it holds. *)
LEMMA MannerKept ==
  ASSUME NEW w, NEW x, Fields \subseteq DOMAIN w, Manner(w),
         Alike(x, w, {"tuple", "buf", "head", "sent", "made", "q", "grew", "force", "ret", "hasTuple"})
  PROVE  Manner(x)
<1>1. /\ x.probes = w.probes /\ x.asleep = w.asleep /\ x.timer = w.timer /\ x.gen = w.gen
      /\ x.pull = w.pull /\ x.mode = w.mode /\ x.probe = w.probe /\ x.error = w.error
  BY Zenon DEF Alike, Fields
<1> QED
  BY <1>1, Zenon DEF Manner

(* What Emit counts as sent: the last data tuple of the batch. *)
LEMMA EmitFacts ==
  ASSUME NEW w, Fields \subseteq DOMAIN w, NEW ts \in Seq(Tuples), NEW e, e = Emit(w, ts)
  PROVE  /\ Alike(e, w, {"sent"})
         /\ LastData(ts, 1, Len(ts), e.sent, w.sent)
<1> DEFINE data == {i \in DOMAIN ts : ts[i].kind = "data"}
           last == CHOOSE i \in data : \A j \in data : j <= i
<1>1. DOMAIN ts = 1 .. Len(ts) /\ Len(ts) \in Nat
  OBVIOUS
<1>2. CASE data = {}
  <2>1. e = w
    BY <1>2, Zenon DEF Emit
  <2> QED
    BY <1>1, <1>2, <2>1, Zenon DEF Alike, LastData
<1>3. CASE data # {}
  <2>1. e = [w EXCEPT !.sent = ts[last].n]
    BY <1>3, Zenon DEF Emit
  <2>2. last \in data /\ \A j \in data : j <= last
    <3>1. data \subseteq 1 .. Len(ts)
      BY <1>1, Zenon
    <3> HIDE DEF data
    <3>2. \E i \in data : \A j \in data : j <= i
      BY <1>1, <1>3, <3>1, LastMatch, Zenon
    <3> QED
      BY <3>2, Zenon
  <2> HIDE DEF last
  <2>3. Alike(e, w, {"sent"}) /\ e.sent = ts[last].n
    BY <2>1, Zenon DEF Alike, Fields
  <2> QED
    BY <1>1, <2>2, <2>3, Zenon DEF LastData
<1> QED
  BY <1>2, <1>3, Zenon

(* The tuples a flush writes are those not yet written. *)
LEMMA Batch ==
  ASSUME NEW buf \in Seq(Tuples), NEW l \in Nat, l = Len(buf), NEW h \in 0 .. l, NEW ts,
         ts = SubSeq(buf, h + 1, l)
  PROVE  /\ ts \in Seq(Tuples) /\ Len(ts) = l - h
         /\ \A i \in 1 .. (l - h) : ts[i] = buf[h + i]
<1> PICK m \in Nat : m = h + 1
  OBVIOUS
<1>1. \A i \in m .. l : buf[i] \in Tuples
  OBVIOUS
<1>2. /\ ts \in Seq(Tuples) /\ Len(ts) = (IF m <= l THEN l - m + 1 ELSE 0)
      /\ \A i \in 1 .. (l - m + 1) : ts[i] = buf[m + i - 1]
  BY <1>1, Slicing
<1>3. Len(ts) = l - h /\ l - m + 1 = l - h
  BY <1>2
<1>4. \A i \in 1 .. (l - h) : m + i - 1 = h + i
  OBVIOUS
<1> QED
  BY <1>2, <1>3, <1>4, Zenon

(* The last data tuple of the batch is the last one of the buffer. *)
LEMMA LastInBatch ==
  ASSUME NEW buf, NEW l \in Nat, NEW h \in 0 .. l, NEW ts, Len(ts) = l - h,
         \A i \in 1 .. (l - h) : ts[i] = buf[h + i], NEW last, NEW sent,
         LastData(ts, 1, Len(ts), last, sent)
  PROVE  LastData(buf, h + 1, l, last, sent)
<1> PICK d \in Nat : d = l - h
  OBVIOUS
<1>1. \A i \in (h + 1) .. l : i - h \in 1 .. d /\ h + (i - h) = i
  OBVIOUS
<1>2. \A i \in (h + 1) .. l : buf[i] = ts[i - h]
  BY <1>1, Zenon
<1>3. CASE last = sent /\ \A i \in 1 .. Len(ts) : ts[i].kind # "data"
  BY <1>1, <1>2, <1>3, Zenon DEF LastData
<1>4. ASSUME NEW i \in 1 .. d, ts[i].kind = "data", last = ts[i].n,
             \A j \in 1 .. d : ts[j].kind = "data" => j <= i
      PROVE  /\ h + i \in (h + 1) .. l
             /\ buf[h + i].kind = "data" /\ last = buf[h + i].n
             /\ \A j \in (h + 1) .. l : buf[j].kind = "data" => j <= h + i
  <2>1. h + i \in (h + 1) .. l /\ buf[h + i] = ts[i]
    OBVIOUS
  <2>2. ASSUME NEW j \in (h + 1) .. l, buf[j].kind = "data" PROVE j <= h + i
    <3>1. j - h <= i
      BY <1>1, <1>2, <1>4, <2>2, Zenon
    <3> QED
      BY <3>1
  <2> QED
    BY <1>4, <2>1, <2>2, Zenon
<1> QED
  BY <1>3, <1>4, Zenon DEF LastData

(* The flush of processTupleArchived makes room, and sends all of the batch. *)
Flush(w) ==
  LET full == Len(w.buf) = ArraySize
  IN IF ~(full \/ w.force) THEN w
     ELSE [Emit(w, SubSeq(w.buf, w.head + 1, Len(w.buf))) EXCEPT
             !.buf = IF full THEN <<>> ELSE @,
             !.head = IF full THEN 0 ELSE Len(w.buf)]

(* A flush of the batch leaves the current tuple the only one held; a forced
   one leaves nothing behind it. *)
LEMMA FlushFacts ==
  ASSUME NEW w, Sound(w), NEW f, f = Flush(w)
  PROVE  /\ Alike(f, w, {"sent", "buf", "head"})
         /\ Stock(f) /\ Len(f.buf) < ArraySize
         /\ w.force /\ w.tuple.kind # "data" => f.sent = f.made
<1>1. PICK buf \in Seq(Tuples), h \in Nat, t \in Tuples, sent \in Nat, made \in Nat :
        /\ buf = w.buf /\ h = w.head /\ t = w.tuple /\ sent = w.sent /\ made = w.made
        /\ h <= Len(buf) /\ Len(buf) <= ArraySize
        /\ InOrder(buf, h, t, sent, made) /\ (~Archived(w) => buf = <<>>)
  BY DEF Sound, Stock
<1>2. PICK l \in Nat : l = Len(buf) /\ h \in 0 .. l /\ l <= ArraySize
  BY <1>1
<1>3. ArraySize \in Nat \ {0}
  BY WrapConstants, Zenon
<1>4. CASE ~(l = ArraySize \/ w.force)
  <2>1. f = w
    BY <1>1, <1>2, <1>4, Zenon DEF Flush
  <2>2. Stock(f) /\ Alike(f, w, {"sent", "buf", "head"})
    BY <2>1, Zenon DEF Sound, Alike
  <2>3. l < ArraySize
    BY <1>2, <1>3, <1>4
  <2> QED
    BY <1>1, <1>2, <1>4, <2>1, <2>2, <2>3, Zenon
<1>5. CASE l = ArraySize \/ w.force
  <2>0. PICK ts : ts = SubSeq(buf, h + 1, l)
    BY Zenon
  <2>1. /\ ts \in Seq(Tuples) /\ Len(ts) = l - h
        /\ \A i \in 1 .. (l - h) : ts[i] = buf[h + i]
    BY <1>2, <2>0, Batch
  <2>2. PICK e : e = Emit(w, ts)
    BY Zenon
  <2>3. PICK last : last = e.sent
    BY Zenon
  <2>4. /\ Alike(e, w, {"sent"})
        /\ LastData(ts, 1, Len(ts), last, sent)
    BY <1>1, <2>1, <2>2, <2>3, EmitFacts, Zenon DEF Sound
  <2>5. LastData(buf, h + 1, l, last, sent)
    BY <1>2, <2>1, <2>4, LastInBatch, Zenon
  <2>6. PICK b \in Seq(Tuples) : b = IF l = ArraySize THEN <<>> ELSE buf
    BY EmptySequence, Zenon
  <2>7. Len(b) < ArraySize /\ Len(b) = IF l = ArraySize THEN 0 ELSE l
    <3>1. CASE l = ArraySize
      BY <1>3, <2>6, <3>1, EmptySequence
    <3>2. CASE l # ArraySize
      BY <1>2, <1>3, <2>6, <3>2
    <3> QED
      BY <3>1, <3>2, Zenon
  <2>8. /\ last \in Nat /\ InOrder(b, Len(b), t, last, made)
        /\ t.kind # "data" => last = made
    <3>1. h \in 0 .. Len(buf) /\ InOrder(buf, h, t, sent, made)
      BY <1>1, <1>2, Zenon
    <3>2. LastData(buf, h + 1, Len(buf), last, sent)
      BY <1>2, <2>5, Zenon
    <3> QED
      BY <3>1, <3>2, Emitted
  <2>9. f = [e EXCEPT !.buf = IF l = ArraySize THEN <<>> ELSE @, !.head = IF l = ArraySize THEN 0 ELSE l]
    BY <1>1, <1>2, <1>5, <2>0, <2>2, Zenon DEF Flush
  <2>10. e.buf = buf /\ e.tuple = t /\ e.made = made /\ e.name = w.name /\ Fields \subseteq DOMAIN e
    BY <1>1, <2>4, Zenon DEF Alike, Sound, Fields
  <2>11. /\ Alike(f, e, {"buf", "head"})
         /\ f.sent = last /\ f.buf = b /\ f.head = Len(b) /\ f.tuple = t
         /\ f.made = made /\ f.name = w.name
    BY <2>3, <2>6, <2>7, <2>9, <2>10, Zenon DEF Alike, Fields
  <2>12. Alike(f, w, {"sent", "buf", "head"})
    BY <2>4, <2>11, Zenon DEF Alike
  <2>13. ~Archived(f) => b = <<>>
    BY <1>1, <2>6, <2>11, Zenon DEF Archived
  <2>14. Len(b) \in 0 .. Len(b) /\ Len(b) <= ArraySize
    BY <1>3, <2>7
  <2>15. Stock(f)
    BY <2>8, <2>11, <2>13, <2>14, Zenon DEF Stock
  <2> QED
    BY <1>1, <2>7, <2>8, <2>11, <2>12, <2>15, Zenon
<1> QED
  BY <1>4, <1>5, Zenon

(* processTupleArchived always takes the tuple. *)
LEMMA ArchivedFacts ==
  ASSUME NEW w, Sound(w), Archived(w), NEW x, x = processTupleArchived(w)
  PROVE  /\ Sound(x) /\ Alike(x, w, {"sent", "buf", "head", "tuple"})
         /\ x.tuple = NoTuple
         /\ w.force /\ w.tuple = NoTuple => x.sent = x.made
<1>1. PICK f : f = Flush(w)
  BY Zenon
<1>2. /\ Alike(f, w, {"sent", "buf", "head"})
      /\ Stock(f) /\ Len(f.buf) < ArraySize
      /\ w.force /\ w.tuple.kind # "data" => f.sent = f.made
  BY <1>1, FlushFacts, Zenon
<1>3. x = IF w.tuple = NoTuple THEN f
          ELSE [f EXCEPT !.buf = Append(@, w.tuple), !.tuple = NoTuple]
  BY <1>1, Zenon DEF Flush, processTupleArchived
<1>4. /\ Fields \subseteq DOMAIN f /\ f.tuple = w.tuple /\ f.name = w.name
  BY <1>2, Zenon DEF Alike, Sound, Fields
<1>5. CASE w.tuple = NoTuple
  <2>1. x = f
    BY <1>3, <1>5, Zenon
  <2>2. Alike(x, w, {"sent", "buf", "head", "tuple"})
    BY <1>2, <2>1, Zenon DEF Alike
  <2>3. Manner(x)
    <3>1. Alike(x, w, {"tuple", "buf", "head", "sent", "made", "q", "grew", "force", "ret", "hasTuple"})
      BY <2>2, Zenon DEF Alike
    <3> QED
      BY <3>1, MannerKept, Zenon DEF Sound
  <2>4. NoTuple.kind # "data"
    BY TupleFacts, Zenon
  <2> QED
    BY <1>2, <1>4, <1>5, <2>1, <2>2, <2>3, <2>4, Zenon DEF Sound
<1>6. CASE w.tuple # NoTuple
  <2>1. x = [f EXCEPT !.buf = Append(@, w.tuple), !.tuple = NoTuple]
    BY <1>3, <1>6, Zenon
  <2>2. PICK buf \in Seq(Tuples), h \in Nat, t \in Tuples, sent \in Nat, made \in Nat :
          /\ buf = f.buf /\ h = f.head /\ t = w.tuple /\ sent = f.sent /\ made = f.made
          /\ h <= Len(buf) /\ Len(buf) < ArraySize /\ InOrder(buf, h, t, sent, made)
    BY <1>2, <1>4 DEF Stock
  <2>3. PICK b : b = Append(buf, t)
    BY Zenon
  <2>4. b \in Seq(Tuples) /\ Len(b) = Len(buf) + 1
    BY <2>3
  <2>5. InOrder(b, h, NoTuple, sent, made)
    <3>1. h \in 0 .. Len(buf) /\ InOrder(buf, h, t, sent, made)
      BY <2>2
    <3> QED
      BY <2>3, <3>1, Appended, Zenon
  <2>6. h \in 0 .. Len(b) /\ Len(b) <= ArraySize
    <3>1. ArraySize \in Nat /\ Len(buf) \in Nat
      BY WrapConstants
    <3> QED
      BY <2>2, <2>4, <3>1
  <2>7. /\ Alike(x, f, {"buf", "tuple"})
        /\ x.buf = b /\ x.tuple = NoTuple /\ x.head = h /\ x.sent = sent /\ x.made = made
        /\ x.name = w.name
    BY <1>4, <2>1, <2>2, <2>3, Zenon DEF Alike, Fields
  <2>8. Alike(x, w, {"sent", "buf", "head", "tuple"})
    BY <1>2, <2>7, Zenon DEF Alike
  <2>9. Stock(x)
    <3>1. Archived(x)
      BY <2>7, Zenon DEF Archived
    <3> QED
      BY <2>4, <2>5, <2>6, <2>7, <3>1, TupleFacts, Zenon DEF Stock
  <2>10. Manner(x)
    <3>1. Alike(x, w, {"tuple", "buf", "head", "sent", "made", "q", "grew", "force", "ret", "hasTuple"})
      BY <2>8, Zenon DEF Alike
    <3> QED
      BY <3>1, MannerKept, Zenon DEF Sound
  <2> QED
    BY <1>4, <1>6, <2>7, <2>8, <2>9, <2>10, Zenon DEF Sound, Alike
<1> QED
  BY <1>5, <1>6, Zenon

(* A tuple as a batch of one. *)
LEMMA Single ==
  ASSUME NEW t \in Tuples
  PROVE  \E ts \in Seq(Tuples) : ts = <<t>> /\ Len(ts) = 1 /\ ts[1] = t
<1>1. <<t>> \in Seq(Tuples)
  OBVIOUS
<1>2. Len(<<t>>) = 1 /\ <<t>>[1] = t
  BY Zenon
<1> QED
  BY <1>1, <1>2, Zenon

(* enqueue_tuple_direct sends the waiting tuple or leaves all as it is. *)
LEMMA DirectFacts ==
  ASSUME NEW w, Sound(w), ~Archived(w), "q" \in DOMAIN w, w.q \in 0 .. QueueCap,
         NEW x, x = enqueue_tuple_direct(w)
  PROVE  /\ Sound(x) /\ Alike(x, w, {"sent", "tuple", "q"})
         /\ x.q \in 0 .. QueueCap
<1>1. CASE w.q = QueueCap
  <2>1. x = w
    BY <1>1, Zenon DEF enqueue_tuple_direct
  <2> QED
    BY <2>1, Zenon DEF Alike
<1>2. CASE w.q # QueueCap
  <2>1. PICK buf \in Seq(Tuples), h \in Nat, t \in Tuples, sent \in Nat, made \in Nat :
          /\ buf = w.buf /\ h = w.head /\ t = w.tuple /\ sent = w.sent /\ made = w.made
          /\ h <= Len(buf) /\ Len(buf) <= ArraySize /\ InOrder(buf, h, t, sent, made)
          /\ buf = <<>>
    BY DEF Sound, Stock
  <2>2. h = Len(buf)
    BY <2>1
  <2>3. PICK ts \in Seq(Tuples) : ts = <<t>> /\ Len(ts) = 1 /\ ts[1] = t
    BY Single, Zenon
  <2>4. Len(ts) = 1 /\ ts[1] = t
    BY <2>3, Zenon
  <2>5. PICK e : e = Emit(w, ts)
    BY Zenon
  <2>6. Alike(e, w, {"sent"}) /\ LastData(ts, 1, Len(ts), e.sent, sent)
    BY <2>1, <2>5, EmitFacts, Zenon DEF Sound
  <2>7. PICK last : last = e.sent
    BY Zenon
  <2>8. last = IF t.kind = "data" THEN t.n ELSE sent
    BY <2>4, <2>6, <2>7 DEF LastData
  <2>9. last \in Nat /\ InOrder(buf, h, NoTuple, last, made)
    <3>1. InOrder(buf, Len(buf), t, sent, made)
      BY <2>1, <2>2, Zenon
    <3>2. last \in Nat /\ InOrder(buf, Len(buf), NoTuple, last, made)
      BY <2>8, <3>1, Sent, Zenon
    <3> QED
      BY <2>2, <3>2, Zenon
  <2>10. x = [e EXCEPT !.q = @ + 1, !.tuple = NoTuple]
    BY <1>2, <2>1, <2>3, <2>5, Zenon DEF enqueue_tuple_direct
  <2>11. /\ DOMAIN e = DOMAIN w /\ Fields \subseteq DOMAIN e /\ e.q = w.q
         /\ e.buf = buf /\ e.head = h /\ e.made = made /\ e.name = w.name
    BY <2>1, <2>6, Zenon DEF Alike, Sound, Fields
  <2>12. /\ Alike(x, e, {"q", "tuple"})
         /\ x.buf = buf /\ x.tuple = NoTuple /\ x.head = h /\ x.sent = last /\ x.made = made
         /\ x.name = w.name /\ x.q = w.q + 1
    BY <2>7, <2>10, <2>11, Zenon DEF Alike, Fields
  <2>13. Alike(x, w, {"sent", "tuple", "q"})
    BY <2>6, <2>12, Zenon DEF Alike
  <2>14. Stock(x)
    <3>1. h \in 0 .. Len(buf)
      BY <2>1
    <3> QED
      BY <2>1, <2>9, <2>12, <3>1, TupleFacts, Zenon DEF Stock
  <2>15. Manner(x)
    <3>1. Alike(x, w, {"tuple", "buf", "head", "sent", "made", "q", "grew", "force", "ret", "hasTuple"})
      BY <2>13, Zenon DEF Alike
    <3> QED
      BY <3>1, MannerKept, Zenon DEF Sound
  <2>16. x.q \in 0 .. QueueCap
    <3>1. QueueCap \in Nat
      BY WrapConstants, Zenon
    <3> QED
      BY <1>2, <2>12, <3>1
  <2> QED
    BY <2>11, <2>12, <2>13, <2>14, <2>15, <2>16, Zenon DEF Sound, Alike
<1> QED
  BY <1>1, <1>2, Zenon

-----------------------------------------------------------------------------
(* A connection in the middle of a call. *)
Working(w) == Sound(w) /\ Results \subseteq DOMAIN w /\ w.q \in 0 .. QueueCap

(* processTuple keeps the tuples in order, whether it writes, enqueues or
   keeps the tuple for later. *)
LEMMA ProcessTupleFacts ==
  ASSUME NEW w, Working(w), NEW x, x = processTuple(w)
  PROVE  /\ Working(x) /\ Alike(x, w, {"sent", "buf", "head", "tuple", "q"})
         /\ Archived(w) => x.tuple = NoTuple
<1>1. CASE Archived(w)
  <2>1. /\ Sound(x) /\ Alike(x, w, {"sent", "buf", "head", "tuple"})
        /\ x.tuple = NoTuple
    BY <1>1, ArchivedFacts, Zenon DEF processTuple, Working
  <2>2. DOMAIN x = DOMAIN w /\ x.q = w.q
    BY <2>1, Zenon DEF Alike, Working, Results
  <2>3. Alike(x, w, {"sent", "buf", "head", "tuple", "q"})
    BY <2>1, Zenon DEF Alike
  <2> QED
    BY <2>1, <2>2, <2>3, Zenon DEF Working
<1>2. CASE ~Archived(w)
  <2>1. /\ Sound(x) /\ Alike(x, w, {"sent", "tuple", "q"})
        /\ x.q \in 0 .. QueueCap
    BY <1>2, DirectFacts, Zenon DEF processTuple, Working, Results
  <2>2. Alike(x, w, {"sent", "buf", "head", "tuple", "q"}) /\ DOMAIN x = DOMAIN w
    BY <2>1, Zenon DEF Alike
  <2> QED
    BY <1>2, <2>1, <2>2, Zenon DEF Working
<1> QED
  BY <1>1, <1>2, Zenon

Modes == {"INIT", "RESCAN", "NEXT", "DONE"}

(* Before the wrapper is called. *)
Ready(x) == x.ret = TRUE /\ x.hasTuple = FALSE /\ x.doneWithProbe = FALSE /\ x.mode \in Modes

(* What a wrapper may change, *)
Private == {"ret", "error", "begun", "mode", "fd", "probe", "probes", "buffered", "hasTuple",
            "gen", "timer", "doneWithProbe", "asleep"}

(* and what it returns. *)
Returned(y) ==
  /\ y.ret \in BOOLEAN /\ y.hasTuple \in BOOLEAN /\ y.doneWithProbe \in BOOLEAN
  /\ y.hasTuple => y.ret /\ ~y.doneWithProbe
  /\ ~y.ret => y.error
  /\ y.mode \in Modes \cup {"END", "CRASH"}
  /\ y.mode \in {"END", "CRASH"} => y.ret /\ ~y.hasTuple /\ ~y.doneWithProbe

Called(y, x) == Working(y) /\ Alike(y, x, Private) /\ Returned(y)

(* The tuples held depend on these fields only. *)
LEMMA StockKept ==
  ASSUME NEW x, NEW y, Fields \subseteq DOMAIN x, Stock(x), DOMAIN y = DOMAIN x,
         y.tuple = x.tuple, y.buf = x.buf, y.head = x.head, y.sent = x.sent, y.made = x.made,
         y.name = x.name
  PROVE  Stock(y)
  BY Zenon DEF Stock, Archived

(* A wrapper call that leaves the tuples alone. *)
LEMMA CalledIf ==
  ASSUME NEW x, NEW y, Working(x), Alike(y, x, Private), Manner(y), Returned(y)
  PROVE  Called(y, x)
<1>1. /\ DOMAIN y = DOMAIN x /\ y.q = x.q
      /\ y.tuple = x.tuple /\ y.buf = x.buf /\ y.head = x.head /\ y.sent = x.sent
      /\ y.made = x.made /\ y.name = x.name
  BY Zenon DEF Alike, Private, Working, Sound, Fields, Results
<1>2. Stock(y)
  BY <1>1, StockKept, Zenon DEF Working, Sound
<1> QED
  BY <1>1, <1>2, Zenon DEF Called, Working, Sound

(* A wrapper call that reports an error. *)
LEMMA FailFacts ==
  ASSUME NEW x, NEW p, Called(p, x), p.mode \in Modes, p.hasTuple = FALSE
  PROVE  Called(Fail(p), x)
<1>1. PICK y : y = Fail(p)
  BY Zenon
<1>2. Alike(y, p, {"ret", "error"}) /\ y.ret = FALSE /\ y.error = TRUE
  BY <1>1, Zenon DEF Fail, Alike, Called, Working, Sound, Fields, Results
<1>3. /\ Fields \subseteq DOMAIN p /\ Results \subseteq DOMAIN p /\ DOMAIN y = DOMAIN p
      /\ y.q = p.q /\ y.tuple = p.tuple /\ y.buf = p.buf /\ y.head = p.head /\ y.sent = p.sent
      /\ y.made = p.made /\ y.name = p.name
      /\ y.probes = p.probes /\ y.asleep = p.asleep /\ y.timer = p.timer /\ y.gen = p.gen
      /\ y.mode = p.mode /\ y.hasTuple = p.hasTuple /\ y.doneWithProbe = p.doneWithProbe
  BY <1>2, Zenon DEF Alike, Called, Working, Sound, Fields, Results
<1>4. Stock(y)
  BY <1>3, StockKept, Zenon DEF Called, Working, Sound
<1>5. Manner(y)
  BY <1>2, <1>3, Zenon DEF Called, Working, Sound, Manner
<1>6. Returned(y)
  BY <1>2, <1>3, Zenon DEF Called, Returned, Modes
<1>7. Alike(y, x, Private)
  BY <1>2, <1>3, Zenon DEF Alike, Called, Private
<1> QED
  BY <1>1, <1>3, <1>4, <1>5, <1>6, <1>7, Zenon DEF Called, Working, Sound

(* The init call of a wrapper. *)
LEMMA InitFacts ==
  ASSUME NEW x, Working(x), Ready(x), x.mode = "INIT", NEW y \in csv_init(x)
  PROVE  Called(y, x)
<1>1. PICK ok : ok = [x EXCEPT !.begun = TRUE, !.mode = IF x.pull THEN "RESCAN" ELSE "NEXT"]
  BY Zenon
<1>2. y = [ok EXCEPT !.fd = TRUE] \/ y = Fail(x) \/ (x.pull /\ y = Fail(ok))
  BY <1>1, Zenon DEF csv_init
<1>3. /\ Alike(ok, x, {"begun", "mode"}) /\ ok.mode = IF x.pull THEN "RESCAN" ELSE "NEXT"
      /\ ok.ret = TRUE /\ ok.hasTuple = FALSE /\ ok.doneWithProbe = FALSE
  BY <1>1, Zenon DEF Alike, Working, Sound, Fields, Results, Ready
<1>4. Manner(x)
  BY Zenon DEF Working, Sound
<1>5. /\ ok.probes = x.probes /\ ok.asleep = x.asleep /\ ok.timer = x.timer /\ ok.gen = x.gen
      /\ ok.pull = x.pull /\ ok.probe = x.probe /\ ok.error = x.error
      /\ Fields \subseteq DOMAIN ok /\ DOMAIN ok = DOMAIN x /\ Results \subseteq DOMAIN ok
  BY <1>3, Zenon DEF Alike, Working, Sound, Fields
<1>6. Called(ok, x)
  <2>1. Manner(ok)
    BY <1>3, <1>4, <1>5, Zenon DEF Manner
  <2>2. Returned(ok)
    BY <1>3, Zenon DEF Returned, Modes
  <2>3. Alike(ok, x, Private)
    BY <1>3, Zenon DEF Alike, Private
  <2> QED
    BY <2>1, <2>2, <2>3, CalledIf, Zenon
<1>7. CASE y = [ok EXCEPT !.fd = TRUE]
  <2>1. Alike(y, ok, {"fd"})
    BY <1>5, <1>7, Zenon DEF Alike, Fields
  <2>2. Alike(y, x, Private)
    BY <1>3, <2>1, Zenon DEF Alike, Private
  <2>3. /\ y.probes = x.probes /\ y.asleep = x.asleep /\ y.timer = x.timer /\ y.gen = x.gen
        /\ y.pull = x.pull /\ y.probe = x.probe /\ y.error = x.error /\ y.mode = ok.mode
        /\ y.ret = TRUE /\ y.hasTuple = FALSE /\ y.doneWithProbe = FALSE
    BY <1>3, <1>5, <2>1, Zenon DEF Alike, Fields, Results
  <2>4. Manner(y) /\ Returned(y)
    BY <1>3, <1>4, <2>3, Zenon DEF Manner, Returned, Modes
  <2> QED
    BY <2>2, <2>4, CalledIf, Zenon
<1>8. CASE y = Fail(x)
  <2>1. Called(x, x)
    BY Zenon DEF Called, Alike, Returned, Ready
  <2> QED
    BY <1>8, <2>1, FailFacts, Zenon DEF Ready
<1>9. CASE x.pull /\ y = Fail(ok)
  BY <1>3, <1>6, <1>9, FailFacts, Zenon DEF Modes
<1> QED
  BY <1>2, <1>7, <1>8, <1>9, Zenon

(* A call that does nothing. *)
LEMMA Itself ==
  ASSUME NEW x, Working(x), Ready(x)
  PROVE  Called(x, x)
  BY Zenon DEF Called, Alike, Returned, Ready

(* The rescan call takes a probe, or waits for one. *)
LEMMA RescanFacts ==
  ASSUME NEW x, Working(x), Ready(x), x.mode = "RESCAN", NEW y \in web_rescan(x)
  PROVE  Called(y, x)
<1>1. CASE ~x.probe /\ x.probes = 0
  <2>1. y = x
    BY <1>1, Zenon DEF web_rescan
  <2> QED
    BY <2>1, Itself, Zenon
<1>2. CASE ~(~x.probe /\ x.probes = 0)
  <2>1. PICK p : p = IF x.probe THEN x ELSE [x EXCEPT !.probe = TRUE, !.probes = @ - 1]
    BY Zenon
  <2>2. y = [p EXCEPT !.mode = "NEXT"] \/ y = Fail(p)
    BY <1>2, <2>1, Zenon DEF web_rescan
  <2>3. Alike(p, x, {"probe", "probes"}) /\ p.probe /\ p.probes = (IF x.probe THEN x.probes ELSE x.probes - 1)
    BY <2>1, Zenon DEF Alike, Working, Sound, Fields
  <2>4. p.probes \in 0 .. ProbeCap
    <3>1. x.probes \in 0 .. ProbeCap /\ ProbeCap \in Nat
      BY WrapConstants, Zenon DEF Working, Sound, Manner
    <3> QED
      BY <1>2, <2>3, <3>1
  <2>5. /\ p.asleep = x.asleep /\ p.timer = x.timer /\ p.gen = x.gen /\ p.mode = x.mode
        /\ p.pull = x.pull /\ p.error = x.error
        /\ p.ret = x.ret /\ p.hasTuple = x.hasTuple /\ p.doneWithProbe = x.doneWithProbe
        /\ Fields \subseteq DOMAIN p /\ DOMAIN p = DOMAIN x /\ Results \subseteq DOMAIN p
    BY <2>3, Zenon DEF Alike, Working, Sound, Fields, Results
  <2>6. Called(p, x)
    <3>1. Manner(p)
      BY <2>4, <2>5, Zenon DEF Manner, Working, Sound
    <3>2. Returned(p)
      BY <2>5, Zenon DEF Returned, Ready
    <3>3. Alike(p, x, Private)
      BY <2>3, Zenon DEF Alike, Private
    <3> QED
      BY <3>1, <3>2, <3>3, CalledIf, Zenon
  <2>7. CASE y = [p EXCEPT !.mode = "NEXT"]
    <3>1. Alike(y, p, {"mode"}) /\ y.mode = "NEXT"
      BY <2>5, <2>7, Zenon DEF Alike, Fields
    <3>2. Alike(y, x, Private)
      BY <2>3, <3>1, Zenon DEF Alike, Private
    <3>3. /\ y.probes = p.probes /\ y.asleep = x.asleep /\ y.timer = x.timer /\ y.gen = x.gen
          /\ y.probe = p.probe
          /\ y.ret = TRUE /\ y.hasTuple = FALSE /\ y.doneWithProbe = FALSE
      BY <2>5, <3>1, Zenon DEF Alike, Fields, Results, Ready
    <3>4. Manner(y)
      BY <2>3, <2>4, <3>3, Zenon DEF Manner, Working, Sound
    <3>5. Returned(y)
      BY <3>1, <3>3, Zenon DEF Returned, Modes
    <3> QED
      BY <3>2, <3>4, <3>5, CalledIf, Zenon
  <2>8. CASE y = Fail(p)
    BY <2>5, <2>6, <2>8, FailFacts, Zenon DEF Ready
  <2> QED
    BY <2>2, <2>7, <2>8, Zenon
<1> QED
  BY <1>1, <1>2, Zenon

(* A change of the wrapper's result that leaves probe, mode and error alone. *)
LEMMA NextIf ==
  ASSUME NEW x, Working(x), Ready(x), NEW y,
         Alike(y, x, {"buffered", "hasTuple", "gen", "timer", "asleep", "doneWithProbe"}),
         y.timer \in BOOLEAN, y.asleep \in BOOLEAN, y.gen \in BOOLEAN, y.asleep => y.timer,
         y.hasTuple \in BOOLEAN, y.doneWithProbe \in BOOLEAN, ~(y.hasTuple /\ y.doneWithProbe)
  PROVE  Called(y, x)
<1>1. /\ y.probes = x.probes /\ y.mode = x.mode /\ y.pull = x.pull /\ y.error = x.error
      /\ y.probe = x.probe /\ y.ret = x.ret
  BY Zenon DEF Alike, Working, Sound, Fields, Results
<1>2. Manner(y)
  BY <1>1, Zenon DEF Manner, Working, Sound
<1>3. Returned(y)
  BY <1>1, Zenon DEF Returned, Ready, Modes
<1>4. Alike(y, x, Private)
  BY Zenon DEF Alike, Private
<1> QED
  BY <1>2, <1>3, <1>4, CalledIf, Zenon

(* The next call returns a tuple, the end of an answer, nothing yet, or an
   error. *)
LEMMA NextFacts ==
  ASSUME NEW x, Working(x), Ready(x), x.mode = "NEXT", NEW timeout \in BOOLEAN,
         timeout => x.asleep = FALSE, NEW y \in csv_next(x, timeout)
  PROVE  Called(y, x)
<1>1. /\ x.asleep \in BOOLEAN /\ x.timer \in BOOLEAN /\ x.gen \in BOOLEAN /\ (x.asleep => x.timer)
      /\ Fields \subseteq DOMAIN x /\ Results \subseteq DOMAIN x
  BY Zenon DEF Working, Sound, Manner
<1> DEFINE gen == x.name \in GenNames
           more == [x EXCEPT !.buffered = TRUE]
<1>2. \/ timeout /\ y = [x EXCEPT !.hasTuple = TRUE, !.timer = x.gen]
      \/ \E b \in BOOLEAN : y = [x EXCEPT !.buffered = b]
      \/ y = Fail(x) \/ y = Fail(more)
      \/ y = [x EXCEPT !.mode = "DONE"]
      \/ y = [more EXCEPT !.doneWithProbe = TRUE]
      \/ \E l : /\ \E b \in BOOLEAN : l = [x EXCEPT !.buffered = b]
                /\ y = [l EXCEPT !.hasTuple = TRUE, !.gen = gen, !.timer = @ \/ (gen /\ ~x.gen)]
      \/ y = [x EXCEPT !.asleep = TRUE, !.timer = TRUE]
  <2> DEFINE lines == {[x EXCEPT !.buffered = b] : b \in BOOLEAN}
             tuples == {[l EXCEPT !.hasTuple = TRUE, !.gen = gen, !.timer = @ \/ (gen /\ ~x.gen)] :
                          l \in lines}
             ends == IF x.buffered THEN {} ELSE {[x EXCEPT !.mode = "DONE"]}
             answered == IF x.pull THEN {[more EXCEPT !.doneWithProbe = TRUE]} ELSE {}
             data == IF x.made = Limit(x) THEN {}
                     ELSE IF x.name \notin SleepNames THEN tuples
                     ELSE {[x EXCEPT !.asleep = TRUE, !.timer = TRUE]}
  <2>1. CASE timeout
    BY <2>1, Zenon DEF csv_next
  <2>2. CASE ~timeout
    <3>1. y \in UNION {lines, {Fail(x), Fail(more)}, ends, answered, data}
      BY <2>2, Zenon DEF csv_next
    <3>2. y \in lines \/ y \in {Fail(x), Fail(more)} \/ y \in ends \/ y \in answered \/ y \in data
      <4> HIDE DEF lines, ends, answered, data, more
      <4> QED
        BY <3>1, Zenon
    <3>3. y \in lines => \E b \in BOOLEAN : y = [x EXCEPT !.buffered = b]
      BY Zenon
    <3>4. y \in ends => y = [x EXCEPT !.mode = "DONE"]
      BY Zenon
    <3>5. y \in answered => y = [more EXCEPT !.doneWithProbe = TRUE]
      BY Zenon
    <3>6. y \in data => y \in tuples \/ y = [x EXCEPT !.asleep = TRUE, !.timer = TRUE]
      BY Zenon
    <3>7. y \in tuples =>
            \E l : /\ \E b \in BOOLEAN : l = [x EXCEPT !.buffered = b]
                  /\ y = [l EXCEPT !.hasTuple = TRUE, !.gen = gen, !.timer = @ \/ (gen /\ ~x.gen)]
      BY Zenon
    <3> QED
      BY <3>2, <3>3, <3>4, <3>5, <3>6, <3>7, Zenon
  <2> QED
    BY <2>1, <2>2, Zenon
<1>3. CASE timeout /\ y = [x EXCEPT !.hasTuple = TRUE, !.timer = x.gen]
  <2>1. /\ Alike(y, x, {"hasTuple", "timer"}) /\ y.hasTuple = TRUE /\ y.timer = x.gen
    BY <1>1, <1>3, Zenon DEF Alike, Fields, Results
  <2>2. y.asleep = FALSE /\ y.gen = x.gen /\ y.doneWithProbe = FALSE
    BY <1>1, <1>3, <2>1, Zenon DEF Alike, Fields, Results, Ready
  <2>3. Alike(y, x, {"buffered", "hasTuple", "gen", "timer", "asleep", "doneWithProbe"})
    BY <2>1, Zenon DEF Alike
  <2> QED
    BY <1>1, <2>1, <2>2, <2>3, NextIf, Zenon
<1>4. ASSUME NEW b \in BOOLEAN, NEW l, l = [x EXCEPT !.buffered = b]
      PROVE  /\ Called(l, x) /\ Alike(l, x, {"buffered"}) /\ l.mode = x.mode /\ l.hasTuple = FALSE
             /\ l.timer = x.timer /\ l.asleep = x.asleep /\ l.gen = x.gen /\ l.doneWithProbe = FALSE
             /\ Fields \subseteq DOMAIN l /\ Results \subseteq DOMAIN l
  <2>1. Alike(l, x, {"buffered"})
    BY <1>1, <1>4, Zenon DEF Alike, Fields
  <2>2. /\ l.mode = x.mode /\ l.hasTuple = FALSE
        /\ l.timer = x.timer /\ l.asleep = x.asleep /\ l.gen = x.gen /\ l.doneWithProbe = FALSE
        /\ Fields \subseteq DOMAIN l /\ Results \subseteq DOMAIN l
    BY <1>1, <2>1, Zenon DEF Alike, Fields, Results, Ready
  <2>3. Alike(l, x, {"buffered", "hasTuple", "gen", "timer", "asleep", "doneWithProbe"})
    BY <2>1, Zenon DEF Alike
  <2>4. Called(l, x)
    BY <1>1, <2>2, <2>3, NextIf, Zenon
  <2> QED
    BY <2>1, <2>2, <2>4, Zenon
<1>5. CASE y = Fail(x)
  BY <1>5, Itself, FailFacts, Zenon DEF Ready
<1>6. CASE y = Fail(more)
  <2>1. PICK m : m = more
    BY Zenon
  <2>2. Called(m, x) /\ m.mode = x.mode /\ m.hasTuple = FALSE
    BY <1>4, <2>1, Zenon
  <2> QED
    BY <1>6, <2>1, <2>2, FailFacts, Zenon DEF Ready
<1>7. CASE y = [x EXCEPT !.mode = "DONE"]
  <2>1. Alike(y, x, {"mode"}) /\ y.mode = "DONE"
    BY <1>1, <1>7, Zenon DEF Alike, Fields
  <2>2. /\ y.probes = x.probes /\ y.asleep = x.asleep /\ y.timer = x.timer /\ y.gen = x.gen
        /\ y.ret = TRUE /\ y.hasTuple = FALSE /\ y.doneWithProbe = FALSE
    BY <1>1, <2>1, Zenon DEF Alike, Fields, Results, Ready
  <2>3. y.mode # "NEXT"
    BY <2>1, Zenon
  <2>4. Manner(y)
    BY <2>2, <2>3, Zenon DEF Manner, Working, Sound
  <2>5. Returned(y)
    BY <2>1, <2>2, Zenon DEF Returned, Modes
  <2>6. Alike(y, x, Private)
    BY <2>1, Zenon DEF Alike, Private
  <2> QED
    BY <2>4, <2>5, <2>6, CalledIf, Zenon
<1>8. CASE y = [more EXCEPT !.doneWithProbe = TRUE]
  <2>1. PICK m : m = more
    BY Zenon
  <2>2. /\ Alike(m, x, {"buffered"}) /\ m.hasTuple = FALSE
        /\ m.timer = x.timer /\ m.asleep = x.asleep /\ m.gen = x.gen
        /\ Fields \subseteq DOMAIN m /\ Results \subseteq DOMAIN m
    BY <1>4, <2>1, Zenon
  <2>3. /\ Alike(y, m, {"doneWithProbe"}) /\ y.hasTuple = FALSE
        /\ y.timer = x.timer /\ y.asleep = x.asleep /\ y.gen = x.gen /\ y.doneWithProbe = TRUE
    BY <1>8, <2>1, <2>2, Zenon DEF Alike, Fields, Results
  <2>4. Alike(y, x, {"buffered", "hasTuple", "gen", "timer", "asleep", "doneWithProbe"})
    BY <2>2, <2>3, Zenon DEF Alike
  <2> QED
    BY <1>1, <2>3, <2>4, NextIf, Zenon
<1>9. ASSUME NEW b \in BOOLEAN, NEW l, l = [x EXCEPT !.buffered = b],
             y = [l EXCEPT !.hasTuple = TRUE, !.gen = gen, !.timer = @ \/ (gen /\ ~x.gen)]
      PROVE  Called(y, x)
  <2>1. /\ Alike(l, x, {"buffered"}) /\ l.doneWithProbe = FALSE
        /\ l.timer = x.timer /\ l.asleep = x.asleep /\ l.gen = x.gen
        /\ Fields \subseteq DOMAIN l /\ Results \subseteq DOMAIN l
    BY <1>4, <1>9, Zenon
  <2>2. PICK g \in BOOLEAN : g = gen
    <3>1. CASE gen
      <4>1. TRUE = gen
        BY <3>1, Zenon
      <4> QED
        BY <4>1, Zenon
    <3>2. CASE ~gen
      <4>1. FALSE = gen
        BY <3>2
      <4> QED
        BY <4>1, Zenon
    <3> QED
      BY <3>1, <3>2, Zenon
  <2>3. PICK r \in BOOLEAN : r = (l.timer \/ (gen /\ ~x.gen))
    <3>1. CASE l.timer \/ (gen /\ ~x.gen)
      <4>1. TRUE = (l.timer \/ (gen /\ ~x.gen))
        BY <3>1, Zenon
      <4> QED
        BY <4>1, Zenon
    <3>2. CASE ~(l.timer \/ (gen /\ ~x.gen))
      <4>1. FALSE = (l.timer \/ (gen /\ ~x.gen))
        BY <3>2, Zenon
      <4> QED
        BY <4>1, Zenon
    <3> QED
      BY <3>1, <3>2, Zenon
  <2>4. y = [l EXCEPT !.hasTuple = TRUE, !.gen = g, !.timer = r]
    BY <1>9, <2>1, <2>2, <2>3, Zenon
  <2>5. /\ Alike(y, l, {"hasTuple", "gen", "timer"}) /\ y.hasTuple = TRUE
        /\ y.gen = g /\ y.timer = r /\ y.asleep = x.asleep /\ y.doneWithProbe = FALSE
    BY <2>1, <2>4, Zenon DEF Alike, Fields, Results
  <2>6. Alike(y, x, {"buffered", "hasTuple", "gen", "timer", "asleep", "doneWithProbe"})
    BY <2>1, <2>5, Zenon DEF Alike
  <2>7. y.asleep => y.timer
    BY <1>1, <2>1, <2>3, <2>5, Zenon
  <2> QED
    BY <1>1, <2>5, <2>6, <2>7, NextIf, Zenon
<1>10. CASE y = [x EXCEPT !.asleep = TRUE, !.timer = TRUE]
  <2>1. /\ Alike(y, x, {"asleep", "timer"}) /\ y.asleep = TRUE /\ y.timer = TRUE
        /\ y.gen = x.gen /\ y.hasTuple = FALSE /\ y.doneWithProbe = FALSE
    BY <1>1, <1>10, Zenon DEF Alike, Fields, Results, Ready
  <2>2. Alike(y, x, {"buffered", "hasTuple", "gen", "timer", "asleep", "doneWithProbe"})
    BY <2>1, Zenon DEF Alike
  <2> QED
    BY <1>1, <2>1, <2>2, NextIf, Zenon
<1> QED
  <2>1. CASE \E b \in BOOLEAN : y = [x EXCEPT !.buffered = b]
    BY <1>4, <2>1, Zenon
  <2>2. CASE \E l : /\ \E b \in BOOLEAN : l = [x EXCEPT !.buffered = b]
                    /\ y = [l EXCEPT !.hasTuple = TRUE, !.gen = gen, !.timer = @ \/ (gen /\ ~x.gen)]
    BY <1>9, <2>2, Zenon
  <2> QED
    BY <1>2, <1>3, <1>5, <1>6, <1>7, <1>8, <1>10, <2>1, <2>2, Zenon

(* The done call ends the connection. *)
LEMMA DoneFacts ==
  ASSUME NEW x, Working(x), Ready(x), NEW y \in csv_done(x)
  PROVE  Called(y, x)
<1>1. PICK m \in {"END", "CRASH"} : y = [x EXCEPT !.mode = m]
  BY Zenon DEF csv_done
<1>2. Alike(y, x, {"mode"}) /\ y.mode = m
  BY <1>1, Zenon DEF Alike, Working, Sound, Fields
<1>3. /\ y.probes = x.probes /\ y.asleep = x.asleep /\ y.timer = x.timer /\ y.gen = x.gen
      /\ y.ret = TRUE /\ y.hasTuple = FALSE /\ y.doneWithProbe = FALSE /\ y.mode # "NEXT"
  BY <1>2, Zenon DEF Alike, Working, Sound, Fields, Results, Ready
<1>4. Manner(y)
  BY <1>3, Zenon DEF Manner, Working, Sound
<1>5. Returned(y)
  BY <1>2, <1>3, Zenon DEF Returned, Modes
<1>6. Alike(y, x, Private)
  BY <1>2, Zenon DEF Alike, Private
<1> QED
  BY <1>4, <1>5, <1>6, CalledIf, Zenon

(* Every call of a wrapper function. *)
LEMMA CallFacts ==
  ASSUME NEW x, Working(x), Ready(x), NEW timeout \in BOOLEAN, timeout => x.asleep = FALSE,
         NEW y \in WrapperCall(x, timeout)
  PROVE  Called(y, x)
<1>1. CASE x.mode = "INIT"
  BY <1>1, InitFacts, Zenon DEF WrapperCall
<1>2. CASE x.mode = "RESCAN"
  BY <1>2, RescanFacts, Zenon DEF WrapperCall
<1>3. CASE x.mode = "NEXT"
  BY <1>3, NextFacts, Zenon DEF WrapperCall
<1>4. CASE x.mode = "DONE"
  BY <1>4, DoneFacts, Zenon DEF WrapperCall
<1> QED
  BY <1>1, <1>2, <1>3, <1>4, Zenon DEF Ready, Modes

-----------------------------------------------------------------------------
(* What processConnection may change. *)
Changing == Private \cup {"q", "made", "tuple", "sent", "buf", "head", "grew"}

(* Agreeing outside some fields. *)
LEMMA AlikeFacts ==
  ASSUME NEW w, NEW x, NEW F, NEW G, Alike(x, w, F)
  PROVE  /\ F \subseteq G => Alike(x, w, G)
         /\ \A y : Alike(y, x, F) => Alike(y, w, F)
  BY Zenon DEF Alike

(* processConnection after the call: an error moves the connection on to its
   end. *)
LEMMA FailedFacts ==
  ASSUME NEW x, NEW y, Called(y, x), NEW f, f = Failed(y)
  PROVE  /\ Working(f) /\ Alike(f, x, Changing) /\ f.tuple = x.tuple
         /\ f.hasTuple \in BOOLEAN /\ f.doneWithProbe \in BOOLEAN /\ ~(f.hasTuple /\ f.doneWithProbe)
         /\ f.mode \in Modes \cup {"END", "CRASH"}
         /\ f.mode \in {"END", "CRASH"} => ~f.hasTuple /\ ~f.doneWithProbe
<1>0. /\ Working(y) /\ Alike(y, x, Private) /\ Returned(y) /\ y.tuple = x.tuple
      /\ Fields \subseteq DOMAIN y /\ Results \subseteq DOMAIN y
  BY Zenon DEF Called, Alike, Private, Working, Sound, Fields
<1>1. Alike(y, x, Changing)
  BY <1>0, AlikeFacts, Zenon DEF Changing
<1>2. CASE y.ret
  <2>1. f = y
    BY <1>2, Zenon DEF Failed
  <2> QED
    BY <1>0, <1>1, <1>2, <2>1, Zenon DEF Returned
<1>3. CASE ~y.ret
  <2>1. y.error /\ y.hasTuple = FALSE /\ y.mode \in Modes /\ y.doneWithProbe \in BOOLEAN
    BY <1>0, <1>3, Zenon DEF Returned
  <2>2. PICK q, m, d : /\ f = [y EXCEPT !.q = q, !.mode = m, !.doneWithProbe = d]
                       /\ q \in 0 .. QueueCap /\ m \in Modes /\ d \in BOOLEAN
    <3>1. CASE ~Archived(y)
      <4>1. PICK q : q = IF y.q < QueueCap THEN y.q + 1 ELSE y.q
        BY Zenon
      <4>2. q \in 0 .. QueueCap
        <5>1. QueueCap \in Nat /\ y.q \in 0 .. QueueCap
          BY <1>0, WrapConstants, Zenon DEF Working
        <5> QED
          BY <4>1, <5>1
      <4>3. f = [y EXCEPT !.q = q]
        BY <1>3, <3>1, <4>1, Zenon DEF Failed
      <4>4. f = [y EXCEPT !.q = q, !.mode = y.mode, !.doneWithProbe = y.doneWithProbe]
        BY <1>0, <4>3, Zenon DEF Fields, Results
      <4> QED
        BY <2>1, <4>2, <4>4, Zenon
    <3>2. CASE Archived(y) /\ y.buffered
      <4>1. f = [y EXCEPT !.mode = "NEXT"]
        BY <1>3, <3>2, Zenon DEF Failed
      <4>2. f = [y EXCEPT !.q = y.q, !.mode = "NEXT", !.doneWithProbe = y.doneWithProbe]
        BY <1>0, <4>1, Zenon DEF Fields, Results
      <4> QED
        BY <1>0, <2>1, <4>2, Zenon DEF Working, Modes
    <3>3. CASE Archived(y) /\ ~y.buffered
      <4>1. f = [y EXCEPT !.doneWithProbe = TRUE, !.mode = "RESCAN"]
        BY <1>3, <3>3, Zenon DEF Failed
      <4>2. f = [y EXCEPT !.q = y.q, !.mode = "RESCAN", !.doneWithProbe = TRUE]
        BY <1>0, <4>1, Zenon DEF Fields, Results
      <4> QED
        BY <1>0, <2>1, <4>2, Zenon DEF Working, Modes
    <3> QED
      BY <3>1, <3>2, <3>3, Zenon
  <2>3. Alike(f, y, {"q", "mode", "doneWithProbe"}) /\ f.q = q /\ f.mode = m /\ f.doneWithProbe = d
    BY <1>0, <2>2, Zenon DEF Alike, Fields, Results
  <2>4. /\ DOMAIN f = DOMAIN y
        /\ f.tuple = y.tuple /\ f.buf = y.buf /\ f.head = y.head /\ f.sent = y.sent
        /\ f.made = y.made /\ f.name = y.name
        /\ f.probes = y.probes /\ f.asleep = y.asleep /\ f.timer = y.timer /\ f.gen = y.gen
        /\ f.error = y.error /\ f.hasTuple = FALSE
    BY <1>0, <2>1, <2>3, Zenon DEF Alike, Fields, Results
  <2>5. Stock(f)
    BY <1>0, <2>4, StockKept, Zenon DEF Working, Sound
  <2>6. Manner(f)
    BY <1>0, <2>1, <2>4, Zenon DEF Manner, Working, Sound
  <2>7. Alike(f, x, Changing)
    BY <1>1, <2>3, Zenon DEF Alike, Changing, Private
  <2>8. Working(f)
    BY <1>0, <2>2, <2>3, <2>4, <2>5, <2>6, Zenon DEF Working, Sound
  <2> QED
    BY <1>0, <2>2, <2>3, <2>4, <2>7, <2>8, Zenon DEF Modes
<1> QED
  BY <1>2, <1>3, Zenon

(* The tuple a call returned is the next one made. *)
LEMMA TakeFacts ==
  ASSUME NEW w, Working(w), w.tuple = NoTuple, w.hasTuple \in BOOLEAN, NEW x, x = TakeTuple(w)
  PROVE  /\ Working(x) /\ Alike(x, w, {"made", "tuple"})
         /\ ~w.hasTuple => x.tuple = NoTuple
<1>1. CASE ~w.hasTuple
  <2>1. x = w
    BY <1>1, Zenon DEF TakeTuple
  <2> QED
    BY <2>1, Zenon DEF Alike
<1>2. CASE w.hasTuple
  <2>1. PICK buf \in Seq(Tuples), h \in Nat, sent \in Nat, made \in Nat :
          /\ buf = w.buf /\ h = w.head /\ sent = w.sent /\ made = w.made
          /\ h \in 0 .. Len(buf) /\ Len(buf) <= ArraySize /\ InOrder(buf, h, NoTuple, sent, made)
          /\ (~Archived(w) => buf = <<>>)
    BY DEF Working, Sound, Stock
  <2>2. InOrder(buf, h, Data(made + 1), sent, made + 1)
    <3>1. NoTuple \in Tuples /\ NoTuple.kind # "data"
      BY TupleFacts, Zenon
    <3>2. h \in 0 .. Len(buf) /\ InOrder(buf, h, NoTuple, sent, made)
      BY <2>1, Zenon
    <3> QED
      BY <3>1, <3>2, Taken, Zenon
  <2>3. PICK m \in Nat, t \in Tuples : m = made + 1 /\ t = Data(made + 1)
    BY TupleFacts
  <2>4. x = [w EXCEPT !.made = m, !.tuple = t]
    BY <1>2, <2>1, <2>3, Zenon DEF TakeTuple
  <2>5. /\ Alike(x, w, {"made", "tuple"}) /\ x.made = m /\ x.tuple = t
    BY <2>4, Zenon DEF Alike, Working, Sound, Fields
  <2>6. /\ DOMAIN x = DOMAIN w /\ x.buf = buf /\ x.head = h /\ x.sent = sent /\ x.name = w.name
        /\ x.q = w.q
    BY <2>1, <2>5, Zenon DEF Alike, Working, Sound, Fields, Results
  <2>7. Stock(x)
    <3>1. ~Archived(x) => buf = <<>>
      BY <2>1, <2>6, Zenon DEF Archived
    <3>2. InOrder(buf, h, t, sent, m)
      BY <2>2, <2>3, Zenon
    <3> QED
      BY <2>1, <2>5, <2>6, <3>1, <3>2, Zenon DEF Stock
  <2>8. Manner(x)
    <3>1. Alike(x, w, {"tuple", "buf", "head", "sent", "made", "q", "grew", "force", "ret", "hasTuple"})
      BY <2>5, Zenon DEF Alike
    <3> QED
      BY <3>1, MannerKept, Zenon DEF Working, Sound
  <2> QED
    BY <1>2, <2>5, <2>6, <2>7, <2>8, Zenon DEF Working, Sound
<1> QED
  BY <1>1, <1>2, Zenon

(* The end of an answer flushes the batch and goes on to the next probe. *)
LEMMA EndProbeFacts ==
  ASSUME NEW w, Working(w), w.doneWithProbe \in BOOLEAN,
         w.doneWithProbe => w.tuple = NoTuple /\ w.mode \in Modes, NEW x, x = EndProbe(w)
  PROVE  /\ Working(x) /\ Alike(x, w, Changing)
         /\ ~w.doneWithProbe => x = w
         /\ w.doneWithProbe => x.mode \in Modes
<1>0. Fields \subseteq DOMAIN w /\ Results \subseteq DOMAIN w
  BY Zenon DEF Working, Sound
<1>1. CASE ~w.doneWithProbe
  <2>1. x = w
    BY <1>1, Zenon DEF EndProbe
  <2> QED
    BY <1>1, <2>1, Zenon DEF Alike
<1>2. CASE w.doneWithProbe
  <2>1. PICK m \in {"DONE", "RESCAN"} : m = IF w.mode = "DONE" THEN w.mode ELSE "RESCAN"
    BY Zenon
  <2>2. PICK r : r = [w EXCEPT !.mode = m]
    BY Zenon
  <2>3. /\ Alike(r, w, {"mode"}) /\ r.mode = m /\ m # "NEXT"
    BY <1>0, <2>1, <2>2, Zenon DEF Alike, Fields
  <2>4. /\ DOMAIN r = DOMAIN w /\ r.q = w.q
        /\ r.tuple = w.tuple /\ r.buf = w.buf /\ r.head = w.head /\ r.sent = w.sent
        /\ r.made = w.made /\ r.name = w.name
        /\ r.probes = w.probes /\ r.asleep = w.asleep /\ r.timer = w.timer /\ r.gen = w.gen
    BY <1>0, <2>3, Zenon DEF Alike, Fields, Results
  <2>5. Stock(r)
    BY <1>0, <2>4, StockKept, Zenon DEF Working, Sound
  <2>6. Manner(r)
    BY <2>3, <2>4, Zenon DEF Manner, Working, Sound
  <2>7. Working(r)
    BY <1>0, <2>4, <2>5, <2>6, Zenon DEF Working, Sound
  <2>8. CASE ~w.probe
    <3>1. x = r
      BY <1>0, <1>2, <2>1, <2>2, <2>8, Zenon DEF EndProbe
    <3> QED
      BY <1>2, <2>3, <2>7, <3>1, Zenon DEF Alike, Changing, Private, Modes
  <2>9. CASE w.probe
    <3>1. PICK p : p = [r EXCEPT !.tuple = EndOfAnswer, !.probe = FALSE]
      BY Zenon
    <3>2. x = processTuple(p)
      BY <1>0, <1>2, <2>1, <2>2, <2>9, <3>1, Zenon DEF EndProbe
    <3>3. Alike(p, r, {"tuple", "probe"}) /\ p.tuple = EndOfAnswer
      BY <1>0, <2>4, <3>1, Zenon DEF Alike, Fields
    <3>4. /\ DOMAIN p = DOMAIN w /\ p.q = w.q
          /\ p.buf = w.buf /\ p.head = w.head /\ p.sent = w.sent
          /\ p.made = w.made /\ p.name = w.name /\ p.mode = m
          /\ p.probes = w.probes /\ p.asleep = w.asleep /\ p.timer = w.timer /\ p.gen = w.gen
      BY <1>0, <2>3, <2>4, <3>3, Zenon DEF Alike, Fields, Results
    <3>5. Stock(p)
      <4>1. PICK buf \in Seq(Tuples), h \in Nat, sent \in Nat, made \in Nat :
              /\ buf = w.buf /\ h = w.head /\ sent = w.sent /\ made = w.made
              /\ h \in 0 .. Len(buf) /\ Len(buf) <= ArraySize /\ InOrder(buf, h, NoTuple, sent, made)
              /\ (~Archived(w) => buf = <<>>)
        BY <1>2 DEF Working, Sound, Stock
      <4>2. InOrder(buf, h, EndOfAnswer, sent, made)
        <5>1. NoTuple \in Tuples /\ NoTuple.kind # "data"
          BY TupleFacts, Zenon
        <5>2. h \in 0 .. Len(buf) /\ InOrder(buf, h, NoTuple, sent, made)
          BY <4>1, Zenon
        <5> QED
          BY <5>1, <5>2, Taken, Zenon
      <4>3. ~Archived(p) => buf = <<>>
        BY <3>4, <4>1, Zenon DEF Archived
      <4> QED
        BY <3>3, <3>4, <4>1, <4>2, <4>3, TupleFacts, Zenon DEF Stock
    <3>6. p.mode # "NEXT"
      BY <2>3, <3>4, Zenon
    <3>7. Manner(p)
      BY <3>4, <3>6, Zenon DEF Manner, Working, Sound
    <3>8. Working(p)
      BY <1>0, <3>4, <3>5, <3>7, Zenon DEF Working, Sound
    <3>9. Working(x) /\ Alike(x, p, {"sent", "buf", "head", "tuple", "q"})
      BY <3>2, <3>8, ProcessTupleFacts, Zenon
    <3>10. x.mode = m
      BY <1>0, <3>4, <3>9, Zenon DEF Alike, Fields
    <3>11. Alike(x, w, Changing)
      BY <2>3, <3>3, <3>9, Zenon DEF Alike, Changing, Private
    <3> QED
      BY <1>2, <2>1, <3>9, <3>10, <3>11, Zenon DEF Modes
  <2> QED
    BY <2>8, <2>9, Zenon
<1> QED
  BY <1>1, <1>2, Zenon

(* processConnection hands on the tuple it holds. *)
LEMMA SendFacts ==
  ASSUME NEW w, Working(w), NEW x, x = SendTuple(w)
  PROVE  /\ Working(x) /\ Alike(x, w, Changing) /\ x.mode = w.mode
         /\ Archived(w) => x.tuple = NoTuple
         /\ w.tuple = NoTuple => x.tuple = NoTuple
<1>0. Fields \subseteq DOMAIN w /\ Results \subseteq DOMAIN w
  BY Zenon DEF Working, Sound
<1>1. CASE w.tuple = NoTuple
  <2>1. x = w
    BY <1>1, Zenon DEF SendTuple
  <2> QED
    BY <1>1, <2>1, Zenon DEF Alike
<1>2. CASE w.tuple # NoTuple
  <2>1. PICK p : p = processTuple(w)
    BY Zenon
  <2>2. /\ Working(p) /\ Alike(p, w, {"sent", "buf", "head", "tuple", "q"})
        /\ Archived(w) => p.tuple = NoTuple
    BY <2>1, ProcessTupleFacts, Zenon
  <2>3. x = [p EXCEPT !.grew = (p.tuple = NoTuple)]
    BY <1>2, <2>1, Zenon DEF SendTuple
  <2>4. Alike(x, p, {"grew"})
    BY <2>2, <2>3, Zenon DEF Alike
  <2>5. /\ DOMAIN x = DOMAIN p /\ x.q = p.q
        /\ x.tuple = p.tuple /\ x.buf = p.buf /\ x.head = p.head /\ x.sent = p.sent
        /\ x.made = p.made /\ x.name = p.name /\ x.mode = w.mode
    BY <1>0, <2>2, <2>4, Zenon DEF Alike, Fields, Results
  <2>6. Stock(x)
    BY <2>2, <2>5, StockKept, Zenon DEF Working, Sound
  <2>7. Manner(x)
    <3>1. Alike(x, p, {"tuple", "buf", "head", "sent", "made", "q", "grew", "force", "ret", "hasTuple"})
      BY <2>4, Zenon DEF Alike
    <3> QED
      BY <2>2, <3>1, MannerKept, Zenon DEF Working, Sound
  <2>8. Alike(x, w, Changing)
    BY <2>2, <2>4, Zenon DEF Alike, Changing, Private
  <2> QED
    BY <1>2, <2>2, <2>5, <2>6, <2>7, <2>8, Zenon DEF Working, Sound
<1> QED
  BY <1>1, <1>2, Zenon

(* One call of processConnection keeps a connection sound, whatever its wrapper
   does; a connection that ends has no tuple left to send. *)
LEMMA ConnectionFacts ==
  ASSUME NEW w, Working(w), Ready(w), NEW timeout \in BOOLEAN, timeout => w.asleep = FALSE,
         Archived(w) => w.tuple = NoTuple, NEW x \in processConnection(w, timeout)
  PROVE  /\ Working(x) /\ Alike(x, w, Changing)
         /\ x.mode \in Modes \cup {"END", "CRASH"}
         /\ Archived(x) => x.tuple = NoTuple
         /\ x.mode = "END" => x.tuple = NoTuple
<1>0. Fields \subseteq DOMAIN w /\ Results \subseteq DOMAIN w
  BY Zenon DEF Working, Sound
<1>1. PICK s : s = IF w.tuple = NoTuple THEN w ELSE processTuple(w)
  BY Zenon
<1>2. /\ Working(s) /\ Alike(s, w, {"sent", "buf", "head", "tuple", "q"})
      /\ Archived(w) => s.tuple = NoTuple
  <2>1. CASE w.tuple = NoTuple
    BY <1>1, <2>1, Zenon DEF Alike
  <2>2. CASE w.tuple # NoTuple
    BY <1>1, <2>2, ProcessTupleFacts, Zenon
  <2> QED
    BY <2>1, <2>2, Zenon
<1>3. /\ Ready(s) /\ s.asleep = w.asleep /\ s.name = w.name /\ s.mode = w.mode
  BY <1>0, <1>2, Zenon DEF Alike, Ready, Fields, Results
<1>4. Alike(s, w, Changing)
  BY <1>2, Zenon DEF Alike, Changing
<1>5. \/ x = w \/ x = s
      \/ s.tuple = NoTuple /\ \E y \in WrapperCall(s, timeout) :
                                x = SendTuple(EndProbe(TakeTuple(Failed(y))))
  BY <1>1, Zenon DEF processConnection
<1>6. CASE x = w
  BY <1>6, Zenon DEF Alike, Ready, Modes
<1>7. CASE x = s
  BY <1>2, <1>3, <1>4, <1>7, Zenon DEF Archived, Ready, Modes
<1>8. ASSUME s.tuple = NoTuple, NEW y \in WrapperCall(s, timeout),
             x = SendTuple(EndProbe(TakeTuple(Failed(y))))
      PROVE  /\ Working(x) /\ Alike(x, w, Changing)
             /\ x.mode \in Modes \cup {"END", "CRASH"}
             /\ Archived(x) => x.tuple = NoTuple
             /\ x.mode = "END" => x.tuple = NoTuple
  <2>1. Called(y, s)
    BY <1>2, <1>3, CallFacts, Zenon
  <2>2. PICK f, t, e : f = Failed(y) /\ t = TakeTuple(f) /\ e = EndProbe(t)
    BY Zenon
  <2>3. /\ Working(f) /\ Alike(f, s, Changing) /\ f.tuple = NoTuple
        /\ f.hasTuple \in BOOLEAN /\ f.doneWithProbe \in BOOLEAN /\ ~(f.hasTuple /\ f.doneWithProbe)
        /\ f.mode \in Modes \cup {"END", "CRASH"}
        /\ f.mode \in {"END", "CRASH"} => ~f.hasTuple /\ ~f.doneWithProbe
    BY <1>8, <2>1, <2>2, FailedFacts, Zenon
  <2>4. /\ Working(t) /\ Alike(t, f, {"made", "tuple"})
        /\ ~f.hasTuple => t.tuple = NoTuple
    BY <2>2, <2>3, TakeFacts, Zenon
  <2>5. /\ t.doneWithProbe = f.doneWithProbe /\ t.mode = f.mode
    BY <2>3, <2>4, Zenon DEF Alike, Working, Sound, Fields, Results
  <2>6. t.doneWithProbe => t.tuple = NoTuple /\ t.mode \in Modes
    BY <2>3, <2>4, <2>5, Zenon
  <2>7. /\ Working(e) /\ Alike(e, t, Changing)
        /\ ~t.doneWithProbe => e = t
        /\ t.doneWithProbe => e.mode \in Modes
    BY <2>2, <2>3, <2>4, <2>5, <2>6, EndProbeFacts, Zenon
  <2>8. /\ Working(x) /\ Alike(x, e, Changing) /\ x.mode = e.mode
        /\ Archived(e) => x.tuple = NoTuple
        /\ e.tuple = NoTuple => x.tuple = NoTuple
    BY <1>8, <2>2, <2>7, SendFacts, Zenon
  <2>9. Alike(t, f, Changing)
    BY <2>4, Zenon DEF Alike, Changing
  <2>10. Alike(x, w, Changing)
    BY <1>4, <2>3, <2>7, <2>8, <2>9, AlikeFacts, Zenon
  <2>11. x.name = e.name
    BY <2>7, <2>8, Zenon DEF Alike, Changing, Private, Working, Sound, Fields
  <2>12. x.mode \in Modes \cup {"END", "CRASH"}
    BY <2>3, <2>5, <2>7, <2>8, Zenon
  <2>13. x.mode = "END" => x.tuple = NoTuple
    BY <2>3, <2>4, <2>5, <2>7, <2>8, Zenon DEF Modes
  <2> QED
    BY <2>8, <2>10, <2>11, <2>12, <2>13, Zenon DEF Archived
<1> QED
  BY <1>5, <1>6, <1>7, <1>8, Zenon

-----------------------------------------------------------------------------
(* A connection between two calls. *)
Calm(s) == Sound(s) /\ s.mode \in Modes /\ (Archived(s) => s.tuple = NoTuple)

(* A connection that holds nothing. *)
LEMMA EmptyInOrder == InOrder(<<>>, 0, NoTuple, 0, 0)
<1>1. Len(<<>>) = 0
  BY EmptySequence, Zenon
<1>2. NoTuple.kind # "data"
  BY TupleFacts, Zenon
<1> QED
  BY <1>1, <1>2 DEF InOrder

(* What createConn makes, and what deleteConn leaves. *)
LEMMA NewConnFacts ==
  ASSUME NEW s, Fields \subseteq DOMAIN s, s.tuple = NoTuple, s.buf = <<>>, s.head = 0,
         s.sent = 0, s.made = 0, s.mode = "INIT", s.probes = 0,
         s.asleep = FALSE, s.timer = FALSE, s.gen = FALSE
  PROVE  Calm(s)
<1>1. ArraySize \in Nat /\ ProbeCap \in Nat
  BY WrapConstants, Zenon
<1>2. Stock(s)
  <2>1. <<>> \in Seq(Tuples) /\ Len(<<>>) = 0
    BY EmptySequence, Zenon
  <2>2. 0 \in 0 .. 0 /\ 0 <= ArraySize /\ 0 \in Nat
    BY <1>1
  <2> QED
    BY <2>1, <2>2, EmptyInOrder, TupleFacts, Zenon DEF Stock
<1>3. Manner(s)
  <2>1. 0 \in 0 .. ProbeCap /\ "INIT" # "NEXT"
    BY <1>1
  <2> QED
    BY <2>1, Zenon DEF Manner
<1> QED
  BY <1>2, <1>3, Zenon DEF Calm, Sound, Modes

Created(s, n, pull, life) == s = [NewConn(n, pull) EXCEPT !.life = life]

(* A connection as newConn creates it. *)
LEMMA CreatedFacts ==
  ASSUME NEW n, NEW pull, NEW life, NEW s, Created(s, n, pull, life)
  PROVE  /\ DOMAIN s = Fields /\ Calm(s)
         /\ s.life = life /\ s.name = n /\ s.pull = pull
<1>1. PICK r : r = NewConn(n, pull)
  BY Zenon
<1>2. /\ DOMAIN r = Fields /\ r.tuple = NoTuple /\ r.buf = <<>> /\ r.head = 0 /\ r.sent = 0
      /\ r.made = 0 /\ r.mode = "INIT" /\ r.probes = 0 /\ r.asleep = FALSE /\ r.timer = FALSE
      /\ r.gen = FALSE /\ r.name = n /\ r.pull = pull
  BY <1>1, Zenon DEF NewConn, Fields
<1>3. s = [r EXCEPT !.life = life]
  BY <1>1, Zenon DEF Created
<1>4. /\ DOMAIN s = Fields /\ s.tuple = NoTuple /\ s.buf = <<>> /\ s.head = 0 /\ s.sent = 0
      /\ s.made = 0 /\ s.mode = "INIT" /\ s.probes = 0 /\ s.asleep = FALSE /\ s.timer = FALSE
      /\ s.gen = FALSE /\ s.name = n /\ s.pull = pull /\ s.life = life
  BY <1>2, <1>3, Zenon DEF Fields
<1> QED
  BY <1>4, NewConnFacts, Zenon

(* A connection before its life. *)
LEMMA UnusedFacts ==
  /\ DOMAIN Unused = Fields /\ Calm(Unused)
  /\ Unused.life = "unused" /\ Unused.name = NULL
<1>1. PICK pull : Created(Unused, NULL, pull, "unused")
  BY Zenon DEF Created, Unused
<1> QED
  BY <1>1, CreatedFacts

(* A connection after deleteConn. *)
LEMMA GoneFacts ==
  ASSUME NEW w, NEW g, g = Gone(w)
  PROVE  /\ Calm(g) /\ g.life = "gone" /\ g.name = NULL
         /\ g.lost = flush_stream(w).made - flush_stream(w).sent
<1>1. PICK l : l = flush_stream(w).made - flush_stream(w).sent
  BY Zenon
<1>2. g = [Unused EXCEPT !.life = "gone", !.lost = l]
  BY <1>1, Zenon DEF Gone
<1>3. PICK u : u = Unused
  BY Zenon
<1>4. /\ DOMAIN u = Fields /\ u.tuple = NoTuple /\ u.buf = <<>> /\ u.head = 0 /\ u.sent = 0
      /\ u.made = 0 /\ u.mode = "INIT" /\ u.probes = 0 /\ u.asleep = FALSE /\ u.timer = FALSE
      /\ u.gen = FALSE /\ u.name = NULL
  BY <1>3, UnusedFacts, Zenon DEF Unused, NewConn, Fields
<1>5. /\ DOMAIN g = Fields /\ g.tuple = NoTuple /\ g.buf = <<>> /\ g.head = 0 /\ g.sent = 0
      /\ g.made = 0 /\ g.mode = "INIT" /\ g.probes = 0 /\ g.asleep = FALSE /\ g.timer = FALSE
      /\ g.gen = FALSE /\ g.name = NULL /\ g.life = "gone" /\ g.lost = l
  BY <1>2, <1>3, <1>4, Zenon DEF Fields
<1> QED
  BY <1>1, <1>5, NewConnFacts, Zenon

(* A forced flush, of a connection that need not be archived. *)
LEMMA FlushStreamFacts ==
  ASSUME NEW s, Sound(s), Archived(s) => s.tuple = NoTuple, NEW x, x = flush_stream(s)
  PROVE  /\ Sound(x) /\ Alike(x, s, {"sent", "buf", "head", "tuple", "force"})
         /\ Archived(s) => x.tuple = NoTuple /\ x.sent = x.made
         /\ ~Archived(s) => x = s
<1>1. CASE ~Archived(s)
  <2>1. x = s
    BY <1>1, Zenon DEF flush_stream
  <2> QED
    BY <1>1, <2>1, Zenon DEF Alike
<1>2. CASE Archived(s)
  <2>1. PICK f : f = [s EXCEPT !.force = TRUE]
    BY Zenon
  <2>2. x = processTupleArchived(f)
    BY <1>2, <2>1, Zenon DEF flush_stream
  <2>3. Alike(f, s, {"force"}) /\ f.force = TRUE
    BY <2>1, Zenon DEF Alike, Sound, Fields
  <2>4. /\ DOMAIN f = DOMAIN s
        /\ f.tuple = s.tuple /\ f.buf = s.buf /\ f.head = s.head /\ f.sent = s.sent
        /\ f.made = s.made /\ f.name = s.name
    BY <2>3, Zenon DEF Alike, Sound, Fields
  <2>5. Stock(f)
    BY <2>4, StockKept, Zenon DEF Sound
  <2>6. Manner(f)
    <3>1. Alike(f, s, {"tuple", "buf", "head", "sent", "made", "q", "grew", "force", "ret", "hasTuple"})
      BY <2>3, Zenon DEF Alike
    <3> QED
      BY <3>1, MannerKept, Zenon DEF Sound
  <2>7. Sound(f) /\ Archived(f) /\ f.tuple = NoTuple
    BY <1>2, <2>4, <2>5, <2>6, Zenon DEF Sound, Archived
  <2>8. /\ Sound(x) /\ Alike(x, f, {"sent", "buf", "head", "tuple"})
        /\ x.tuple = NoTuple /\ x.sent = x.made
    BY <2>2, <2>3, <2>7, ArchivedFacts, Zenon
  <2>9. Alike(x, s, {"sent", "buf", "head", "tuple", "force"})
    BY <2>3, <2>8, Zenon DEF Alike
  <2> QED
    BY <1>2, <2>8, <2>9, Zenon
<1> QED
  BY <1>1, <1>2, Zenon

(* The part of a connection that outlives a call. *)
LEMMA ConnFacts ==
  ASSUME NEW x, Working(x), x.mode \in Modes, Archived(x) => x.tuple = NoTuple, NEW s, s = Conn(x)
  PROVE  Calm(s) /\ s.life = x.life /\ s.name = x.name
<1>1. /\ DOMAIN s = Fields /\ \A f \in Fields : s[f] = x[f]
  BY UnusedFacts, Zenon DEF Conn
<1>2. /\ s.life = x.life /\ s.name = x.name /\ s.mode = x.mode
      /\ s.tuple = x.tuple /\ s.buf = x.buf /\ s.head = x.head /\ s.sent = x.sent /\ s.made = x.made
      /\ s.probes = x.probes /\ s.asleep = x.asleep /\ s.timer = x.timer /\ s.gen = x.gen
      /\ s.pull = x.pull /\ s.probe = x.probe /\ s.error = x.error
  BY <1>1, Zenon DEF Fields
<1>3. Stock(s)
  BY <1>2, Zenon DEF Stock, Archived, Working, Sound
<1>4. Manner(s)
  BY <1>2, Zenon DEF Manner, Working, Sound
<1> QED
  BY <1>1, <1>2, <1>3, <1>4, Zenon DEF Calm, Sound, Archived

(* The fields of a connection, whoever holds them. *)
LEMMA CalmKept ==
  ASSUME NEW s, Calm(s), NEW x, Fields \subseteq DOMAIN x, \A f \in Fields : x[f] = s[f]
  PROVE  Calm(x)
<1>1. /\ x.name = s.name /\ x.mode = s.mode
      /\ x.tuple = s.tuple /\ x.buf = s.buf /\ x.head = s.head /\ x.sent = s.sent /\ x.made = s.made
      /\ x.probes = s.probes /\ x.asleep = s.asleep /\ x.timer = s.timer /\ x.gen = s.gen
      /\ x.pull = s.pull /\ x.probe = s.probe /\ x.error = s.error
  BY Zenon DEF Fields
<1>2. Stock(s) /\ Manner(s) /\ s.mode \in Modes /\ (Archived(s) => s.tuple = NoTuple)
  BY Zenon DEF Calm, Sound
<1>3. Stock(x)
  BY <1>1, <1>2, Zenon DEF Stock, Archived
<1>4. Manner(x)
  BY <1>1, <1>2, Zenon DEF Manner
<1> QED
  BY <1>1, <1>2, <1>3, <1>4, Zenon DEF Calm, Sound, Archived

(* The connection a call works on. *)
LEMMA WorkFacts ==
  ASSUME NEW c \in Conns, Calm(st[c]), level \in [Slots -> 0 .. QueueCap], NEW w, w = Work(c)
  PROVE  /\ Working(w) /\ Ready(w) /\ Calm(w)
         /\ \A f \in Fields : w[f] = st[c][f]
<1>1. PICK q : q = IF conn[c].idx \in Slots THEN level[conn[c].idx] ELSE 0
  BY Zenon
<1>2. q \in 0 .. QueueCap
  <2>1. QueueCap \in Nat
    BY WrapConstants, Zenon
  <2> QED
    BY <1>1, <2>1
<1>3. PICK new : new = [q |-> q, ret |-> TRUE, hasTuple |-> FALSE, doneWithProbe |-> FALSE, grew |-> FALSE]
  BY Zenon
<1>4. /\ DOMAIN new = Results
      /\ new.q = q /\ new.ret = TRUE /\ new.hasTuple = FALSE /\ new.doneWithProbe = FALSE
  BY <1>3, Zenon DEF Results
<1>5. PICK s : s = st[c]
  BY Zenon
<1>6. Fields \subseteq DOMAIN s /\ s.mode \in Modes
  BY <1>5, Zenon DEF Calm, Sound
<1>7. w = [f \in DOMAIN new \cup DOMAIN s |-> IF f \in DOMAIN new THEN new[f] ELSE s[f]]
  BY <1>1, <1>3, <1>5, Zenon DEF Work
<1>8. /\ DOMAIN w = Results \cup DOMAIN s
      /\ w.q = q /\ w.ret = TRUE /\ w.hasTuple = FALSE /\ w.doneWithProbe = FALSE
  BY <1>4, <1>7, Zenon DEF Results
<1>9. Fields \cap Results = {}
  BY Zenon DEF Fields, Results
<1>10. \A f \in Fields : w[f] = s[f]
  BY <1>4, <1>6, <1>7, <1>9, Zenon
<1>11. w.mode = s.mode
  BY <1>10, Zenon DEF Fields
<1>12. Calm(w)
  BY <1>5, <1>6, <1>8, <1>10, CalmKept, Zenon
<1>13. Working(w)
  BY <1>2, <1>8, <1>12, Zenon DEF Working, Calm
<1> QED
  BY <1>5, <1>6, <1>8, <1>10, <1>11, <1>12, <1>13, Zenon DEF Ready

(* The one whose timeout has expired. *)
LEMMA WokenFacts ==
  ASSUME NEW w, Working(w), Ready(w), Calm(w), NEW x, x = [w EXCEPT !.asleep = FALSE, !.timer = FALSE]
  PROVE  /\ Working(x) /\ Ready(x) /\ Calm(x) /\ x.asleep = FALSE
         /\ Alike(x, w, {"asleep", "timer"})
<1>1. Fields \cup Results \subseteq DOMAIN w
  BY Zenon DEF Working, Sound
<1>2. Alike(x, w, {"asleep", "timer"}) /\ x.asleep = FALSE /\ x.timer = FALSE
  BY <1>1, Zenon DEF Alike, Fields
<1>3. /\ DOMAIN x = DOMAIN w
      /\ x.name = w.name /\ x.mode = w.mode /\ x.q = w.q
      /\ x.tuple = w.tuple /\ x.buf = w.buf /\ x.head = w.head /\ x.sent = w.sent /\ x.made = w.made
      /\ x.probes = w.probes /\ x.gen = w.gen
      /\ x.pull = w.pull /\ x.probe = w.probe /\ x.error = w.error
      /\ x.ret = w.ret /\ x.hasTuple = w.hasTuple /\ x.doneWithProbe = w.doneWithProbe
  BY <1>1, <1>2, Zenon DEF Alike, Fields, Results
<1>4. Stock(w) /\ Manner(w) /\ w.mode \in Modes /\ (Archived(w) => w.tuple = NoTuple)
  BY Zenon DEF Calm, Sound
<1>5. Stock(x)
  BY <1>3, <1>4, Zenon DEF Stock, Archived
<1>6. Manner(x)
  BY <1>2, <1>3, <1>4, Zenon DEF Manner
<1>7. Calm(x)
  BY <1>1, <1>3, <1>4, <1>5, <1>6, Zenon DEF Calm, Sound, Archived
<1>8. Working(x)
  BY <1>1, <1>3, <1>7, Zenon DEF Working, Calm
<1>9. Ready(x)
  BY <1>3, Zenon DEF Ready
<1> QED
  BY <1>2, <1>7, <1>8, <1>9, Zenon

-----------------------------------------------------------------------------
(* The inductive invariant: the shape of the variables, *)
Entries == [cmd : {"STARTUP", "STREAM_SHUTDOWN", "PROBE", "SHUTDOWN"}, name : Names \cup {NULL}]

Shape ==
  /\ DOMAIN st = Conns
  /\ table \in Seq(Conns) /\ Len(table) <= MaxConn
  /\ level \in [Slots -> 0 .. QueueCap] /\ active \in [Names -> Slots \cup {NoIndex, NotScanned}]
  /\ controlQ \in Seq(Entries)
  /\ {"at", "run", "polled", "got", "inum"} \subseteq DOMAIN pc
  /\ pc.at \in {"control", "poll", "run", "wake", "exit", "exited", "crashed"}

(* every connection between two calls, *)
AllCalm == \A c \in Conns : Calm(st[c])

(* the table and the queues its connections hold, *)
Listed ==
  /\ \A i, j \in DOMAIN table : table[i] = table[j] => i = j
  /\ \A c \in Conns : /\ Open(c) <=> c \in Range(table)
                      /\ Holds(c) => conn[c].name = st[c].name
                      /\ conn[c].idx \in Slots => Holds(c)

(* and an unused connection for each command to start a wrapper: the model's
   bound on connections never makes the clearinghouse fail to create one. *)
Startups(q) == {i \in DOMAIN q : q[i].cmd = "STARTUP"}
Enough == Cardinality(Startups(controlQ)) <= Cardinality(Free)

ClearingInv ==
  Inv /\ Shape /\ AllCalm /\ Listed /\ PollResultsCurrent /\ Enough

(* What NothingLostAtClose says of one step. *)
ClosesWell ==
  \A c \in Conns :
    Open(c) /\ st'[c].life = "gone" =>
      \/ st'[c].lost = 0
      \/ pc.at \notin {"run", "wake"} /\ ~Archived(st[c]) /\ st[c].tuple.kind = "data"

(* The table after c has left it, *)
Unlisted(c) ==
  /\ table' \in Seq(Conns) /\ Len(table') <= MaxConn
  /\ \A i, j \in DOMAIN table' : table'[i] = table'[j] => i = j
  /\ Range(table') = Range(table) \ {c}

(* and after it has come in. *)
Enlisted(c) ==
  /\ table' \in Seq(Conns) /\ Len(table') <= MaxConn
  /\ \A i, j \in DOMAIN table' : table'[i] = table'[j] => i = j
  /\ Range(table') = Range(table) \cup {c}

(* removeConnFromListByIndex moves the last connection into the hole: the
   table loses this one and no other. *)
LEMMA RemoveFacts ==
  ASSUME Shape, Listed, NEW i \in DOMAIN table, removeConnFromListByIndex(i)
  PROVE  Unlisted(table[i])
<1>1. PICK m \in Nat : m = Len(table) /\ DOMAIN table = 1 .. m /\ \A j \in 1 .. m : table[j] \in Conns
  BY DEF Shape
<1>2. m > 0 /\ m <= MaxConn /\ i \in 1 .. m
  BY <1>1 DEF Shape
<1>3. table' = [j \in 1 .. (m - 1) |-> IF j = i THEN table[m] ELSE table[j]]
  BY <1>1, Zenon DEF removeConnFromListByIndex
<1>4. DOMAIN table' = 1 .. (m - 1) /\ \A j \in 1 .. (m - 1) : table'[j] = IF j = i THEN table[m] ELSE table[j]
  BY <1>3, Zenon
<1>5. \A j, k \in 1 .. m : table[j] = table[k] => j = k
  BY <1>1, Zenon DEF Listed
<1>6. table' \in Seq(Conns) /\ Len(table') = m - 1
  <2>1. m - 1 \in Nat /\ \A j \in 1 .. (m - 1) : table'[j] \in Conns
    BY <1>1, <1>2, <1>4
  <2>2. table' \in [1 .. (m - 1) -> Conns]
    BY <1>3, <1>4, <2>1, Zenon
  <2> QED
    BY <2>1, <2>2
<1>7. \A j, k \in DOMAIN table' : table'[j] = table'[k] => j = k
  BY <1>2, <1>4, <1>5
<1>8. Range(table') = Range(table) \ {table[i]}
  <2>1. ASSUME NEW x \in Range(table') PROVE x \in Range(table) \ {table[i]}
    <3>1. PICK j \in 1 .. (m - 1) : x = table'[j]
      BY <1>4, <2>1, Zenon DEF Range
    <3>2. PICK k \in 1 .. m : k # i /\ x = table[k]
      BY <1>2, <1>4, <3>1
    <3> QED
      BY <1>1, <1>2, <1>5, <3>2, Zenon DEF Range
  <2>2. ASSUME NEW x \in Range(table) \ {table[i]} PROVE x \in Range(table')
    <3>1. PICK k \in 1 .. m : k # i /\ x = table[k]
      BY <1>1, <2>2, Zenon DEF Range
    <3>2. \E j \in 1 .. (m - 1) : x = table'[j]
      <4>1. CASE k = m
        BY <1>2, <1>4, <3>1, <4>1
      <4>2. CASE k # m
        BY <1>2, <1>4, <3>1, <4>2
      <4> QED
        BY <4>1, <4>2, Zenon
    <3> QED
      BY <1>4, <3>2, Zenon DEF Range
  <2> QED
    BY <2>1, <2>2, Zenon
<1>9. Len(table') <= MaxConn
  <2>1. MaxConn \in Nat
    BY WrapConstants, Zenon
  <2> QED
    BY <1>2, <1>6, <2>1
<1> QED
  BY <1>6, <1>7, <1>8, <1>9, Zenon DEF Unlisted

(* doShutdown deletes the connections one by one. *)
LEMMA TailFacts ==
  ASSUME Shape, Listed, table # <<>>, table' = Tail(table)
  PROVE  Head(table) \in Range(table) /\ Unlisted(Head(table))
<1>1. PICK m \in Nat : m = Len(table) /\ DOMAIN table = 1 .. m /\ \A j \in 1 .. m : table[j] \in Conns
  BY DEF Shape
<1>2. m > 0 /\ m <= MaxConn /\ Head(table) = table[1]
  BY <1>1, EmptySequence DEF Shape
<1>3. /\ table' \in Seq(Conns) /\ Len(table') = m - 1 /\ DOMAIN table' = 1 .. (m - 1)
      /\ \A j \in 1 .. (m - 1) : table'[j] = table[j + 1]
  BY <1>1, <1>2, Taking DEF Shape
<1>4. \A j, k \in 1 .. m : table[j] = table[k] => j = k
  BY <1>1, Zenon DEF Listed
<1>5. \A j, k \in DOMAIN table' : table'[j] = table'[k] => j = k
  BY <1>2, <1>3, <1>4
<1>6. Range(table') = Range(table) \ {table[1]}
  <2>1. ASSUME NEW x \in Range(table') PROVE x \in Range(table) \ {table[1]}
    <3>1. PICK j \in 1 .. (m - 1) : x = table'[j]
      BY <1>3, <2>1, Zenon DEF Range
    <3>2. PICK k \in 1 .. m : k # 1 /\ x = table[k]
      BY <1>2, <1>3, <3>1
    <3> QED
      BY <1>1, <1>2, <1>4, <3>2 DEF Range
  <2>2. ASSUME NEW x \in Range(table) \ {table[1]} PROVE x \in Range(table')
    <3>1. PICK k \in 1 .. m : k # 1 /\ x = table[k]
      BY <1>1, <2>2, Zenon DEF Range
    <3>2. k - 1 \in 1 .. (m - 1) /\ x = table'[k - 1]
      BY <1>2, <1>3, <3>1
    <3> QED
      BY <1>3, <3>2, Zenon DEF Range
  <2> QED
    BY <2>1, <2>2, Zenon
<1>7. table[1] \in Range(table)
  BY <1>1, <1>2 DEF Range
<1>8. Len(table') <= MaxConn
  <2>1. MaxConn \in Nat
    BY WrapConstants, Zenon
  <2> QED
    BY <1>2, <1>3, <2>1
<1> QED
  BY <1>2, <1>3, <1>5, <1>6, <1>7, <1>8, Zenon DEF Unlisted

(* addConnToList lists the connection once. *)
LEMMA AppendTable ==
  ASSUME Shape, Listed, NEW c \in Conns, c \notin Range(table), ~TableFull, table' = Append(table, c)
  PROVE  Enlisted(c)
<1>1. PICK m \in Nat : m = Len(table) /\ DOMAIN table = 1 .. m /\ \A j \in 1 .. m : table[j] \in Conns
  BY DEF Shape
<1>2. /\ table' \in Seq(Conns) /\ Len(table') = m + 1 /\ DOMAIN table' = 1 .. (m + 1)
      /\ \A j \in 1 .. m : table'[j] = table[j]
      /\ table'[m + 1] = c
  BY <1>1, Appending DEF Shape
<1>3. m + 1 <= MaxConn
  <2>1. MaxConn \in Nat
    BY WrapConstants, Zenon
  <2> QED
    BY <1>1, <2>1 DEF TableFull
<1>4. \A j, k \in 1 .. m : table[j] = table[k] => j = k
  BY <1>1, Zenon DEF Listed
<1>5. \A j \in 1 .. m : table[j] # c
  BY <1>1, Zenon DEF Range
<1>6. \A j, k \in DOMAIN table' : table'[j] = table'[k] => j = k
  BY <1>2, <1>4, <1>5
<1>7. Range(table') = Range(table) \cup {c}
  <2>1. ASSUME NEW x \in Range(table') PROVE x \in Range(table) \cup {c}
    <3>1. PICK j \in 1 .. (m + 1) : x = table'[j]
      BY <1>2, <2>1, Zenon DEF Range
    <3> QED
      BY <1>1, <1>2, <3>1 DEF Range
  <2>2. ASSUME NEW x \in Range(table) PROVE x \in Range(table')
    <3>1. PICK j \in 1 .. m : x = table[j]
      BY <1>1, <2>2, Zenon DEF Range
    <3> QED
      BY <1>2, <3>1 DEF Range
  <2>3. c \in Range(table')
    <3>1. m + 1 \in DOMAIN table'
      BY <1>2
    <3> QED
      BY <1>2, <3>1, Zenon DEF Range
  <2> QED
    BY <2>1, <2>2, <2>3, Zenon
<1> QED
  BY <1>2, <1>3, <1>6, <1>7, Zenon DEF Enlisted

(* A queue's new length. *)
LEMMA LevelFacts ==
  ASSUME level \in [Slots -> 0 .. QueueCap], NEW c, NEW w, w.q \in 0 .. QueueCap, SetLevel(c, w)
  PROVE  level' \in [Slots -> 0 .. QueueCap]
<1>1. 0 \in 0 .. QueueCap
  <2>1. QueueCap \in Nat
    BY WrapConstants, Zenon
  <2> QED
    BY <2>1
<1> QED
  BY <1>1, Zenon DEF SetLevel

(* deleteConn gives back the queue. *)
LEMMA CloseFacts ==
  ASSUME ClearingInv, NEW c \in Conns, NEW w, Working(w), send_end_and_close_q(c, w)
  PROVE  /\ [Next]_vars /\ level' \in [Slots -> 0 .. QueueCap]
         /\ conn'[c].idx \notin Slots /\ \A d \in Conns \ {c} : conn'[d] = conn[d]
<1>1. /\ level \in [Slots -> 0 .. QueueCap] /\ DOMAIN conn = Conns
  BY Zenon DEF ClearingInv, Shape, Inv, TypeOK
<1>2. CASE conn[c].idx \in Slots
  <2>1. CloseConn(c) /\ \E q \in {w.q, w.q + 1} : q <= QueueCap /\ SetLevel(c, [w EXCEPT !.q = q])
    BY <1>2, Zenon DEF send_end_and_close_q
  <2>2. PICK q \in {w.q, w.q + 1} : q <= QueueCap /\ SetLevel(c, [w EXCEPT !.q = q])
    BY <2>1, Zenon
  <2>3. PICK x : x = [w EXCEPT !.q = q]
    BY Zenon
  <2>4. x.q = q
    BY <2>3, Zenon DEF Working, Results
  <2>5. q \in 0 .. QueueCap
    BY <2>2 DEF Working
  <2>6. level' \in [Slots -> 0 .. QueueCap]
    BY <1>1, <2>2, <2>3, <2>4, <2>5, LevelFacts, Zenon
  <2>7. conn' = [conn EXCEPT ![c] = Closed]
    BY <2>1, Zenon DEF CloseConn
  <2>8. conn'[c] = Closed /\ \A d \in Conns \ {c} : conn'[d] = conn[d]
    BY <1>1, <2>7, Zenon
  <2>9. Closed.idx \notin Slots
    BY IngresConstants DEF Closed, NoIndex, Slots
  <2>10. Next
    BY <2>1, Zenon DEF Next
  <2> QED
    BY <2>6, <2>8, <2>9, <2>10, Zenon
<1>3. CASE conn[c].idx \notin Slots
  <2>1. UNCHANGED vars /\ UNCHANGED level
    BY <1>3, Zenon DEF send_end_and_close_q
  <2>2. conn' = conn
    BY <2>1, Zenon DEF vars
  <2> QED
    BY <1>1, <1>3, <2>1, <2>2, Zenon
<1> QED
  BY <1>2, <1>3, Zenon

(* The end of a round, for all connections. *)
LEMMA EndRoundFacts ==
  ASSUME NEW ret, NEW s, EndRound(ret, s), DOMAIN s = Conns, \A d \in Conns : Calm(s[d]), Shape
  PROVE  /\ DOMAIN st' = Conns
         /\ \A d \in Conns : /\ Calm(st'[d]) /\ st'[d].life = s[d].life
                             /\ st'[d].name = s[d].name /\ st'[d].lost = s[d].lost
         /\ {"at", "run", "polled", "got", "inum"} \subseteq DOMAIN pc'
         /\ pc'.at \in {"control", "poll"}
<1>1. PICK i : i = (pc.inum + 1) % CheckIter
  BY Zenon
<1>2. pc' = [pc EXCEPT !.run = {}, !.polled = <<>>, !.got = FALSE, !.inum = i,
               !.at = IF ret = "OK" /\ i # 0 THEN "poll" ELSE "control"]
  BY <1>1, Zenon DEF EndRound
<1>3. /\ {"at", "run", "polled", "got", "inum"} \subseteq DOMAIN pc'
      /\ pc'.at \in {"control", "poll"}
  BY <1>2, Zenon DEF Shape
<1>4. st' = s \/ st' = Flushed(s)
  BY Zenon DEF EndRound
<1>5. CASE st' = s
  BY <1>3, <1>5, Zenon
<1>6. CASE st' = Flushed(s)
  <2>1. DOMAIN st' = Conns
    BY <1>6, Zenon DEF Flushed
  <2>2. \A d \in Conns : st'[d] = s[d] \/ st'[d] = flush_stream(s[d])
    BY <1>6, Zenon DEF Flushed
  <2>3. ASSUME NEW d \in Conns
        PROVE  /\ Calm(st'[d]) /\ st'[d].life = s[d].life
               /\ st'[d].name = s[d].name /\ st'[d].lost = s[d].lost
    <3>1. CASE st'[d] = s[d]
      BY <3>1, Zenon
    <3>2. CASE st'[d] = flush_stream(s[d])
      <4>1. PICK y : y = s[d]
        BY Zenon
      <4>2. PICK x : x = flush_stream(y)
        BY Zenon
      <4>3. Sound(y) /\ y.mode \in Modes /\ (Archived(y) => y.tuple = NoTuple)
        BY <4>1, Zenon DEF Calm
      <4>4. /\ Sound(x) /\ Alike(x, y, {"sent", "buf", "head", "tuple", "force"})
            /\ Archived(y) => x.tuple = NoTuple
        BY <4>2, <4>3, FlushStreamFacts, Zenon
      <4>5. x.life = y.life /\ x.name = y.name /\ x.lost = y.lost /\ x.mode = y.mode
        BY <4>3, <4>4, Zenon DEF Alike, Sound, Fields
      <4>6. Calm(x)
        BY <4>3, <4>4, <4>5, Zenon DEF Calm, Archived
      <4> QED
        BY <3>2, <4>1, <4>2, <4>5, <4>6, Zenon
    <3> QED
      BY <2>2, <3>1, <3>2, Zenon
  <2> QED
    BY <1>3, <2>1, <2>3, Zenon
<1> QED
  BY <1>4, <1>5, <1>6, Zenon

(* A connection that is deleted loses at most a tuple that waits for room in its
   ingress queue. *)
LEMMA LostFacts ==
  ASSUME NEW w, Sound(w), Archived(w) => w.tuple = NoTuple, NEW g, g = Gone(w)
  PROVE  g.lost = 0 \/ (~Archived(w) /\ w.tuple.kind = "data")
<1>1. PICK x : x = flush_stream(w)
  BY Zenon
<1>2. g.lost = x.made - x.sent
  BY <1>1, GoneFacts, Zenon
<1>3. CASE Archived(w)
  <2>1. Sound(x) /\ x.sent = x.made
    BY <1>1, <1>3, FlushStreamFacts, Zenon
  <2> QED
    BY <1>2, <2>1 DEF Sound, Stock
<1>4. CASE ~Archived(w) /\ w.tuple.kind # "data"
  <2>1. x = w
    BY <1>1, <1>4, FlushStreamFacts, Zenon
  <2>2. PICK t \in Tuples, h \in Nat, sent \in Nat, made \in Nat :
          /\ t = w.tuple /\ h = w.head /\ sent = w.sent /\ made = w.made
          /\ InOrder(<<>>, h, t, sent, made) /\ h \in 0 .. Len(<<>>)
    BY <1>4 DEF Sound, Stock
  <2>3. Len(<<>>) = 0
    BY EmptySequence, Zenon
  <2>4. \A k \in Nat : t # Data(k)
    BY <1>4, <2>2, TupleFacts, Zenon
  <2>5. sent <= made /\ \A k \in (sent + 1) .. made : FALSE
    <3>1. \A i \in (h + 1) .. Len(<<>>) : FALSE
      BY <2>2, <2>3
    <3>2. \A k \in (sent + 1) .. made : k \in Nat /\ t # Data(k)
      BY <2>2, <2>4
    <3> QED
      BY <2>2, <3>1, <3>2, Zenon DEF InOrder
  <2>6. made - sent = 0
    <3>1. CASE sent < made
      <4>1. sent + 1 \in (sent + 1) .. made
        BY <3>1
      <4> QED
        BY <2>5, <4>1, Zenon
    <3> QED
      BY <2>5, <3>1
  <2> QED
    BY <1>2, <2>1, <2>2, <2>6, Zenon
<1> QED
  BY <1>3, <1>4, Zenon

(* Cardinalities. *)
LEMMA FreeFacts ==
  /\ IsFiniteSet(Free) /\ Cardinality(Free) \in Nat
  /\ Free # {} => Fresh \in Free
  /\ \A c \in Free : Cardinality(Free \ {c}) = Cardinality(Free) - 1
<1>1. Free \subseteq Conns
  BY Zenon DEF Free
<1>2. IsFiniteSet(Free) /\ Cardinality(Free) \in Nat
  BY <1>1, IngresConstants, FS_Subset, FS_CardinalityType, Zenon
<1>3. Free # {} => Fresh \in Free
  BY Zenon DEF Fresh
<1> QED
  BY <1>2, <1>3, FS_RemoveElement, Zenon

(* The commands that will create a connection can be counted. *)
LEMMA StartupFacts ==
  ASSUME NEW q \in Seq(Entries)
  PROVE  /\ IsFiniteSet(Startups(q)) /\ Cardinality(Startups(q)) \in Nat
         /\ Startups(q) # {} => Cardinality(Startups(q)) >= 1
<1>1. Startups(q) \subseteq 1 .. Len(q)
  BY DEF Startups
<1>2. IsFiniteSet(1 .. Len(q))
  BY FS_Interval
<1>3. IsFiniteSet(Startups(q)) /\ Cardinality(Startups(q)) \in Nat
  BY <1>1, <1>2, FS_Subset, FS_CardinalityType, Zenon
<1>4. Startups(q) # {} => Cardinality(Startups(q)) # 0
  BY <1>3, FS_EmptySet, Zenon
<1> QED
  BY <1>3, <1>4

(* The backend's notice, *)
LEMMA NoticeFacts ==
  ASSUME NEW q \in Seq(Entries), NEW e \in Entries, NEW r, r = Append(q, e)
  PROVE  /\ r \in Seq(Entries)
         /\ Cardinality(Startups(r)) <= Cardinality(Startups(q)) + 1
         /\ e.cmd # "STARTUP" => Startups(r) = Startups(q)
<1>1. /\ r \in Seq(Entries) /\ DOMAIN r = 1 .. (Len(q) + 1) /\ DOMAIN q = 1 .. Len(q) /\ Len(q) \in Nat
      /\ \A i \in 1 .. Len(q) : r[i] = q[i]
      /\ r[Len(q) + 1] = e
  BY Appending
<1>2. CASE e.cmd = "STARTUP"
  <2>1. Startups(r) = Startups(q) \cup {Len(q) + 1}
    BY <1>1, <1>2 DEF Startups
  <2>2. Cardinality(Startups(q)) \in Nat /\ IsFiniteSet(Startups(q))
    BY StartupFacts, Zenon
  <2>3. Cardinality(Startups(q) \cup {Len(q) + 1}) =
          IF Len(q) + 1 \in Startups(q) THEN Cardinality(Startups(q)) ELSE Cardinality(Startups(q)) + 1
    BY <2>2, FS_AddElement, Zenon
  <2> QED
    BY <1>1, <1>2, <2>1, <2>2, <2>3
<1>3. CASE e.cmd # "STARTUP"
  <2>1. Startups(r) = Startups(q)
    BY <1>1, <1>3 DEF Startups
  <2>2. Cardinality(Startups(q)) \in Nat
    BY StartupFacts, Zenon
  <2> QED
    BY <1>1, <1>3, <2>1, <2>2
<1> QED
  BY <1>2, <1>3, Zenon

(* and the clearinghouse that takes it. *)
LEMMA TakenFacts ==
  ASSUME NEW q \in Seq(Entries), q # <<>>, NEW r, r = Tail(q)
  PROVE  /\ r \in Seq(Entries) /\ Head(q) \in Entries
         /\ Cardinality(Startups(r)) <= Cardinality(Startups(q))
         /\ Head(q).cmd = "STARTUP" => /\ Startups(q) # {}
                                       /\ Cardinality(Startups(r)) <= Cardinality(Startups(q)) - 1
<1>1. /\ r \in Seq(Entries) /\ Head(q) \in Entries /\ Head(q) = q[1]
      /\ DOMAIN r = 1 .. (Len(q) - 1) /\ DOMAIN q = 1 .. Len(q) /\ Len(q) \in Nat /\ Len(q) > 0
      /\ \A i \in 1 .. (Len(q) - 1) : r[i] = q[i + 1]
  BY Taking, EmptySequence
<1>2. PICK S : S = Startups(q) \ {1}
  BY Zenon
<1>3. PICK f : f = [i \in Startups(r) |-> i + 1]
  BY Zenon
<1>4. \A i \in Startups(r) : i \in Nat /\ i + 1 \in S
  BY <1>1, <1>2 DEF Startups
<1>5. f \in Injection(Startups(r), S)
  <2>1. f \in [Startups(r) -> S]
    BY <1>3, <1>4, Zenon
  <2>2. \A i, j \in Startups(r) : f[i] = f[j] => i = j
    BY <1>3, <1>4
  <2> QED
    BY <2>1, <2>2, Zenon DEF Injection, IsInjective
<1>6. /\ IsFiniteSet(Startups(q)) /\ Cardinality(Startups(q)) \in Nat
      /\ Cardinality(Startups(r)) \in Nat
  BY <1>1, StartupFacts, Zenon
<1>7. /\ IsFiniteSet(S)
      /\ Cardinality(S) = IF 1 \in Startups(q) THEN Cardinality(Startups(q)) - 1 ELSE Cardinality(Startups(q))
  BY <1>2, <1>6, FS_RemoveElement, Zenon
<1>8. Cardinality(Startups(r)) <= Cardinality(S)
  BY <1>5, <1>7, FS_Injection, Zenon
<1>9. Head(q).cmd = "STARTUP" => 1 \in Startups(q)
  BY <1>1 DEF Startups
<1> QED
  BY <1>1, <1>6, <1>7, <1>8, <1>9

-----------------------------------------------------------------------------
(* A step keeps what ClearingInv says of the connections, and closes none badly: *)
Kept == AllCalm' /\ Listed' /\ ClosesWell

(* one that changes no name, no life and no queue; *)
LEMMA Steady ==
  ASSUME Listed, table' = table, conn' = conn,
         \A d \in Conns : Calm(st'[d]) /\ st'[d].life = st[d].life /\ st'[d].name = st[d].name
  PROVE  Kept /\ Free' = Free
<1>1. AllCalm'
  BY Zenon DEF AllCalm
<1>2. \A d \in Conns : (Open(d)' <=> Open(d)) /\ (Holds(d)' <=> Holds(d))
  BY Zenon DEF Open, Holds, Archived
<1>3. Listed'
  BY <1>2, Zenon DEF Listed
<1>4. ClosesWell
  BY Zenon DEF ClosesWell, Open
<1> QED
  BY <1>1, <1>3, <1>4, Zenon DEF Kept, Free

(* one that deletes c; *)
LEMMA Deleting ==
  ASSUME Listed, NEW c \in Conns, c \in Range(table), Unlisted(c),
         conn'[c].idx \notin Slots, \A d \in Conns \ {c} : conn'[d] = conn[d],
         \A d \in Conns : Calm(st'[d]), st'[c].life = "gone",
         \A d \in Conns \ {c} : st'[d].life = st[d].life /\ st'[d].name = st[d].name,
         \/ st'[c].lost = 0
         \/ pc.at \notin {"run", "wake"} /\ ~Archived(st[c]) /\ st[c].tuple.kind = "data"
  PROVE  Kept /\ Free' = Free
<1>1. AllCalm'
  BY Zenon DEF AllCalm
<1>2. \A d \in Conns \ {c} : (Open(d)' <=> Open(d)) /\ (Holds(d)' <=> Holds(d))
  BY Zenon DEF Open, Holds, Archived
<1>3. ~Open(c)' /\ ~Holds(c)' /\ Open(c)
  BY Zenon DEF Open, Holds, Listed
<1>4. \A i, j \in DOMAIN table' : table'[i] = table'[j] => i = j
  BY Zenon DEF Unlisted
<1>5. \A d \in Conns : Open(d)' <=> d \in Range(table')
  BY <1>2, <1>3, Zenon DEF Listed, Unlisted
<1>6. \A d \in Conns : /\ Holds(d)' => conn'[d].name = st'[d].name
                       /\ conn'[d].idx \in Slots => Holds(d)'
  BY <1>2, <1>3, Zenon DEF Listed
<1>7. Listed'
  BY <1>4, <1>5, <1>6, Zenon DEF Listed
<1>8. ClosesWell
  BY Zenon DEF ClosesWell, Open
<1>9. Free' = Free
  BY <1>3, Zenon DEF Free, Open
<1> QED
  BY <1>1, <1>7, <1>8, <1>9, Zenon DEF Kept

(* and one that creates c, which the table takes or refuses. *)
LEMMA Creating ==
  ASSUME ClearingInv, NEW c \in Free, NEW n \in Names, CreateConn(c, n),
         \/ st'[c].life = "open" /\ Enlisted(c)
         \/ st'[c].life = "leaked" /\ table' = table,
         \A d \in Conns : Calm(st'[d]), st'[c].name = n,
         \A d \in Conns \ {c} : st'[d].life = st[d].life /\ st'[d].name = st[d].name
  PROVE  Kept /\ Free' = Free \ {c} /\ [Next]_vars /\ level' = level
<1>0. /\ c \in Conns /\ st[c].life = "unused" /\ DOMAIN conn = Conns /\ Listed
  BY Zenon DEF Free, ClearingInv, Inv, TypeOK
<1>1. AllCalm'
  BY Zenon DEF AllCalm
<1>2. \A d \in Conns \ {c} : (Open(d)' <=> Open(d)) /\ (Holds(d)' <=> Holds(d))
  BY Zenon DEF Open, Holds, Archived
<1>3. ~Open(c) /\ ~Holds(c) /\ conn[c].idx \notin Slots
  BY <1>0, Zenon DEF Open, Holds, Listed
<1>4. Holds(c)' <=> n \notin ArchivedNames
  BY Zenon DEF Holds, Archived
<1>5. \A i, j \in DOMAIN table' : table'[i] = table'[j] => i = j
  BY <1>0, Zenon DEF Enlisted, Listed
<1>6. \A d \in Conns : Open(d)' <=> d \in Range(table')
  <2>1. CASE st'[c].life = "open" /\ Enlisted(c)
    BY <1>0, <1>2, <2>1, Zenon DEF Listed, Enlisted, Open
  <2>2. CASE st'[c].life = "leaked" /\ table' = table
    BY <1>0, <1>2, <1>3, <2>2, Zenon DEF Listed, Open
  <2> QED
    BY <2>1, <2>2, Zenon
<1>7. /\ [Next]_vars /\ level' = level /\ \A d \in Conns \ {c} : conn'[d] = conn[d]
      /\ n \notin ArchivedNames => conn'[c].name = n
      /\ n \in ArchivedNames => conn'[c] = conn[c]
  <2>1. CASE n \in ArchivedNames
    BY <2>1, Zenon DEF CreateConn, vars
  <2>2. CASE n \notin ArchivedNames
    <3>1. OpenConn(c) /\ conn'[c].name = n /\ level' = level
      BY <2>2, Zenon DEF CreateConn
    <3>2. PICK x : conn' = [conn EXCEPT ![c] = x]
      BY <3>1, Zenon DEF OpenConn
    <3>3. Next
      BY <1>0, <3>1, Zenon DEF Next
    <3> QED
      BY <1>0, <2>2, <3>1, <3>2, <3>3, Zenon
  <2> QED
    BY <2>1, <2>2, Zenon
<1>8. \A d \in Conns : /\ Holds(d)' => conn'[d].name = st'[d].name
                       /\ conn'[d].idx \in Slots => Holds(d)'
  <2>1. ASSUME NEW d \in Conns \ {c}
        PROVE  (Holds(d)' => conn'[d].name = st'[d].name) /\ (conn'[d].idx \in Slots => Holds(d)')
    BY <1>0, <1>2, <1>7, Zenon DEF Listed
  <2>2. (Holds(c)' => conn'[c].name = st'[c].name) /\ (conn'[c].idx \in Slots => Holds(c)')
    BY <1>3, <1>4, <1>7, Zenon
  <2> QED
    BY <2>1, <2>2, Zenon
<1>9. Listed'
  BY <1>5, <1>6, <1>8, Zenon DEF Listed
<1>10. ClosesWell
  BY <1>3, Zenon DEF ClosesWell, Open
<1>11. Free' = Free \ {c}
  BY <1>0, Zenon DEF Free
<1> QED
  BY <1>1, <1>7, <1>9, <1>10, <1>11, Zenon DEF Kept

-----------------------------------------------------------------------------
(* Every step is good. *)
Good == ClearingInv' /\ [Next]_vars /\ ClosesWell

(* What is left to show of a step that is a step of IngresQ. *)
LEMMA Assemble ==
  ASSUME ClearingInv, [Next]_vars, Kept, Shape', PollResultsCurrent', Enough'
  PROVE  Good
<1>1. Inv'
  BY NextInv, Zenon DEF ClearingInv
<1> QED
  BY <1>1, Zenon DEF Good, Kept, ClearingInv

(* The process outside poll(2)'s results. *)
LEMMA Outside ==
  ASSUME pc'.at \notin {"run", "wake"}
  PROVE  PollResultsCurrent'
  BY Zenon DEF PollResultsCurrent

(* No connection created, no command queued. *)
LEMMA SameEnough ==
  ASSUME ClearingInv, Free' = Free, controlQ' = controlQ
  PROVE  Enough'
  BY Zenon DEF ClearingInv, Enough

(* A connection created out of the spare ones. *)
LEMMA FewerEnough ==
  ASSUME ClearingInv, NEW c \in Free, Free' = Free \ {c}, controlQ' \in Seq(Entries),
         Cardinality(Startups(controlQ')) < Cardinality(Free)
  PROVE  Enough'
<1>1. /\ Cardinality(Free) \in Nat /\ Cardinality(Free \ {c}) = Cardinality(Free) - 1
      /\ Cardinality(Startups(controlQ')) \in Nat
  BY FreeFacts, StartupFacts, Zenon
<1> QED
  BY <1>1 DEF Enough

(* The main loop moves on. *)
LEMMA GotoFacts ==
  ASSUME Shape, NEW at, Goto(at)
  PROVE  {"at", "run", "polled", "got", "inum"} \subseteq DOMAIN pc' /\ pc'.at = at
  BY Zenon DEF Shape, Goto

(* The places of the main loop. *)
Places == {"control", "poll", "run", "wake", "exit", "exited", "crashed"}

(* The state keeps its shape. *)
LEMMA ShapeKept ==
  ASSUME Shape, DOMAIN st' = Conns, table' \in Seq(Conns), Len(table') <= MaxConn,
         level' \in [Slots -> 0 .. QueueCap], active' = active, controlQ' \in Seq(Entries),
         {"at", "run", "polled", "got", "inum"} \subseteq DOMAIN pc', pc'.at \in Places
  PROVE  Shape'
  BY Zenon DEF Shape, Places

(* The STARTUP command opens a connection, or finds the table full. *)
LEMMA StartupStep ==
  ASSUME ClearingInv, controlQ # <<>>, controlQ' = Tail(controlQ), active' = active,
         NEW n \in Names \cup {NULL}, Head(controlQ).cmd = "STARTUP", STREAM_STARTUP(n), Goto("poll")
  PROVE  Good
<1>1. PICK c : c = Fresh
  BY Zenon
<1>2. Shape /\ Listed /\ AllCalm /\ Enough /\ controlQ \in Seq(Entries)
  BY Zenon DEF ClearingInv, Shape
<1>3. /\ controlQ' \in Seq(Entries) /\ Startups(controlQ) # {}
      /\ Cardinality(Startups(controlQ')) <= Cardinality(Startups(controlQ)) - 1
  BY <1>2, TakenFacts, Zenon
<1>4. /\ Cardinality(Startups(controlQ)) \in Nat /\ Cardinality(Startups(controlQ)) >= 1
      /\ Cardinality(Startups(controlQ')) \in Nat
      /\ Cardinality(Free) \in Nat
  BY <1>2, <1>3, StartupFacts, FreeFacts, Zenon
<1>5. Cardinality(Startups(controlQ')) < Cardinality(Free) /\ Cardinality(Free) # 0
  BY <1>2, <1>3, <1>4 DEF Enough
<1>6. c \in Free
  <2>1. Free # {}
    BY <1>5, FS_EmptySet, Zenon
  <2> QED
    BY <1>1, <2>1, FreeFacts, Zenon
<1>7. c \in Conns /\ st[c].life = "unused"
  BY <1>6, Zenon DEF Free
<1>8. /\ CreateConn(c, n)
      /\ st' = [st EXCEPT ![c] = [NewConn(n, TRUE) EXCEPT !.life = IF TableFull THEN "leaked" ELSE "open"]]
      /\ table' = IF TableFull THEN table ELSE Append(table, c)
  BY <1>1, Zenon DEF STREAM_STARTUP
<1>9. PICK x, life, pull :
        st' = [st EXCEPT ![c] = x] /\ Created(x, n, pull, life)
        /\ life = IF TableFull THEN "leaked" ELSE "open"
  BY <1>8, Zenon DEF Created
<1>10. Calm(x) /\ x.life = life /\ x.name = n
  BY <1>9, CreatedFacts
<1>11. DOMAIN st' = Conns /\ st'[c] = x /\ \A d \in Conns \ {c} : st'[d] = st[d]
  BY <1>2, <1>7, <1>9, Zenon DEF Shape
<1>12. c \notin Range(table)
  BY <1>2, <1>7, Zenon DEF Listed, Open
<1>13. \/ st'[c].life = "open" /\ Enlisted(c)
       \/ st'[c].life = "leaked" /\ table' = table
  <2>1. CASE TableFull
    BY <1>8, <1>9, <1>10, <1>11, <2>1, Zenon
  <2>2. CASE ~TableFull
    BY <1>2, <1>7, <1>8, <1>9, <1>10, <1>11, <1>12, <2>2, AppendTable, Zenon
  <2> QED
    BY <2>1, <2>2, Zenon
<1>14. n \in Names
  <2>1. CASE n \in ArchivedNames
    BY <2>1, WrapConstants, Zenon
  <2>2. CASE n \notin ArchivedNames
    <3>1. OpenConn(c) /\ conn'[c].name = n /\ DOMAIN conn = Conns
      BY <1>8, <2>2, Zenon DEF CreateConn, ClearingInv, Inv, TypeOK
    <3>2. PICK m \in Names : \E i : conn' = [conn EXCEPT ![c] = [name |-> m, idx |-> i]]
      BY <3>1, Zenon DEF OpenConn
    <3> QED
      BY <1>7, <3>1, <3>2
  <2> QED
    BY <2>1, <2>2, Zenon
<1>15. \A d \in Conns : Calm(st'[d])
  BY <1>2, <1>10, <1>11, Zenon DEF AllCalm
<1>16. Kept /\ Free' = Free \ {c} /\ [Next]_vars /\ level' = level
  BY <1>6, <1>8, <1>10, <1>11, <1>13, <1>14, <1>15, Creating, Zenon
<1>17. Enough'
  BY <1>3, <1>5, <1>6, <1>16, FewerEnough, Zenon
<1>18. {"at", "run", "polled", "got", "inum"} \subseteq DOMAIN pc' /\ pc'.at = "poll"
  BY <1>2, GotoFacts, Zenon
<1>19. PollResultsCurrent'
  BY <1>18, Outside, Zenon
<1>20. table' \in Seq(Conns) /\ Len(table') <= MaxConn /\ level' \in [Slots -> 0 .. QueueCap]
  BY <1>2, <1>13, <1>16, Zenon DEF Enlisted, Shape
<1>21. Shape'
  BY <1>2, <1>3, <1>11, <1>18, <1>20, ShapeKept, Zenon DEF Places
<1> QED
  BY <1>16, <1>17, <1>19, <1>21, Assemble, Zenon

(* The commands that create no connection leave the table and the queues. *)
LEMMA CommandStep ==
  ASSUME ClearingInv, controlQ # <<>>, controlQ' = Tail(controlQ), active' = active,
         UNCHANGED <<vars, level, table>>, DOMAIN st' = Conns,
         \A d \in Conns : Calm(st'[d]) /\ st'[d].life = st[d].life /\ st'[d].name = st[d].name,
         NEW at \in {"poll", "exit"}, Goto(at)
  PROVE  Good
<1>1. Shape /\ Listed /\ Enough /\ controlQ \in Seq(Entries)
  BY Zenon DEF ClearingInv, Shape
<1>2. controlQ' \in Seq(Entries) /\ Cardinality(Startups(controlQ')) <= Cardinality(Startups(controlQ))
  BY <1>1, TakenFacts, Zenon
<1>3. conn' = conn /\ table' = table /\ level' = level /\ [Next]_vars
  BY Zenon DEF vars
<1>4. Kept /\ Free' = Free
  BY <1>1, <1>3, Steady, Zenon
<1>5. Enough'
  <2>1. /\ Cardinality(Startups(controlQ)) \in Nat /\ Cardinality(Startups(controlQ')) \in Nat
        /\ Cardinality(Free) \in Nat
    BY <1>1, <1>2, StartupFacts, FreeFacts, Zenon
  <2> QED
    BY <1>1, <1>2, <1>4, <2>1 DEF Enough
<1>6. {"at", "run", "polled", "got", "inum"} \subseteq DOMAIN pc' /\ pc'.at = at
  BY <1>1, GotoFacts, Zenon
<1>7. PollResultsCurrent'
  BY <1>6, Outside, Zenon
<1>8. Shape'
  <2>1. table' \in Seq(Conns) /\ Len(table') <= MaxConn /\ level' \in [Slots -> 0 .. QueueCap]
    BY <1>1, <1>3, Zenon DEF Shape
  <2> QED
    BY <1>1, <1>2, <1>6, <2>1, ShapeKept, Zenon DEF Places
<1> QED
  BY <1>3, <1>4, <1>5, <1>7, <1>8, Assemble, Zenon

(* STREAM_SHUTDOWN asks for the done call. *)
LEMMA ShutDownFacts ==
  ASSUME NEW s, Calm(s), NEW x, x = [s EXCEPT !.mode = "DONE"]
  PROVE  Calm(x) /\ x.life = s.life /\ x.name = s.name
<1>1. Fields \subseteq DOMAIN s /\ Stock(s) /\ Manner(s) /\ (Archived(s) => s.tuple = NoTuple)
  BY Zenon DEF Calm, Sound
<1>2. /\ DOMAIN x = DOMAIN s /\ x.mode = "DONE" /\ x.name = s.name /\ x.life = s.life
      /\ x.tuple = s.tuple /\ x.buf = s.buf /\ x.head = s.head /\ x.sent = s.sent /\ x.made = s.made
      /\ x.probes = s.probes /\ x.asleep = s.asleep /\ x.timer = s.timer /\ x.gen = s.gen
  BY <1>1, Zenon DEF Fields
<1>3. Stock(x)
  BY <1>1, <1>2, Zenon DEF Stock, Archived
<1>4. Manner(x)
  BY <1>1, <1>2, Zenon DEF Manner
<1> QED
  BY <1>1, <1>2, <1>3, <1>4, Zenon DEF Calm, Sound, Archived, Modes

(* PROBE counts one more probe. *)
LEMMA ProbeFacts ==
  ASSUME NEW s, Calm(s), NEW p \in 0 .. ProbeCap, NEW x, x = [s EXCEPT !.probes = p]
  PROVE  Calm(x) /\ x.life = s.life /\ x.name = s.name
<1>1. /\ Fields \subseteq DOMAIN s /\ Stock(s) /\ Manner(s) /\ (Archived(s) => s.tuple = NoTuple)
      /\ s.mode \in Modes
  BY Zenon DEF Calm, Sound
<1>2. /\ DOMAIN x = DOMAIN s /\ x.mode = s.mode /\ x.name = s.name /\ x.life = s.life
      /\ x.tuple = s.tuple /\ x.buf = s.buf /\ x.head = s.head /\ x.sent = s.sent /\ x.made = s.made
      /\ x.probes = p /\ x.asleep = s.asleep /\ x.timer = s.timer /\ x.gen = s.gen
      /\ x.pull = s.pull /\ x.probe = s.probe /\ x.error = s.error
  BY <1>1, Zenon DEF Fields
<1>3. Stock(x)
  BY <1>1, <1>2, Zenon DEF Stock, Archived
<1>4. Manner(x)
  BY <1>1, <1>2, Zenon DEF Manner
<1> QED
  BY <1>1, <1>2, <1>3, <1>4, Zenon DEF Calm, Sound, Archived

(* Every command of processWCHControlQ. *)
LEMMA ControlStep ==
  ASSUME ClearingInv, processWCHControlQ
  PROVE  Good
<1>1. /\ controlQ # <<>> /\ controlQ' = Tail(controlQ) /\ active' = active
      /\ Shape /\ AllCalm /\ controlQ \in Seq(Entries)
  BY Zenon DEF processWCHControlQ, ClearingInv, Shape
<1>2. PICK e : e = Head(controlQ)
  BY Zenon
<1>3. e \in Entries /\ e.name \in Names \cup {NULL}
  BY <1>1, <1>2, TakenFacts, Zenon DEF Entries
<1>4. CASE e.cmd = "STARTUP" /\ STREAM_STARTUP(e.name) /\ Goto("poll")
  BY <1>1, <1>2, <1>3, <1>4, StartupStep, Zenon
<1>5. CASE e.cmd = "STREAM_SHUTDOWN" /\ STREAM_SHUTDOWN(e.name) /\ Goto("poll")
  <2>1. /\ UNCHANGED <<vars, level, table>> /\ DOMAIN st' = Conns
        /\ \A d \in Conns : st'[d] = st[d] \/ st'[d] = [st[d] EXCEPT !.mode = "DONE"]
    BY <1>5, Zenon DEF STREAM_SHUTDOWN
  <2>2. ASSUME NEW d \in Conns
        PROVE  Calm(st'[d]) /\ st'[d].life = st[d].life /\ st'[d].name = st[d].name
    <3>1. PICK s : s = st[d]
      BY Zenon
    <3>2. PICK x : x = st'[d]
      BY Zenon
    <3>3. Calm(s) /\ (x = s \/ x = [s EXCEPT !.mode = "DONE"])
      BY <1>1, <2>1, <3>1, <3>2, Zenon DEF AllCalm
    <3>4. Calm(x) /\ x.life = s.life /\ x.name = s.name
      BY <3>3, ShutDownFacts, Zenon
    <3> QED
      BY <3>1, <3>2, <3>4, Zenon
  <2> QED
    BY <1>1, <1>5, <2>1, <2>2, CommandStep, Zenon
<1>6. CASE e.cmd = "PROBE" /\ STREAM_PROBE(e.name) /\ Goto("poll")
  <2>1. /\ UNCHANGED <<vars, level, table>> /\ DOMAIN st = Conns
        /\ \/ st' = st
           \/ \E c : st' = [st EXCEPT ![c].probes = IF @ < ProbeCap THEN @ + 1 ELSE @]
    BY <1>1, <1>6, Zenon DEF STREAM_PROBE, Shape
  <2>2. DOMAIN st' = Conns
    BY <2>1, Zenon
  <2>3. ASSUME NEW d \in Conns
        PROVE  Calm(st'[d]) /\ st'[d].life = st[d].life /\ st'[d].name = st[d].name
    <3>1. PICK s : s = st[d]
      BY Zenon
    <3>2. PICK x : x = st'[d]
      BY Zenon
    <3>3. Calm(s)
      BY <1>1, <3>1, Zenon DEF AllCalm
    <3>4. CASE x = s
      BY <3>1, <3>2, <3>3, <3>4, Zenon
    <3>5. CASE x # s
      <4>1. PICK c : st' = [st EXCEPT ![c].probes = IF @ < ProbeCap THEN @ + 1 ELSE @]
        BY <2>1, <3>1, <3>2, <3>5, Zenon
      <4>2. PICK p : p = IF s.probes < ProbeCap THEN s.probes + 1 ELSE s.probes
        BY Zenon
      <4>3. x = [s EXCEPT !.probes = p]
        BY <2>1, <3>1, <3>2, <3>5, <4>1, <4>2, Zenon
      <4>4. p \in 0 .. ProbeCap
        <5>1. ProbeCap \in Nat
          BY WrapConstants, Zenon
        <5>2. s.probes \in 0 .. ProbeCap
          BY <3>3, Zenon DEF Calm, Sound, Manner
        <5> QED
          BY <4>2, <5>1, <5>2
      <4>5. Calm(x) /\ x.life = s.life /\ x.name = s.name
        BY <3>3, <4>3, <4>4, ProbeFacts, Zenon
      <4> QED
        BY <3>1, <3>2, <4>5, Zenon
    <3> QED
      BY <3>4, <3>5, Zenon
  <2> QED
    BY <1>1, <1>6, <2>1, <2>2, <2>3, CommandStep, Zenon
<1>7. CASE e.cmd = "SHUTDOWN" /\ Goto("exit") /\ UNCHANGED <<vars, table, st, level>>
  <2>1. DOMAIN st' = Conns /\ \A d \in Conns : Calm(st'[d]) /\ st'[d].life = st[d].life /\ st'[d].name = st[d].name
    BY <1>1, <1>7, Zenon DEF Shape, AllCalm
  <2> QED
    BY <1>1, <1>7, <2>1, CommandStep, Zenon
<1> QED
  BY <1>2, <1>4, <1>5, <1>6, <1>7, Zenon DEF processWCHControlQ

(* deleteConnByIndex, which may lose a tuple only outside a run. *)
LEMMA DeleteStep ==
  ASSUME ClearingInv, UNCHANGED <<controlQ, active>>,
         NEW i \in DOMAIN table, NEW w, Working(w), Archived(w) => w.tuple = NoTuple,
         deleteConnByIndex(i, w),
         \/ w.tuple = NoTuple
         \/ pc.at \notin {"run", "wake"} /\ w.name = st[table[i]].name /\ w.tuple = st[table[i]].tuple
  PROVE  Good
<1>1. Shape /\ Listed /\ AllCalm
  BY Zenon DEF ClearingInv
<1>2. PICK c : c = table[i]
  BY Zenon
<1>3. c \in Conns /\ c \in Range(table)
  BY <1>1, <1>2 DEF Shape, Range
<1>4. PICK g : g = Gone(w)
  BY Zenon
<1>5. PICK s : s = [st EXCEPT ![c] = g]
  BY Zenon
<1>6. /\ send_end_and_close_q(c, w) /\ removeConnFromListByIndex(i)
      /\ EndRound("METADATA_CHANGED", s)
  BY <1>2, <1>4, <1>5, Zenon DEF deleteConnByIndex
<1>7. /\ [Next]_vars /\ level' \in [Slots -> 0 .. QueueCap]
      /\ conn'[c].idx \notin Slots /\ \A d \in Conns \ {c} : conn'[d] = conn[d]
  BY <1>3, <1>6, CloseFacts, Zenon
<1>8. Unlisted(c)
  BY <1>1, <1>2, <1>6, RemoveFacts, Zenon
<1>9. Calm(g) /\ g.life = "gone"
  BY <1>4, GoneFacts, Zenon
<1>10. g.lost = 0 \/ (~Archived(w) /\ w.tuple.kind = "data")
  BY <1>4, LostFacts, Zenon DEF Working
<1>11. DOMAIN s = Conns /\ s[c] = g /\ \A d \in Conns \ {c} : s[d] = st[d]
  BY <1>1, <1>3, <1>5, Zenon DEF Shape
<1>12. \A d \in Conns : Calm(s[d])
  BY <1>1, <1>9, <1>11, Zenon DEF AllCalm
<1>13. /\ DOMAIN st' = Conns
       /\ \A d \in Conns : /\ Calm(st'[d]) /\ st'[d].life = s[d].life
                           /\ st'[d].name = s[d].name /\ st'[d].lost = s[d].lost
       /\ {"at", "run", "polled", "got", "inum"} \subseteq DOMAIN pc'
       /\ pc'.at \in {"control", "poll"}
  BY <1>1, <1>6, <1>11, <1>12, EndRoundFacts, Zenon
<1>14. \/ st'[c].lost = 0
       \/ pc.at \notin {"run", "wake"} /\ ~Archived(st[c]) /\ st[c].tuple.kind = "data"
  <2>1. st'[c].lost = g.lost
    BY <1>3, <1>11, <1>13, Zenon
  <2>2. NoTuple.kind # "data"
    BY TupleFacts, Zenon
  <2> QED
    BY <1>2, <1>10, <2>1, <2>2, Zenon DEF Archived
<1>15. Kept /\ Free' = Free
  <2>1. \A d \in Conns : Calm(st'[d])
    BY <1>13, Zenon
  <2>2. st'[c].life = "gone" /\ \A d \in Conns \ {c} : st'[d].life = st[d].life /\ st'[d].name = st[d].name
    BY <1>3, <1>9, <1>11, <1>13, Zenon
  <2> QED
    BY <1>1, <1>3, <1>7, <1>8, <1>14, <2>1, <2>2, Deleting, Zenon
<1>16. Enough'
  BY <1>15, SameEnough, Zenon
<1>17. PollResultsCurrent'
  BY <1>13, Outside, Zenon
<1>18. Shape'
  <2>1. table' \in Seq(Conns) /\ Len(table') <= MaxConn /\ controlQ' \in Seq(Entries)
    BY <1>1, <1>8, Zenon DEF Shape, Unlisted
  <2> QED
    BY <1>1, <1>7, <1>13, <2>1, ShapeKept, Zenon DEF Places
<1> QED
  BY <1>7, <1>15, <1>16, <1>17, <1>18, Assemble, Zenon

(* A round that ends with all connections as they are. *)
LEMMA QuietRound ==
  ASSUME ClearingInv, UNCHANGED <<controlQ, active>>, UNCHANGED <<vars, level, table>>,
         NEW ret, EndRound(ret, st)
  PROVE  Good
<1>1. Shape /\ Listed /\ AllCalm /\ DOMAIN st = Conns
  BY Zenon DEF ClearingInv, Shape
<1>2. /\ DOMAIN st' = Conns
      /\ \A d \in Conns : Calm(st'[d]) /\ st'[d].life = st[d].life /\ st'[d].name = st[d].name
      /\ {"at", "run", "polled", "got", "inum"} \subseteq DOMAIN pc'
      /\ pc'.at \in {"control", "poll"}
  BY <1>1, EndRoundFacts DEF AllCalm
<1>3. conn' = conn /\ table' = table /\ level' = level /\ [Next]_vars
  BY Zenon DEF vars
<1>4. Kept /\ Free' = Free
  BY <1>1, <1>2, <1>3, Steady, Zenon
<1>5. Enough'
  BY <1>4, SameEnough, Zenon
<1>6. PollResultsCurrent'
  BY <1>2, Outside, Zenon
<1>7. Shape'
  <2>1. /\ table' \in Seq(Conns) /\ Len(table') <= MaxConn /\ controlQ' \in Seq(Entries)
        /\ level' \in [Slots -> 0 .. QueueCap]
    BY <1>1, <1>3, Zenon DEF Shape
  <2> QED
    BY <1>1, <1>2, <2>1, ShapeKept, Zenon DEF Places
<1> QED
  BY <1>3, <1>4, <1>5, <1>6, <1>7, Assemble, Zenon

(* A step that only moves the process. *)
LEMMA MoveStep ==
  ASSUME ClearingInv, UNCHANGED <<controlQ, active>>, UNCHANGED <<vars, table, st, level>>,
         {"at", "run", "polled", "got", "inum"} \subseteq DOMAIN pc', pc'.at \in Places,
         PollResultsCurrent'
  PROVE  Good
<1>1. Shape /\ Listed /\ AllCalm
  BY Zenon DEF ClearingInv
<1>2. conn' = conn /\ table' = table /\ level' = level /\ st' = st /\ [Next]_vars
  BY Zenon DEF vars
<1>3. Kept /\ Free' = Free
  <2>1. \A d \in Conns : Calm(st'[d]) /\ st'[d].life = st[d].life /\ st'[d].name = st[d].name
    BY <1>1, <1>2, Zenon DEF AllCalm
  <2> QED
    BY <1>1, <1>2, <2>1, Steady, Zenon
<1>4. Enough'
  BY <1>3, SameEnough, Zenon
<1>5. Shape'
  <2>1. /\ table' \in Seq(Conns) /\ Len(table') <= MaxConn /\ controlQ' \in Seq(Entries)
        /\ level' \in [Slots -> 0 .. QueueCap] /\ DOMAIN st' = Conns
    BY <1>1, <1>2, Zenon DEF Shape
  <2> QED
    BY <1>1, <2>1, ShapeKept, Zenon
<1> QED
  BY <1>2, <1>3, <1>4, <1>5, Assemble, Zenon

(* Spare counts the connections no queued command needs. *)
LEMMA SpareFacts ==
  ASSUME Shape, Spare > 0
  PROVE  /\ Cardinality(Startups(controlQ)) < Cardinality(Free)
         /\ Fresh \in Free
<1>1. /\ Cardinality(Startups(controlQ)) \in Nat /\ Cardinality(Free) \in Nat
  BY StartupFacts, FreeFacts, Zenon DEF Shape
<1>2. Spare = Cardinality(Free) - Cardinality(Startups(controlQ))
  BY Zenon DEF Spare, Startups
<1>3. Cardinality(Startups(controlQ)) < Cardinality(Free) /\ Cardinality(Free) # 0
  BY <1>1, <1>2
<1>4. Free # {}
  BY <1>3, FS_EmptySet, Zenon
<1> QED
  BY <1>3, <1>4, FreeFacts, Zenon

(* A source connects. *)
LEMMA AcceptStep ==
  ASSUME ClearingInv, UNCHANGED <<controlQ, active>>, Spare > 0,
         NEW n \in Names, ~TableFull, CreateConn(Fresh, n), table' = Append(table, Fresh),
         EndRound("METADATA_CHANGED", [st EXCEPT ![Fresh] = NewConn(n, FALSE)])
  PROVE  Good
<1>1. Shape /\ Listed /\ AllCalm
  BY Zenon DEF ClearingInv
<1>2. PICK c : c = Fresh
  BY Zenon
<1>3. /\ Cardinality(Startups(controlQ)) < Cardinality(Free) /\ c \in Free
      /\ c \in Conns /\ st[c].life = "unused"
  BY <1>1, <1>2, SpareFacts, Zenon DEF Free
<1>4. PICK x : x = NewConn(n, FALSE)
  BY Zenon
<1>5. Calm(x) /\ x.life = "open" /\ x.name = n
  <2>1. /\ DOMAIN x = Fields /\ x.tuple = NoTuple /\ x.buf = <<>> /\ x.head = 0 /\ x.sent = 0
        /\ x.made = 0 /\ x.mode = "INIT" /\ x.probes = 0 /\ x.asleep = FALSE /\ x.timer = FALSE
        /\ x.gen = FALSE /\ x.name = n /\ x.life = "open"
    BY <1>4, Zenon DEF NewConn, Fields
  <2> QED
    BY <2>1, NewConnFacts, Zenon
<1>6. PICK s : s = [st EXCEPT ![c] = x]
  BY Zenon
<1>7. EndRound("METADATA_CHANGED", s) /\ CreateConn(c, n) /\ table' = Append(table, c)
  BY <1>2, <1>4, <1>6, Zenon
<1>8. DOMAIN s = Conns /\ s[c] = x /\ \A d \in Conns \ {c} : s[d] = st[d]
  BY <1>1, <1>3, <1>6, Zenon DEF Shape
<1>9. \A d \in Conns : Calm(s[d])
  BY <1>1, <1>5, <1>8, Zenon DEF AllCalm
<1>10. /\ DOMAIN st' = Conns
       /\ \A d \in Conns : Calm(st'[d]) /\ st'[d].life = s[d].life /\ st'[d].name = s[d].name
       /\ {"at", "run", "polled", "got", "inum"} \subseteq DOMAIN pc'
       /\ pc'.at \in {"control", "poll"}
  BY <1>1, <1>7, <1>8, <1>9, EndRoundFacts
<1>11. Enlisted(c)
  <2>1. c \notin Range(table)
    BY <1>1, <1>3, Zenon DEF Listed, Open
  <2> QED
    BY <1>1, <1>3, <1>7, <2>1, AppendTable, Zenon
<1>12. Kept /\ Free' = Free \ {c} /\ [Next]_vars /\ level' = level
  <2>1. /\ \A d \in Conns : Calm(st'[d])
        /\ st'[c].life = "open" /\ st'[c].name = n
        /\ \A d \in Conns \ {c} : st'[d].life = st[d].life /\ st'[d].name = st[d].name
    BY <1>3, <1>5, <1>8, <1>10, Zenon
  <2> QED
    BY <1>3, <1>7, <1>11, <2>1, Creating, Zenon
<1>13. Enough'
  <2>1. controlQ' \in Seq(Entries) /\ Cardinality(Startups(controlQ')) < Cardinality(Free)
    BY <1>1, <1>3, Zenon DEF Shape
  <2> QED
    BY <1>3, <1>12, <2>1, FewerEnough, Zenon
<1>14. PollResultsCurrent'
  BY <1>10, Outside, Zenon
<1>15. Shape'
  <2>1. /\ table' \in Seq(Conns) /\ Len(table') <= MaxConn /\ controlQ' \in Seq(Entries)
        /\ level' \in [Slots -> 0 .. QueueCap]
    BY <1>1, <1>11, <1>12, Zenon DEF Shape, Enlisted
  <2> QED
    BY <1>1, <1>10, <2>1, ShapeKept, Zenon DEF Places
<1> QED
  BY <1>12, <1>13, <1>14, <1>15, Assemble, Zenon

(* A source is refused. *)
LEMMA RefuseStep ==
  ASSUME ClearingInv, UNCHANGED <<controlQ, active>>, Spare > 0, UNCHANGED <<vars, level, table>>,
         EndRound("METADATA_CHANGED", [st EXCEPT ![Fresh].life = "gone"])
  PROVE  Good
<1>1. Shape /\ Listed /\ AllCalm
  BY Zenon DEF ClearingInv
<1>2. PICK c : c = Fresh
  BY Zenon
<1>3. /\ Cardinality(Startups(controlQ)) < Cardinality(Free) /\ c \in Free
      /\ c \in Conns /\ st[c].life = "unused"
  BY <1>1, <1>2, SpareFacts, Zenon DEF Free
<1>4. PICK y : y = st[c]
  BY Zenon
<1>5. PICK x : x = [y EXCEPT !.life = "gone"]
  BY Zenon
<1>6. Calm(x) /\ x.life = "gone" /\ x.name = y.name
  <2>1. Calm(y) /\ Fields \subseteq DOMAIN y
    BY <1>1, <1>3, <1>4, Zenon DEF AllCalm, Calm, Sound
  <2>2. /\ DOMAIN x = DOMAIN y /\ x.life = "gone" /\ x.name = y.name
        /\ \A f \in Fields \ {"life"} : x[f] = y[f]
    BY <1>5, <2>1, Zenon DEF Fields
  <2>3. /\ x.mode = y.mode
        /\ x.tuple = y.tuple /\ x.buf = y.buf /\ x.head = y.head /\ x.sent = y.sent /\ x.made = y.made
        /\ x.probes = y.probes /\ x.asleep = y.asleep /\ x.timer = y.timer /\ x.gen = y.gen
        /\ x.pull = y.pull /\ x.probe = y.probe /\ x.error = y.error
    BY <2>2, Zenon DEF Fields
  <2>4. Stock(x)
    BY <2>1, <2>2, <2>3, Zenon DEF Calm, Sound, Stock, Archived
  <2>5. Manner(x)
    BY <2>1, <2>3, Zenon DEF Calm, Sound, Manner
  <2> QED
    BY <2>1, <2>2, <2>3, <2>4, <2>5, Zenon DEF Calm, Sound, Archived
<1>7. PICK s : s = [st EXCEPT ![c] = x]
  BY Zenon
<1>8. EndRound("METADATA_CHANGED", s)
  BY <1>2, <1>4, <1>5, <1>7, Zenon
<1>9. DOMAIN s = Conns /\ s[c] = x /\ \A d \in Conns \ {c} : s[d] = st[d]
  BY <1>1, <1>3, <1>7, Zenon DEF Shape
<1>10. \A d \in Conns : Calm(s[d])
  BY <1>1, <1>6, <1>9, Zenon DEF AllCalm
<1>11. /\ DOMAIN st' = Conns
       /\ \A d \in Conns : Calm(st'[d]) /\ st'[d].life = s[d].life /\ st'[d].name = s[d].name
       /\ {"at", "run", "polled", "got", "inum"} \subseteq DOMAIN pc'
       /\ pc'.at \in {"control", "poll"}
  BY <1>1, <1>8, <1>9, <1>10, EndRoundFacts
<1>12. /\ st'[c].life = "gone"
       /\ \A d \in Conns \ {c} : st'[d].life = st[d].life /\ st'[d].name = st[d].name
  BY <1>3, <1>6, <1>9, <1>11, Zenon
<1>13. conn' = conn /\ table' = table /\ level' = level /\ [Next]_vars
  BY Zenon DEF vars
<1>14. Kept
  <2>1. AllCalm'
    BY <1>11, Zenon DEF AllCalm
  <2>2. ~Open(c) /\ ~Holds(c) /\ ~Open(c)' /\ ~Holds(c)'
    BY <1>3, <1>12, Zenon DEF Open, Holds
  <2>3. \A d \in Conns \ {c} : (Open(d)' <=> Open(d)) /\ (Holds(d)' <=> Holds(d))
    BY <1>12, Zenon DEF Open, Holds, Archived
  <2>4. Listed'
    BY <1>1, <1>12, <1>13, <2>2, <2>3, Zenon DEF Listed
  <2>5. ClosesWell
    BY <1>12, <2>2, Zenon DEF ClosesWell, Open
  <2> QED
    BY <2>1, <2>4, <2>5, Zenon DEF Kept
<1>15. Free' = Free \ {c}
  BY <1>3, <1>12, Zenon DEF Free
<1>16. Enough'
  <2>1. controlQ' \in Seq(Entries) /\ Cardinality(Startups(controlQ')) < Cardinality(Free)
    BY <1>1, <1>3, Zenon DEF Shape
  <2> QED
    BY <1>3, <1>15, <2>1, FewerEnough, Zenon
<1>17. PollResultsCurrent'
  BY <1>11, Outside, Zenon
<1>18. Shape'
  <2>1. /\ table' \in Seq(Conns) /\ Len(table') <= MaxConn /\ controlQ' \in Seq(Entries)
        /\ level' \in [Slots -> 0 .. QueueCap]
    BY <1>1, <1>13, Zenon DEF Shape
  <2> QED
    BY <1>1, <1>11, <2>1, ShapeKept, Zenon DEF Places
<1> QED
  BY <1>13, <1>14, <1>16, <1>17, <1>18, Assemble, Zenon

(* The poll of AIORead, with a failed, a new or a refused connection. *)
LEMMA PollStep ==
  ASSUME ClearingInv, AIORead_poll
  PROVE  Good
<1>1. Shape /\ AllCalm /\ UNCHANGED <<controlQ, active>>
  BY Zenon DEF ClearingInv, AIORead_poll
<1>2. CASE checkForConnectionErrors
  <2>1. PICK i \in DOMAIN table : deleteConnByIndex(i, Work(table[i]))
    BY <1>2, Zenon DEF checkForConnectionErrors
  <2>2. PICK c : c = table[i]
    BY Zenon
  <2>3. c \in Conns /\ Calm(st[c]) /\ level \in [Slots -> 0 .. QueueCap]
    BY <1>1, <2>2 DEF Shape, AllCalm
  <2>4. PICK w : w = Work(c)
    BY Zenon
  <2>5. Working(w) /\ Calm(w) /\ \A f \in Fields : w[f] = st[c][f]
    BY <2>3, <2>4, WorkFacts, Zenon
  <2>6. w.name = st[c].name /\ w.tuple = st[c].tuple
    BY <2>5, Zenon DEF Fields
  <2>7. pc.at \notin {"run", "wake"}
    BY Zenon DEF AIORead_poll
  <2>8. deleteConnByIndex(i, w)
    BY <2>1, <2>2, <2>4, Zenon
  <2>9. Archived(w) => w.tuple = NoTuple
    BY <2>5, Zenon DEF Calm
  <2> QED
    BY <1>1, <2>2, <2>5, <2>6, <2>7, <2>8, <2>9, DeleteStep, Zenon
<1>3. CASE checkForNewConnections
  <2>1. Spare > 0
    BY <1>3, Zenon DEF checkForNewConnections
  <2>2. \/ \E n \in Names \ PullNames :
             /\ ~TableFull
             /\ CreateConn(Fresh, n)
             /\ table' = Append(table, Fresh)
             /\ EndRound("METADATA_CHANGED", [st EXCEPT ![Fresh] = NewConn(n, FALSE)])
        \/ /\ UNCHANGED <<vars, level, table>>
           /\ EndRound("METADATA_CHANGED", [st EXCEPT ![Fresh].life = "gone"])
    BY <1>3, Zenon DEF checkForNewConnections
  <2>3. CASE \E n \in Names \ PullNames :
               /\ ~TableFull
               /\ CreateConn(Fresh, n)
               /\ table' = Append(table, Fresh)
               /\ EndRound("METADATA_CHANGED", [st EXCEPT ![Fresh] = NewConn(n, FALSE)])
    BY <1>1, <2>1, <2>3, AcceptStep, Zenon
  <2>4. CASE /\ UNCHANGED <<vars, level, table>>
             /\ EndRound("METADATA_CHANGED", [st EXCEPT ![Fresh].life = "gone"])
    BY <1>1, <2>1, <2>4, RefuseStep, Zenon
  <2> QED
    BY <2>2, <2>3, <2>4, Zenon
<1>4. CASE StartRun
  <2>1. PICK run :
          /\ \E got : pc' = [pc EXCEPT !.at = "run", !.polled = table, !.got = got, !.run = run]
          /\ run \subseteq DOMAIN table /\ UNCHANGED <<vars, table, st, level>>
    <3>1. PICK in \in SUBSET {i \in DOMAIN table : st[table[i]].fd /\ ~st[table[i]].asleep} :
            /\ pc' = [pc EXCEPT !.at = "run", !.polled = table, !.got = in # {},
                         !.run = {i \in DOMAIN table : \/ i \in in \/ st[table[i]].buffered
                                                       \/ st[table[i]].mode # "NEXT"}]
            /\ UNCHANGED <<vars, table, st, level>>
      BY <1>4, Zenon DEF StartRun
    <3>2. PICK run : run = {i \in DOMAIN table : \/ i \in in \/ st[table[i]].buffered
                                                 \/ st[table[i]].mode # "NEXT"}
      BY Zenon
    <3>3. PICK got : pc' = [pc EXCEPT !.at = "run", !.polled = table, !.got = got, !.run = run]
      BY <3>1, <3>2, Zenon
    <3>4. run \subseteq DOMAIN table
      BY <3>2, Zenon
    <3> QED
      BY <3>1, <3>3, <3>4, Zenon
  <2>2. /\ {"at", "run", "polled", "got", "inum"} \subseteq DOMAIN pc' /\ pc'.at = "run"
        /\ pc'.polled = table /\ pc'.run = run
    BY <1>1, <2>1, Zenon DEF Shape
  <2>3. PollResultsCurrent'
    BY <2>1, <2>2, Zenon DEF PollResultsCurrent
  <2> QED
    BY <1>1, <2>1, <2>2, <2>3, MoveStep, Zenon DEF Places
<1> QED
  BY <1>2, <1>3, <1>4, Zenon DEF AIORead_poll

(* A connection to run is one of the table. *)
LEMMA FirstFacts ==
  ASSUME ClearingInv, pc.at \in {"run", "wake"}, pc.run # {}
  PROVE  First \in DOMAIN table /\ First \in pc.run /\ table[First] \in Conns
<1>1. pc.run \subseteq DOMAIN table /\ table \in Seq(Conns)
  BY Zenon DEF ClearingInv, PollResultsCurrent, Shape
<1>2. pc.run \subseteq Nat
  BY <1>1
<1>3. First \in pc.run
  BY <1>2, FirstMatch, Zenon DEF First
<1> QED
  BY <1>1, <1>3

(* One call of processConnection, by its outcome. *)
LEMMA ProcessStep ==
  ASSUME ClearingInv, UNCHANGED <<controlQ, active>>, pc.at \in {"run", "wake"}, pc.run # {},
         NEW timeout \in BOOLEAN, NEW w, Working(w), Ready(w), Calm(w), timeout => w.asleep = FALSE,
         w.name = st[table[First]].name, w.life = st[table[First]].life,
         Process(w, timeout)
  PROVE  Good
<1>1. Shape /\ Listed /\ AllCalm /\ PollResultsCurrent
  BY Zenon DEF ClearingInv
<1>2. PICK i : i = First
  BY Zenon
<1>3. PICK c : c = table[i]
  BY Zenon
<1>4. i \in DOMAIN table /\ i \in pc.run /\ c \in Conns
  BY <1>2, <1>3, FirstFacts, Zenon
<1>5. PICK x \in processConnection(w, timeout) :
        IF x.mode = "CRASH" THEN Goto("crashed") /\ UNCHANGED <<vars, table, st, level>>
        ELSE IF x.mode = "END" THEN deleteConnByIndex(i, x)
        ELSE /\ st' = [st EXCEPT ![c] = Conn(x)]
             /\ UNCHANGED <<vars, table>> /\ SetLevel(c, x)
             /\ pc' = [pc EXCEPT !.run = IF ~timeout /\ x.grew /\ ~x.asleep /\ x.mode = "NEXT"
                                         THEN @ ELSE @ \ {i},
                                 !.got = @ \/ timeout]
  BY <1>2, <1>3, Zenon DEF Process
<1>6. /\ Working(x) /\ Alike(x, w, Changing)
      /\ x.mode \in Modes \cup {"END", "CRASH"}
      /\ Archived(x) => x.tuple = NoTuple
      /\ x.mode = "END" => x.tuple = NoTuple
  BY ConnectionFacts, Zenon DEF Calm
<1>7. x.name = w.name /\ x.life = w.life
  BY <1>6, Zenon DEF Alike, Changing, Private, Working, Sound, Fields
<1>8. CASE x.mode = "CRASH"
  <2>1. Goto("crashed") /\ UNCHANGED <<vars, table, st, level>>
    BY <1>5, <1>8, Zenon
  <2>2. {"at", "run", "polled", "got", "inum"} \subseteq DOMAIN pc' /\ pc'.at = "crashed"
    BY <1>1, <2>1, GotoFacts, Zenon
  <2>3. PollResultsCurrent'
    BY <2>2, Outside, Zenon
  <2> QED
    BY <2>1, <2>2, <2>3, MoveStep, Zenon DEF Places
<1>9. CASE x.mode = "END"
  <2>1. deleteConnByIndex(i, x)
    BY <1>5, <1>9, Zenon
  <2> QED
    BY <1>4, <1>6, <1>9, <2>1, DeleteStep, Zenon
<1>10. CASE x.mode \in Modes
  <2>1. x.mode # "CRASH" /\ x.mode # "END"
    BY <1>10, Zenon DEF Modes
  <2>2. PICK s : s = Conn(x)
    BY Zenon
  <2>3. /\ st' = [st EXCEPT ![c] = s]
        /\ UNCHANGED <<vars, table>> /\ SetLevel(c, x)
    BY <1>5, <2>1, <2>2, Zenon
  <2>4. PICK run : run \subseteq pc.run /\ \E got : pc' = [pc EXCEPT !.run = run, !.got = got]
    <3>1. PICK run : run = IF ~timeout /\ x.grew /\ ~x.asleep /\ x.mode = "NEXT"
                           THEN pc.run ELSE pc.run \ {i}
      BY Zenon
    <3>2. run \subseteq pc.run
      BY <3>1, Zenon
    <3>3. pc' = [pc EXCEPT !.run = run, !.got = @ \/ timeout]
      BY <1>5, <2>1, <3>1, Zenon
    <3>4. PICK got : pc' = [pc EXCEPT !.run = run, !.got = got]
      BY <3>3, Zenon
    <3> QED
      BY <3>2, <3>4, Zenon
  <2>5. Calm(s) /\ s.life = x.life /\ s.name = x.name
    BY <1>6, <1>10, <2>2, ConnFacts, Zenon
  <2>6. DOMAIN st' = Conns /\ st'[c] = s /\ \A d \in Conns \ {c} : st'[d] = st[d]
    BY <1>1, <1>4, <2>3, Zenon DEF Shape
  <2>7. \A d \in Conns : Calm(st'[d]) /\ st'[d].life = st[d].life /\ st'[d].name = st[d].name
    BY <1>1, <1>2, <1>3, <1>7, <2>5, <2>6, Zenon DEF AllCalm
  <2>8. conn' = conn /\ table' = table /\ [Next]_vars
    BY <2>3, Zenon DEF vars
  <2>9. Kept /\ Free' = Free
    BY <1>1, <2>7, <2>8, Steady, Zenon
  <2>10. Enough'
    BY <2>9, SameEnough, Zenon
  <2>11. /\ {"at", "run", "polled", "got", "inum"} \subseteq DOMAIN pc' /\ pc'.at = pc.at
         /\ pc'.polled = pc.polled /\ pc'.run = run
    BY <1>1, <2>4, Zenon DEF Shape
  <2>12. PollResultsCurrent'
    BY <1>1, <2>4, <2>8, <2>11, Zenon DEF PollResultsCurrent
  <2>13. level' \in [Slots -> 0 .. QueueCap]
    BY <1>1, <1>6, <2>3, LevelFacts, Zenon DEF Shape, Working
  <2>14. Shape'
    <3>1. table' \in Seq(Conns) /\ Len(table') <= MaxConn /\ controlQ' \in Seq(Entries)
      BY <1>1, <2>8, Zenon DEF Shape
    <3> QED
      BY <1>1, <2>6, <2>11, <2>13, <3>1, ShapeKept, Zenon DEF Places
  <2> QED
    BY <2>8, <2>9, <2>10, <2>12, <2>14, Assemble, Zenon
<1> QED
  BY <1>6, <1>8, <1>9, <1>10, Zenon

(* AIORead calls the connections poll found readable. *)
LEMMA RunStep ==
  ASSUME ClearingInv, AIORead_run
  PROVE  Good
<1>1. /\ Shape /\ AllCalm /\ UNCHANGED <<controlQ, active>> /\ pc.at = "run" /\ pc.run # {}
  BY Zenon DEF ClearingInv, AIORead_run
<1>2. PICK c : c = table[First]
  BY Zenon
<1>3. c \in Conns /\ Calm(st[c]) /\ level \in [Slots -> 0 .. QueueCap]
  BY <1>1, <1>2, FirstFacts, Zenon DEF Shape, AllCalm
<1>4. PICK w : w = Work(c)
  BY Zenon
<1>5. Working(w) /\ Ready(w) /\ Calm(w) /\ \A f \in Fields : w[f] = st[c][f]
  BY <1>3, <1>4, WorkFacts, Zenon
<1>6. w.name = st[c].name /\ w.life = st[c].life
  BY <1>5, Zenon DEF Fields
<1>7. PICK timeout \in BOOLEAN : timeout = FALSE
  BY Zenon
<1>8. Process(w, timeout)
  BY <1>2, <1>4, <1>7, Zenon DEF AIORead_run
<1> QED
  BY <1>1, <1>2, <1>5, <1>6, <1>7, <1>8, ProcessStep, Zenon

(* AIORead looks for expired timers. *)
LEMMA TimeoutsStep ==
  ASSUME ClearingInv, AIORead_timeouts
  PROVE  Good
<1>1. /\ Shape /\ PollResultsCurrent /\ UNCHANGED <<vars, level, controlQ, active>>
      /\ pc.at = "run"
  BY Zenon DEF ClearingInv, AIORead_timeouts
<1>2. PICK late : /\ late \subseteq DOMAIN table
                  /\ \/ UNCHANGED table /\ \E ret : EndRound(ret, st)
                     \/ pc' = [pc EXCEPT !.at = "wake", !.run = late] /\ UNCHANGED <<table, st>>
  <2>1. PICK late \in SUBSET {i \in DOMAIN table : st[table[i]].timer /\ st[table[i]].made < Limit(st[table[i]])} :
          IF late = {} THEN UNCHANGED table /\ EndRound(IF pc.got THEN "OK" ELSE "NO_DATA", st)
          ELSE pc' = [pc EXCEPT !.at = "wake", !.run = late] /\ UNCHANGED <<table, st>>
    BY Zenon DEF AIORead_timeouts
  <2>2. late \subseteq DOMAIN table
    BY <2>1, Zenon
  <2> QED
    BY <2>1, <2>2, Zenon
<1>3. CASE UNCHANGED table /\ \E ret : EndRound(ret, st)
  BY <1>1, <1>3, QuietRound, Zenon
<1>4. CASE pc' = [pc EXCEPT !.at = "wake", !.run = late] /\ UNCHANGED <<table, st>>
  <2>1. /\ {"at", "run", "polled", "got", "inum"} \subseteq DOMAIN pc' /\ pc'.at = "wake"
        /\ pc'.polled = pc.polled /\ pc'.run = late
    BY <1>1, <1>4, Zenon DEF Shape
  <2>2. PollResultsCurrent'
    BY <1>1, <1>2, <1>4, <2>1, Zenon DEF PollResultsCurrent
  <2> QED
    BY <1>1, <1>4, <2>1, <2>2, MoveStep, Zenon DEF Places
<1> QED
  BY <1>2, <1>3, <1>4, Zenon

(* AIORead calls the connections whose timer expired. *)
LEMMA WakeStep ==
  ASSUME ClearingInv, AIORead_wake
  PROVE  Good
<1>1. /\ Shape /\ AllCalm /\ UNCHANGED <<controlQ, active>> /\ pc.at = "wake"
  BY Zenon DEF ClearingInv, AIORead_wake
<1>2. CASE pc.run = {}
  <2>1. UNCHANGED <<vars, table, level>> /\ EndRound("OK", st)
    BY <1>2, Zenon DEF AIORead_wake
  <2> QED
    BY <1>1, <2>1, QuietRound, Zenon
<1>3. CASE pc.run # {}
  <2>1. PICK c : c = table[First]
    BY Zenon
  <2>2. c \in Conns /\ Calm(st[c]) /\ level \in [Slots -> 0 .. QueueCap]
    BY <1>1, <1>3, <2>1, FirstFacts, Zenon DEF Shape, AllCalm
  <2>3. PICK v : v = Work(c)
    BY Zenon
  <2>4. Working(v) /\ Ready(v) /\ Calm(v) /\ \A f \in Fields : v[f] = st[c][f]
    BY <2>2, <2>3, WorkFacts, Zenon
  <2>5. PICK w : w = [v EXCEPT !.asleep = FALSE, !.timer = FALSE]
    BY Zenon
  <2>6. Working(w) /\ Ready(w) /\ Calm(w) /\ w.asleep = FALSE /\ Alike(w, v, {"asleep", "timer"})
    BY <2>4, <2>5, WokenFacts, Zenon
  <2>7. v.name = st[c].name /\ v.life = st[c].life
    BY <2>4, Zenon DEF Fields
  <2>8. w.name = v.name /\ w.life = v.life
    BY <2>4, <2>6, Zenon DEF Alike, Working, Sound, Fields
  <2>9. PICK timeout \in BOOLEAN : timeout = TRUE
    BY Zenon
  <2>10. Process(w, timeout)
    BY <1>3, <2>1, <2>3, <2>5, <2>9, Zenon DEF AIORead_wake
  <2> QED
    BY <1>1, <1>3, <2>1, <2>6, <2>7, <2>8, <2>9, <2>10, ProcessStep, Zenon
<1> QED
  BY <1>2, <1>3, Zenon

(* doShutdown closes what is left. *)
LEMMA ShutdownStep ==
  ASSUME ClearingInv, doShutdown
  PROVE  Good
<1>1. /\ Shape /\ Listed /\ AllCalm /\ UNCHANGED <<controlQ, active>> /\ pc.at = "exit"
  BY Zenon DEF ClearingInv, doShutdown
<1>2. CASE table = <<>>
  <2>1. Goto("exited") /\ UNCHANGED <<vars, table, st, level>>
    BY <1>2, Zenon DEF doShutdown
  <2>2. {"at", "run", "polled", "got", "inum"} \subseteq DOMAIN pc' /\ pc'.at = "exited"
    BY <1>1, <2>1, GotoFacts, Zenon
  <2>3. PollResultsCurrent'
    BY <2>2, Outside, Zenon
  <2> QED
    BY <1>1, <2>1, <2>2, <2>3, MoveStep, Zenon DEF Places
<1>3. CASE table # <<>>
  <2>1. PICK c : c = Head(table)
    BY Zenon
  <2>2. PICK w : w = Work(c)
    BY Zenon
  <2>3. PICK g : g = Gone(w)
    BY Zenon
  <2>4. /\ send_end_and_close_q(c, w) /\ st' = [st EXCEPT ![c] = g]
        /\ table' = Tail(table) /\ pc' = pc
    BY <1>3, <2>1, <2>2, <2>3, Zenon DEF doShutdown
  <2>5. c \in Range(table) /\ Unlisted(c)
    BY <1>1, <1>3, <2>1, <2>4, TailFacts, Zenon
  <2>6. c \in Conns /\ Calm(st[c]) /\ level \in [Slots -> 0 .. QueueCap]
    BY <1>1, <2>5 DEF Shape, AllCalm, Range
  <2>7. Working(w) /\ Calm(w) /\ \A f \in Fields : w[f] = st[c][f]
    BY <2>2, <2>6, WorkFacts, Zenon
  <2>8. w.name = st[c].name /\ w.tuple = st[c].tuple
    BY <2>7, Zenon DEF Fields
  <2>9. /\ [Next]_vars /\ level' \in [Slots -> 0 .. QueueCap]
        /\ conn'[c].idx \notin Slots /\ \A d \in Conns \ {c} : conn'[d] = conn[d]
    BY <2>4, <2>6, <2>7, CloseFacts, Zenon
  <2>10. Calm(g) /\ g.life = "gone"
    BY <2>3, GoneFacts, Zenon
  <2>11. g.lost = 0 \/ (~Archived(w) /\ w.tuple.kind = "data")
    BY <2>3, <2>7, LostFacts, Zenon DEF Calm
  <2>12. DOMAIN st' = Conns /\ st'[c] = g /\ \A d \in Conns \ {c} : st'[d] = st[d]
    BY <1>1, <2>4, <2>6, Zenon DEF Shape
  <2>13. \A d \in Conns : Calm(st'[d])
    BY <1>1, <2>10, <2>12, Zenon DEF AllCalm
  <2>14. \/ st'[c].lost = 0
         \/ pc.at \notin {"run", "wake"} /\ ~Archived(st[c]) /\ st[c].tuple.kind = "data"
    BY <1>1, <2>8, <2>11, <2>12, Zenon DEF Archived
  <2>15. Kept /\ Free' = Free
    BY <1>1, <2>5, <2>6, <2>9, <2>10, <2>12, <2>13, <2>14, Deleting, Zenon
  <2>16. Enough'
    BY <1>1, <2>15, SameEnough, Zenon
  <2>17. PollResultsCurrent'
    BY <1>1, <2>4, Outside, Zenon
  <2>18. Shape'
    <3>1. /\ table' \in Seq(Conns) /\ Len(table') <= MaxConn /\ controlQ' \in Seq(Entries)
          /\ {"at", "run", "polled", "got", "inum"} \subseteq DOMAIN pc' /\ pc'.at \in Places
      BY <1>1, <2>4, <2>5, Zenon DEF Shape, Unlisted, Places
    <3> QED
      BY <1>1, <2>9, <2>12, <3>1, ShapeKept, Zenon
  <2> QED
    BY <2>9, <2>15, <2>16, <2>17, <2>18, Assemble, Zenon
<1> QED
  BY <1>2, <1>3, Zenon

(* The backend leaves the clearinghouse alone. *)
LEMMA BackendKeeps ==
  ASSUME ClearingInv, UNCHANGED <<table, st, pc>>, conn' = conn, [Next]_vars,
         level' \in [Slots -> 0 .. QueueCap],
         active' \in [Names -> Slots \cup {NoIndex, NotScanned}],
         controlQ' \in Seq(Entries), Cardinality(Startups(controlQ')) <= Cardinality(Free)
  PROVE  Good
<1>1. Shape /\ Listed /\ AllCalm /\ PollResultsCurrent
  BY Zenon DEF ClearingInv
<1>2. Kept /\ Free' = Free
  <2>1. \A d \in Conns : Calm(st'[d]) /\ st'[d].life = st[d].life /\ st'[d].name = st[d].name
    BY <1>1, Zenon DEF AllCalm
  <2> QED
    BY <1>1, <2>1, Steady, Zenon
<1>3. Enough'
  BY <1>2, Zenon DEF Enough
<1>4. PollResultsCurrent'
  BY <1>1, Zenon DEF PollResultsCurrent
<1>5. Shape'
  BY <1>1, Zenon DEF Shape
<1> QED
  BY <1>2, <1>3, <1>4, <1>5, Assemble, Zenon

(* A command of the backend, queued or dropped because the queue is full. *)
LEMMA NotifyFacts ==
  ASSUME ClearingInv, NEW e \in Entries, NotifyWCH(e)
  PROVE  /\ controlQ' \in Seq(Entries)
         /\ e.cmd # "STARTUP" \/ Spare > 0 => Cardinality(Startups(controlQ')) <= Cardinality(Free)
<1>1. /\ Shape /\ controlQ \in Seq(Entries)
      /\ Cardinality(Startups(controlQ)) <= Cardinality(Free)
      /\ Cardinality(Startups(controlQ)) \in Nat /\ Cardinality(Free) \in Nat
  BY StartupFacts, FreeFacts, Zenon DEF ClearingInv, Shape, Enough
<1>2. CASE controlQ' = controlQ
  BY <1>1, <1>2, Zenon
<1>3. CASE controlQ' = Append(controlQ, e)
  <2>1. /\ controlQ' \in Seq(Entries)
        /\ Cardinality(Startups(controlQ')) <= Cardinality(Startups(controlQ)) + 1
        /\ e.cmd # "STARTUP" => Startups(controlQ') = Startups(controlQ)
    BY <1>1, <1>3, NoticeFacts, Zenon
  <2>2. Cardinality(Startups(controlQ')) \in Nat
    BY <2>1, StartupFacts, Zenon
  <2>3. Spare > 0 => Cardinality(Startups(controlQ)) < Cardinality(Free)
    BY <1>1, SpareFacts, Zenon
  <2> QED
    BY <1>1, <2>1, <2>2, <2>3
<1> QED
  BY <1>2, <1>3, Zenon DEF NotifyWCH

(* The commands are entries of the control queue. *)
LEMMA CommandFacts ==
  ASSUME NEW cmd \in {"STARTUP", "STREAM_SHUTDOWN", "PROBE", "SHUTDOWN"}, NEW n \in Names \cup {NULL}
  PROVE  Command(cmd, n) \in Entries /\ Command(cmd, n).cmd = cmd
  BY Zenon DEF Command, Entries

(* The steps of the backend: the start and end of scans, probes, dequeues. *)
LEMMA BackendStep ==
  ASSUME ClearingInv, Backend
  PROVE  Good
<1>1. /\ Shape /\ controlQ \in Seq(Entries) /\ level \in [Slots -> 0 .. QueueCap]
      /\ active \in [Names -> Slots \cup {NoIndex, NotScanned}]
  BY Zenon DEF ClearingInv, Shape
<1>2. CASE \E n \in Names : ExecInitStrmScan(n)
  <2>1. PICK n \in Names : ExecInitStrmScan(n)
    BY <1>2, Zenon
  <2>2. PICK i : i = IF n \in ArchivedNames THEN NoIndex ELSE AllocIdx(n)
    BY Zenon
  <2>3. /\ Spare > 0 /\ NotifyWCH(Command("STARTUP", n)) /\ UNCHANGED <<table, st, level, pc>>
        /\ active' = [active EXCEPT ![n] = i]
        /\ UNCHANGED vars \/ StartScan(n)
    BY <2>1, <2>2, Zenon DEF ExecInitStrmScan
  <2>4. active' \in [Names -> Slots \cup {NoIndex, NotScanned}]
    BY <1>1, <2>2, <2>3, AllocatedSlot, Zenon
  <2>5. conn' = conn /\ [Next]_vars
    BY <2>3, Zenon DEF vars, StartScan, Next
  <2>6. controlQ' \in Seq(Entries) /\ Cardinality(Startups(controlQ')) <= Cardinality(Free)
    BY <2>3, NotifyFacts, CommandFacts, Zenon
  <2> QED
    BY <1>1, <2>3, <2>4, <2>5, <2>6, BackendKeeps, Zenon
<1>3. CASE \E n \in Names : ExecReScanStrmScan(n)
  <2>1. PICK n \in Names : /\ NotifyWCH(Command("PROBE", n))
                           /\ UNCHANGED <<vars, table, st, level, pc, active>>
    BY <1>3, Zenon DEF ExecReScanStrmScan
  <2>2. controlQ' \in Seq(Entries) /\ Cardinality(Startups(controlQ')) <= Cardinality(Free)
    BY <2>1, NotifyFacts, CommandFacts, Zenon
  <2>3. conn' = conn /\ [Next]_vars
    BY <2>1, Zenon DEF vars
  <2> QED
    BY <1>1, <2>1, <2>2, <2>3, BackendKeeps, Zenon
<1>4. CASE \E n \in Names : EndScan(n)
  <2>1. PICK n \in Names : /\ NotifyWCH(Command("STREAM_SHUTDOWN", n))
                           /\ active' = [active EXCEPT ![n] = NotScanned]
                           /\ UNCHANGED <<vars, table, st, level, pc>>
    BY <1>4, Zenon DEF EndScan
  <2>2. controlQ' \in Seq(Entries) /\ Cardinality(Startups(controlQ')) <= Cardinality(Free)
    BY <2>1, NotifyFacts, CommandFacts, Zenon
  <2>3. conn' = conn /\ [Next]_vars
    BY <2>1, Zenon DEF vars
  <2>4. active' \in [Names -> Slots \cup {NoIndex, NotScanned}]
    BY <1>1, <2>1, Zenon
  <2> QED
    BY <1>1, <2>1, <2>2, <2>3, <2>4, BackendKeeps, Zenon
<1>5. CASE \E i \in Slots : Dequeue(i)
  <2>1. PICK i \in Slots : /\ level[i] > 0 /\ level' = [level EXCEPT ![i] = @ - 1]
                           /\ UNCHANGED <<vars, table, st, controlQ, pc, active>>
    BY <1>5, Zenon DEF Dequeue
  <2>2. level' \in [Slots -> 0 .. QueueCap]
    <3>1. PICK k : k = level[i] - 1
      BY Zenon
    <3>2. QueueCap \in Nat /\ level[i] \in 0 .. QueueCap
      BY <1>1, WrapConstants, Zenon
    <3>3. k \in 0 .. QueueCap
      BY <2>1, <3>1, <3>2
    <3>4. level' = [level EXCEPT ![i] = k]
      BY <2>1, <3>1, Zenon
    <3> QED
      BY <1>1, <3>3, <3>4, Zenon
  <2>3. conn' = conn /\ [Next]_vars
    BY <2>1, Zenon DEF vars
  <2>4. controlQ' = controlQ /\ Cardinality(Startups(controlQ)) <= Cardinality(Free)
    BY <2>1, Zenon DEF ClearingInv, Enough
  <2> QED
    BY <1>1, <2>1, <2>2, <2>3, <2>4, BackendKeeps, Zenon
<1>6. CASE RequestShutdown
  <2>1. PICK e : e = Command("SHUTDOWN", NULL)
    BY Zenon
  <2>2. controlQ' = Append(controlQ, e) /\ UNCHANGED <<vars, table, st, level, pc, active>>
    BY <1>6, <2>1, Zenon DEF RequestShutdown
  <2>3. e \in Entries /\ e.cmd # "STARTUP"
    BY <2>1, CommandFacts, Zenon
  <2>4. controlQ' \in Seq(Entries) /\ Startups(controlQ') = Startups(controlQ)
    BY <1>1, <2>2, <2>3, NoticeFacts, Zenon
  <2>5. conn' = conn /\ [Next]_vars
    BY <2>2, Zenon DEF vars
  <2>6. Cardinality(Startups(controlQ')) <= Cardinality(Free)
    BY <2>4, Zenon DEF ClearingInv, Enough
  <2> QED
    BY <1>1, <2>2, <2>4, <2>5, <2>6, BackendKeeps, Zenon
<1> QED
  BY <1>2, <1>3, <1>4, <1>5, <1>6, Zenon DEF Backend

(* Every step keeps ClearingInv, is a step of IngresQ or leaves its variables
   alone, and closes connections well. *)
LEMMA GoodStep == ClearingInv /\ [WNext]_wvars => Good
<1> SUFFICES ASSUME ClearingInv, [WNext]_wvars PROVE Good
  BY Zenon
<1>1. CASE WNext
  BY <1>1, ControlStep, PollStep, RunStep, TimeoutsStep, WakeStep, ShutdownStep, BackendStep
    , Zenon DEF WNext, WrapCHStep
<1>2. CASE UNCHANGED wvars
  <2>1. UNCHANGED <<vars, table, st, level, controlQ, pc, active>>
    BY <1>2, Zenon DEF wvars
  <2>2. conn' = conn /\ [Next]_vars
    BY <2>1, Zenon DEF vars
  <2>3. /\ level' \in [Slots -> 0 .. QueueCap] /\ controlQ' \in Seq(Entries)
        /\ active' \in [Names -> Slots \cup {NoIndex, NotScanned}]
        /\ Cardinality(Startups(controlQ')) <= Cardinality(Free)
    BY <2>1, Zenon DEF ClearingInv, Shape, Enough
  <2> QED
    BY <2>1, <2>2, <2>3, BackendKeeps, Zenon
<1> QED
  BY <1>1, <1>2, Zenon

(* ClearingInv holds at the start. *)
LEMMA InitClearing == WInit => ClearingInv
<1> SUFFICES ASSUME WInit PROVE ClearingInv
  BY Zenon
<1>1. /\ table = <<>> /\ st = [c \in Conns |-> Unused] /\ level = [i \in Slots |-> 0]
      /\ controlQ = <<>> /\ active = [n \in Names |-> NotScanned]
      /\ pc = [at |-> "control", run |-> {}, polled |-> <<>>, got |-> FALSE, inum |-> 0]
      /\ conn = [c \in Conns |-> Closed] /\ Init
  BY Zenon DEF WInit, Init
<1>2. Inv
  BY <1>1, InitInv, Zenon
<1>3. {QueueCap, MaxConn} \subseteq Nat
  BY WrapConstants, Zenon
<1>4. <<>> \in Seq(Conns) /\ <<>> \in Seq(Entries) /\ Len(<<>>) = 0 /\ DOMAIN <<>> = {}
  BY EmptySequence
<1>5. Shape
  BY <1>1, <1>3, <1>4 DEF Shape
<1>6. AllCalm
  BY <1>1, UnusedFacts, Zenon DEF AllCalm
<1>7. Listed
  <2>1. \A c \in Conns : conn[c].idx \notin Slots
    BY <1>1, IngresConstants DEF Closed, NoIndex, Slots
  <2>2. \A c \in Conns : ~Open(c) /\ ~Holds(c)
    BY <1>1, UnusedFacts, Zenon DEF Open, Holds
  <2>3. Range(table) = {}
    BY <1>1, <1>4, Zenon DEF Range
  <2> QED
    BY <1>1, <1>4, <2>1, <2>2, <2>3, Zenon DEF Listed
<1>8. PollResultsCurrent
  BY <1>1, Zenon DEF PollResultsCurrent
<1>9. Enough
  <2>1. Startups(controlQ) = {}
    BY <1>1, <1>4, Zenon DEF Startups
  <2> QED
    BY <2>1, FS_EmptySet, FreeFacts DEF Enough
<1> QED
  BY <1>2, <1>5, <1>6, <1>7, <1>8, <1>9, Zenon DEF ClearingInv

-----------------------------------------------------------------------------
(* The tuples a connection holds. *)
LEMMA HeldFacts ==
  ASSUME NEW s, Sound(s), NEW h, h = Held(s), NEW data, data = {i \in DOMAIN h : h[i].kind = "data"}
  PROVE  /\ {h[i].n : i \in data} = (s.sent + 1) .. s.made
         /\ \A i, j \in data : i < j => h[i].n < h[j].n
<1>1. PICK buf \in Seq(Tuples), head \in Nat, t \in Tuples, sent \in Nat, made \in Nat :
        /\ buf = s.buf /\ head = s.head /\ t = s.tuple /\ sent = s.sent /\ made = s.made
        /\ head <= Len(buf) /\ InOrder(buf, head, t, sent, made)
  BY DEF Sound, Stock
<1>2. PICK m \in Nat : m = Len(buf) - head
  BY <1>1
<1>3. PICK b : b = SubSeq(buf, head + 1, Len(buf))
  BY Zenon
<1>4. b \in Seq(Tuples) /\ Len(b) = m /\ \A i \in 1 .. m : b[i] = buf[head + i]
  <2>1. PICK l \in Nat : l = Len(buf)
    OBVIOUS
  <2>2. head \in 0 .. l /\ b = SubSeq(buf, head + 1, l)
    BY <1>1, <1>3, <2>1
  <2> QED
    BY <1>2, <2>1, <2>2, Batch
<1>5. h = Append(b, t)
  BY <1>1, <1>3, Zenon DEF Held
<1>6. /\ h \in Seq(Tuples) /\ DOMAIN h = 1 .. (m + 1) /\ h[m + 1] = t
      /\ \A i \in 1 .. m : h[i] = buf[head + i]
  <2>1. /\ h \in Seq(Tuples) /\ Len(h) = m + 1 /\ h[m + 1] = t
        /\ \A i \in 1 .. m : h[i] = b[i]
    BY <1>4, <1>5, Appending
  <2>2. DOMAIN h = 1 .. (m + 1)
    BY <2>1
  <2> QED
    BY <1>4, <2>1, <2>2, Zenon
<1>7. \A i \in 1 .. m : head + i \in (head + 1) .. Len(buf)
  BY <1>1, <1>2
<1>8. \A i \in data : i \in 1 .. (m + 1) /\ h[i].kind = "data"
  BY <1>6, Zenon
<1>9. ASSUME NEW i \in data PROVE h[i].n \in (sent + 1) .. made
  <2>1. CASE i \in 1 .. m
    <3>1. head + i \in (head + 1) .. Len(buf) /\ buf[head + i] = h[i] /\ h[i].kind = "data"
      BY <1>6, <1>7, <1>8, <2>1, Zenon
    <3> QED
      BY <1>1, <3>1, Zenon DEF InOrder
  <2>2. CASE i = m + 1
    BY <1>1, <1>6, <1>8, <2>2, Zenon DEF InOrder
  <2> QED
    BY <1>8, <2>1, <2>2
<1>10. ASSUME NEW k \in (sent + 1) .. made PROVE \E i \in data : h[i].n = k
  <2>1. k \in Nat
    OBVIOUS
  <2>2. t = Data(k) \/ \E i \in (head + 1) .. Len(buf) : buf[i] = Data(k)
    BY <1>1, Zenon DEF InOrder
  <2>3. PICK i \in 1 .. (m + 1) : h[i] = Data(k)
    <3>1. CASE t = Data(k)
      BY <1>6, <3>1
    <3>2. CASE \E i \in (head + 1) .. Len(buf) : buf[i] = Data(k)
      <4>1. PICK i \in (head + 1) .. Len(buf) : buf[i] = Data(k)
        BY <3>2, Zenon
      <4>2. i - head \in 1 .. m /\ head + (i - head) = i
        <5>1. head \in Nat /\ Len(buf) \in Nat
          BY <1>1
        <5> QED
          BY <1>2, <5>1
      <4>3. h[i - head] = buf[i]
        BY <1>6, <4>2, Zenon
      <4> QED
        BY <4>1, <4>2, <4>3
    <3> QED
      BY <2>2, <3>1, <3>2, Zenon
  <2>4. h[i].kind = "data" /\ h[i].n = k
    BY <2>1, <2>3, TupleFacts, Zenon
  <2>5. i \in data
    BY <1>6, <2>4, Zenon
  <2> QED
    BY <2>4, <2>5, Zenon
<1>11. ASSUME NEW i \in data, NEW j \in data, i < j PROVE h[i].n < h[j].n
  <2>1. i \in 1 .. m /\ (j \in 1 .. m \/ j = m + 1)
    <3>1. i \in 1 .. (m + 1) /\ j \in 1 .. (m + 1) /\ m \in Nat
      BY <1>8, Zenon
    <3> QED
      BY <1>11, <3>1
  <2>2. PICK k \in (head + 1) .. Len(buf) : k = head + i /\ buf[k] = h[i]
    BY <1>6, <1>7, <2>1, Zenon
  <2>3. CASE j \in 1 .. m
    <3>1. head + j \in (head + 1) .. Len(buf) /\ buf[head + j] = h[j]
      BY <1>6, <1>7, <2>3, Zenon
    <3>2. k + 1 <= head + j
      BY <1>11, <2>1, <2>2, <2>3
    <3>3. PICK l \in (k + 1) .. Len(buf) : buf[l] = h[j]
      BY <3>1, <3>2
    <3>4. h[i].kind = "data" /\ h[j].kind = "data"
      BY <1>8, Zenon
    <3>5. \A r \in (k + 1) .. Len(buf) : buf[r].kind = "data" => buf[k].n < buf[r].n
      BY <1>1, <2>2, <3>4 DEF InOrder
    <3> QED
      BY <2>2, <3>3, <3>4, <3>5, Zenon
  <2>4. CASE j = m + 1
    <3>1. h[i].kind = "data" /\ t.kind = "data" /\ h[j] = t
      BY <1>6, <1>8, <2>4, Zenon
    <3> QED
      BY <1>1, <2>2, <3>1 DEF InOrder
  <2> QED
    BY <2>1, <2>3, <2>4, Zenon
<1> QED
  BY <1>1, <1>9, <1>10, <1>11

(* The order of the tuples of each connection, as the run states it. *)
LEMMA InvTuples == ClearingInv => NoTupleLost
<1> SUFFICES ASSUME ClearingInv, NEW c \in Conns
             PROVE  LET h == Held(st[c])
                        data == {i \in DOMAIN h : h[i].kind = "data"}
                    IN /\ {h[i].n : i \in data} = (st[c].sent + 1) .. st[c].made
                       /\ \A i, j \in data : i < j => h[i].n < h[j].n
  BY Zenon DEF NoTupleLost
<1>1. Sound(st[c])
  BY Zenon DEF ClearingInv, AllCalm, Calm
<1> QED
  BY <1>1, HeldFacts, Zenon

(* The table of connections, as the run states it. *)
LEMMA InvTable == ClearingInv => TableIsOpenConns
<1> SUFFICES ASSUME ClearingInv PROVE TableIsOpenConns
  BY Zenon
<1>1. Shape /\ Listed /\ AllCalm /\ TypeOK
  BY Zenon DEF ClearingInv, Inv
<1>2. table \in UNION {[1 .. n -> Conns] : n \in 0 .. MaxConn}
  <2>1. PICK n : n = Len(table)
    BY Zenon
  <2>2. table \in [1 .. n -> Conns]
    BY <1>1, <2>1 DEF Shape
  <2>3. n \in 0 .. MaxConn
    <3>1. MaxConn \in Nat
      BY WrapConstants, Zenon
    <3> QED
      BY <1>1, <2>1, <3>1 DEF Shape
  <2> QED
    BY <2>2, <2>3, Zenon
<1>3. ASSUME NEW c \in Conns
      PROVE  /\ st[c].mode \in {"INIT", "RESCAN", "NEXT", "DONE"}
             /\ st[c].probes \in 0 .. ProbeCap
             /\ st[c].head <= Len(st[c].buf) /\ Len(st[c].buf) <= ArraySize
             /\ st[c].life = "open" /\ st[c].asleep => st[c].timer
  <2>1. PICK s : s = st[c]
    BY Zenon
  <2>2. Calm(s)
    BY <1>1, <2>1, Zenon DEF AllCalm
  <2>3. s.mode \in Modes /\ s.probes \in 0 .. ProbeCap /\ (s.asleep => s.timer)
    BY <2>2, Zenon DEF Calm, Sound, Manner
  <2>4. s.head <= Len(s.buf) /\ Len(s.buf) <= ArraySize
    BY <2>2 DEF Calm, Sound, Stock
  <2> QED
    BY <2>1, <2>3, <2>4, Zenon DEF Modes
<1>4. WTypeOK
  BY <1>1, <1>2, <1>3, Zenon DEF WTypeOK, Shape
<1> QED
  BY <1>1, <1>4, Zenon DEF TableIsOpenConns, Listed

-----------------------------------------------------------------------------
(* The clearinghouse never loses, repeats or reorders a tuple of an open
   connection, for any number of connections, any size of the batch
   (processTupleArchived) and of the ingress queues, and however often a full
   queue, a timeout, a failed wrapper or a probe comes in between. *)
THEOREM TuplesKept == WSpec => []NoTupleLost
<1>1. ClearingInv /\ [WNext]_wvars => ClearingInv'
  BY GoodStep, Zenon DEF Good
<1> QED
  BY <1>1, InitClearing, InvTuples, PTL DEF WSpec

(* deleteConn sends or archives what the connection still holds; what it may
   lose is a tuple that waits for room in the ingress queue, and that only when
   the socket failed or the process shuts down, never when the wrapper is done. *)
THEOREM CloseLosesNothing == WSpec => NothingLostAtClose
<1>1. ClearingInv /\ [WNext]_wvars => ClearingInv'
  BY GoodStep, Zenon DEF Good
<1>2. ClearingInv /\ [WNext]_wvars =>
        [\A c \in Conns :
           Open(c) /\ st'[c].life = "gone" =>
             \/ st'[c].lost = 0
             \/ pc.at \notin {"run", "wake"} /\ ~Archived(st[c]) /\ st[c].tuple.kind = "data"]_wvars
  BY GoodStep, Zenon DEF Good, ClosesWell
<1> QED
  BY <1>1, <1>2, InitClearing, PTL DEF WSpec, NothingLostAtClose

(* AIORead uses an index into the table (pc.run, from poll(2)) only while the
   table is the one that was polled: deleteConnByIndex, addConnToList and the
   commands, which change it, are never followed by a further call of the round. *)
THEOREM PollStaysCurrent == WSpec => []PollResultsCurrent
<1>1. ClearingInv /\ [WNext]_wvars => ClearingInv'
  BY GoodStep, Zenon DEF Good
<1>2. ClearingInv => PollResultsCurrent
  BY Zenon DEF ClearingInv
<1> QED
  BY <1>1, <1>2, InitClearing, PTL DEF WSpec

(* The table lists every open connection once, with no gap after
   removeConnFromListByIndex has moved the last one into the hole, and the
   places taken in the table of ingress queues are those of the connections to
   streams that are not archived: deleteConn gives back every one of them. *)
THEOREM TableListsOpen == WSpec => []TableIsOpenConns
<1>1. ClearingInv /\ [WNext]_wvars => ClearingInv'
  BY GoodStep, Zenon DEF Good
<1> QED
  BY <1>1, InitClearing, InvTable, PTL DEF WSpec

(* A pull wrapper's next is called only with a probe to answer, whatever order
   probes, failures and ends of answers come in (csv_next, web_rescan). *)
THEOREM NextAnswersProbe == WSpec => []NextHasProbe
<1>1. ClearingInv /\ [WNext]_wvars => ClearingInv'
  BY GoodStep, Zenon DEF Good
<1>2. ClearingInv => NextHasProbe
  BY Zenon DEF ClearingInv, AllCalm, Calm, Sound, Manner, NextHasProbe
<1> QED
  BY <1>1, <1>2, InitClearing, PTL DEF WSpec

(* Every step of the clearinghouse and of the backend is a step of IngresQ or
   leaves the table of ingress queues as it is.  The connection that
   processWCHControlQ or AIORead creates is always one that is unused. *)
LEMMA ClearinghouseSteps == WSpec => Spec
<1>1. ClearingInv /\ [WNext]_wvars => ClearingInv' /\ [Next]_vars
  BY GoodStep, Zenon DEF Good
<1>2. WInit => Init
  BY Zenon DEF WInit
<1> QED
  BY <1>1, <1>2, InitClearing, PTL DEF WSpec, Spec

(* What is proved of the table of ingress queues therefore holds of the
   clearinghouse: allocIngresQ and freeIngresQ, called from its commands, its
   accepts and its deletions, keep the reference counts right. *)
THEOREM ClearinghouseCounts == WSpec => []CountsHolders
  BY ClearinghouseSteps, CountIsHolders, PTL

=============================================================================
