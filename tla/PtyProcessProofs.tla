--------------------------- MODULE PtyProcessProofs ---------------------------
(***************************************************************************)
(* Proofs about PtyProcess, for every capacity and every number of reads.  *)
(*                                                                         *)
(* The safety properties speak of Stream, the concatenation of what the    *)
(* consumer was handed and what is queued.  Polling leaves Stream as it is *)
(* (StreamPop); a frame the reader pushes either is appended to it or is   *)
(* added to a summary that is its last element (PushCases, StreamAppend,   *)
(* StreamReplaceLast).  That the summary is last is what makes the         *)
(* coalescing sound, and it is the strengthening (SummaryInv) the proof    *)
(* adds: while the reader reads, nothing is ever pushed behind a summary.  *)
(***************************************************************************)
EXTENDS PtyProcess, PtyFrameQueueProofs

SentFrame == [kind : FrameKinds, bytes : Nat, end : Nat]

\* The flag of the queue tells whether a summary is queued, there is at most
\* one, and while the reader is in its read loop the summary is the last frame.
SummaryInv ==
    /\ queue.overflow_summary_queued <=> Summaries(queue.frames) # {}
    /\ \A i, j \in Summaries(queue.frames) : i = j
    /\ reader = "reading" =>
         \A i \in Summaries(queue.frames) : i = Len(queue.frames)

\* An exit frame has been produced only by a reader thread that is done, of a
\* child that is gone.
ExitInv ==
    /\ seq = Len(sent)
    /\ reader # "done" => \A n \in 1 .. seq : sent[n].kind # "Exited"
    /\ \A n \in 1 .. seq :
         sent[n].kind = "Exited" => n = seq /\ child = "exited" /\ child_exited
    /\ reader \in {"reaped", "flagged"} => child = "exited"
    /\ reader = "flagged" => child_exited

IInv == TypeOK /\ SummaryInv /\ ExitInv /\ Contiguous /\ StreamTruthful

-----------------------------------------------------------------------------
(* The stream. *)

At(s, r, w) ==
    /\ \A i \in 1 .. Len(s) : i <= Len(r) => s[i] = r[i]
    /\ \A i \in 1 .. Len(s) : ~(i <= Len(r)) => s[i] = w[i - Len(r)]

\* The elements of a concatenation, by position: first those of w, then those of r.
LEMMA ConcatAt ==
    ASSUME NEW r \in Seq(Frame), NEW w \in Seq(Frame)
    PROVE  /\ r \o w \in Seq(Frame)
           /\ Len(r \o w) = Len(r) + Len(w)
           /\ At(r \o w, r, w)
BY ConcatProperties DEF At

\* A frame appended to the queue is appended to the stream.
LEMMA StreamAppend ==
    ASSUME NEW r \in Seq(Frame), NEW w \in Seq(Frame), NEW g \in Frame
    PROVE  r \o Append(w, g) = Append(r \o w, g)
<1> DEFINE v == Append(w, g)
           c == r \o w
           s == r \o v
           t == Append(c, g)
<1>0. Len(r) \in Nat /\ Len(w) \in Nat
  OBVIOUS
<1>1. /\ v \in Seq(Frame) /\ Len(v) = Len(w) + 1
      /\ \A j \in 1 .. Len(v) : v[j] = IF j = Len(v) THEN g ELSE w[j]
  OBVIOUS
<1>2. s \in Seq(Frame) /\ Len(s) = Len(r) + Len(v) /\ At(s, r, v)
  <2> HIDE DEF v
  <2>1. QED
    BY <1>1, ConcatAt
<1>3. c \in Seq(Frame) /\ Len(c) = Len(r) + Len(w) /\ At(c, r, w)
  BY ConcatAt
<1>4. /\ t \in Seq(Frame) /\ Len(t) = Len(c) + 1
      /\ \A j \in 1 .. Len(t) : t[j] = IF j = Len(t) THEN g ELSE c[j]
  <2> HIDE DEF c
  <2>1. QED
    BY SMTT(30), <1>3
<1>5. Len(s) = Len(t)
  BY <1>0, <1>1, <1>2, <1>3, <1>4
<1>6. ASSUME NEW i \in 1 .. Len(s) PROVE s[i] = t[i]
  <2> HIDE DEF s, t, v, c
  <2>1. CASE i <= Len(r)
    <3>1. i \in 1 .. Len(c) /\ i # Len(t)
      BY <1>0, <1>1, <1>2, <1>3, <1>4, <2>1
    <3>2. s[i] = r[i] /\ c[i] = r[i]
      BY <1>2, <1>3, <2>1, <3>1 DEF At
    <3>3. QED
      BY <1>4, <1>5, <3>1, <3>2
  <2>2. CASE ~(i <= Len(r)) /\ i # Len(t)
    <3>1. i \in 1 .. Len(c) /\ i - Len(r) \in 1 .. Len(v) /\ i - Len(r) # Len(v)
      BY <1>0, <1>1, <1>2, <1>3, <1>4, <2>2
    <3>2. s[i] = v[i - Len(r)] /\ c[i] = w[i - Len(r)]
      BY <1>2, <1>3, <2>2, <3>1 DEF At
    <3>3. QED
      BY <1>1, <1>4, <1>5, <2>2, <3>1, <3>2
  <2>3. CASE ~(i <= Len(r)) /\ i = Len(t)
    <3>1. i - Len(r) \in 1 .. Len(v) /\ i - Len(r) = Len(v)
      BY <1>0, <1>1, <1>2, <1>3, <1>4, <2>3
    <3>2. s[i] = v[i - Len(r)]
      BY <1>2, <2>3 DEF At
    <3>3. QED
      BY <1>1, <1>4, <1>5, <2>3, <3>1, <3>2
  <2>4. QED
    BY <2>1, <2>2, <2>3
<1>7. QED
  <2> HIDE DEF s, t
  <2>1. s = t
    BY <1>2, <1>4, <1>5, <1>6, SeqEqual
  <2>2. QED
    BY <2>1 DEF s, t, c, v

\* Replacing the last queued frame replaces the last frame of the stream, and
\* nothing else.
LEMMA StreamReplaceLast ==
    ASSUME NEW r \in Seq(Frame), NEW w \in Seq(Frame), w # << >>, NEW g \in Frame
    PROVE  r \o [w EXCEPT ![Len(w)] = g] = [r \o w EXCEPT ![Len(r \o w)] = g]
<1> DEFINE v == [w EXCEPT ![Len(w)] = g]
           c == r \o w
           s == r \o v
           t == [c EXCEPT ![Len(c)] = g]
<1>0. Len(r) \in Nat /\ Len(w) \in Nat \ {0}
  BY EmptySeq
<1>1. /\ v \in Seq(Frame) /\ Len(v) = Len(w)
      /\ \A j \in 1 .. Len(w) : v[j] = IF j = Len(w) THEN g ELSE w[j]
  BY <1>0, ExceptSeq
<1>2. s \in Seq(Frame) /\ Len(s) = Len(r) + Len(v) /\ At(s, r, v)
  <2> HIDE DEF v
  <2>1. QED
    BY <1>1, ConcatAt
<1>3. c \in Seq(Frame) /\ Len(c) = Len(r) + Len(w) /\ At(c, r, w)
  BY ConcatAt
<1>4. /\ t \in Seq(Frame) /\ Len(t) = Len(c)
      /\ \A j \in 1 .. Len(c) : t[j] = IF j = Len(c) THEN g ELSE c[j]
  <2> HIDE DEF c
  <2>1. Len(c) \in 1 .. Len(c)
    BY <1>0, <1>3
  <2>2. QED
    BY <1>3, <2>1, ExceptSeq
<1>5. ASSUME NEW i \in 1 .. Len(s) PROVE s[i] = t[i]
  <2> HIDE DEF s, t, v, c
  <2>1. CASE i <= Len(r)
    <3>1. i \in 1 .. Len(c) /\ i # Len(c)
      BY <1>0, <1>1, <1>2, <1>3, <2>1
    <3>2. s[i] = r[i] /\ c[i] = r[i]
      BY <1>2, <1>3, <2>1, <3>1 DEF At
    <3>3. QED
      BY <1>4, <3>1, <3>2
  <2>2. CASE ~(i <= Len(r))
    <3>1. i - Len(r) \in 1 .. Len(w) /\ (i = Len(c) <=> i - Len(r) = Len(w))
      BY <1>0, <1>1, <1>2, <1>3, <2>2
    <3>2. s[i] = v[i - Len(r)] /\ t[i] = IF i = Len(c) THEN g ELSE w[i - Len(r)]
      BY <1>0, <1>1, <1>2, <1>3, <1>4, <2>2 DEF At
    <3>3. QED
      BY <1>1, <3>1, <3>2
  <2>3. QED
    BY <2>1, <2>2
<1>6. QED
  <2> HIDE DEF s, t
  <2>1. s = t
    BY <1>1, <1>2, <1>3, <1>4, <1>5, SeqEqual
  <2>2. QED
    BY <2>1 DEF s, t, c

\* Handing the head frame to the consumer leaves the stream as it is.
LEMMA StreamPop ==
    ASSUME NEW r \in Seq(Frame), NEW w \in Seq(Frame), w # << >>
    PROVE  Append(r, Head(w)) \o Tail(w) = r \o w
<1> DEFINE h == Append(r, Head(w))
           u == Tail(w)
           s == h \o u
           t == r \o w
<1>0. Len(r) \in Nat /\ Len(w) \in Nat \ {0}
  BY EmptySeq
<1>1. /\ Head(w) \in Frame /\ Head(w) = w[1]
      /\ u \in Seq(Frame) /\ Len(u) = Len(w) - 1
      /\ \A i \in 1 .. Len(u) : u[i] = w[i + 1]
  BY HeadTailProperties
<1>2. /\ h \in Seq(Frame) /\ Len(h) = Len(r) + 1
      /\ \A i \in 1 .. Len(h) : h[i] = IF i <= Len(r) THEN r[i] ELSE w[1]
  BY <1>0, <1>1
<1>3. s \in Seq(Frame) /\ Len(s) = Len(h) + Len(u) /\ At(s, h, u)
  <2> HIDE DEF h, u
  <2>1. QED
    BY <1>1, <1>2, ConcatAt
<1>4. t \in Seq(Frame) /\ Len(t) = Len(r) + Len(w) /\ At(t, r, w)
  BY ConcatAt
<1>5. ASSUME NEW i \in 1 .. Len(s) PROVE s[i] = t[i]
  <2> HIDE DEF s, t, h, u
  <2>0. i \in 1 .. Len(t)
    BY <1>0, <1>1, <1>2, <1>3, <1>4
  <2>1. CASE i <= Len(r)
    <3>1. i \in 1 .. Len(h) /\ i <= Len(h) /\ i \in 1 .. Len(r)
      BY <1>0, <1>2, <1>3, <2>1
    <3>2. s[i] = h[i] /\ t[i] = r[i]
      BY <1>3, <1>4, <2>0, <2>1, <3>1 DEF At
    <3>3. QED
      BY <1>2, <2>1, <3>1, <3>2
  <2>2. CASE i = Len(r) + 1
    <3>1. s[i] = h[i] /\ h[i] = w[1]
      BY <1>0, <1>2, <1>3, <2>2 DEF At
    <3>2. t[i] = w[i - Len(r)] /\ i - Len(r) = 1
      BY SMTT(30), <1>0, <1>4, <2>0, <2>2 DEF At
    <3>3. QED
      BY <3>1, <3>2
  <2>3. CASE i > Len(r) + 1
    <3>1. /\ i - Len(h) \in 1 .. Len(u)
          /\ (i - Len(h)) + 1 = i - Len(r)
          /\ ~(i <= Len(r)) /\ ~(i <= Len(h))
      BY <1>0, <1>1, <1>2, <1>3, <2>3
    <3>2. s[i] = u[i - Len(h)] /\ t[i] = w[i - Len(r)]
      BY <1>3, <1>4, <2>0, <3>1 DEF At
    <3>3. QED
      BY <1>1, <3>1, <3>2
  <2>4. QED
    BY <1>0, <2>1, <2>2, <2>3
<1>6. QED
  <2> HIDE DEF s, t
  <2>0. Len(s) = Len(t)
    BY <1>0, <1>1, <1>2, <1>3, <1>4
  <2>1. s = t
    BY <1>3, <1>4, <1>5, <2>0, SeqEqual
  <2>2. QED
    BY <2>1 DEF s, t, h, u

\* One more frame at the end of a contiguous stream keeps it contiguous.
LEMMA ContiguousAppend ==
    ASSUME NEW s \in Seq(Frame), NEW n \in Nat, ContiguousUpTo(s, n),
           NEW g \in Frame, g.seq = n + 1, g.frames = 1
    PROVE  ContiguousUpTo(Append(s, g), n + 1)
<1> DEFINE t == Append(s, g)
<1>1. /\ t # << >> /\ Len(t) = Len(s) + 1 /\ Len(s) \in Nat
      /\ t[Len(s) + 1] = g /\ \A i \in 1 .. Len(s) : t[i] = s[i]
  OBVIOUS
<1>2. LastSeq(g) = n + 1
  BY DEF LastSeq
<1>3. t[1].seq = 1
  <2>1. CASE s = << >>
    BY <1>1, <2>1 DEF ContiguousUpTo
  <2>2. CASE s # << >>
    BY <1>1, <2>2 DEF ContiguousUpTo
  <2>3. QED
    BY <2>1, <2>2
<1>4. ASSUME NEW i \in 1 .. Len(t) - 1 PROVE t[i + 1].seq = LastSeq(t[i]) + 1
  <2> HIDE DEF t
  <2>1. CASE i = Len(s)
    BY <1>1, <2>1 DEF ContiguousUpTo
  <2>2. CASE i # Len(s)
    <3>1. i \in 1 .. Len(s) - 1 /\ i \in 1 .. Len(s) /\ i + 1 \in 1 .. Len(s)
      BY <1>1, <2>2
    <3>2. QED
      BY <1>1, <3>1 DEF ContiguousUpTo
  <2>3. QED
    BY <2>1, <2>2
<1>5. QED
  <2> HIDE DEF t
  <2>1. ContiguousUpTo(t, n + 1)
    BY <1>1, <1>2, <1>3, <1>4 DEF ContiguousUpTo
  <2>2. QED
    BY <2>1 DEF t

\* So does a last frame that stands for one frame more.
LEMMA ContiguousGrow ==
    ASSUME NEW s \in Seq(Frame), NEW n \in Nat, ContiguousUpTo(s, n), s # << >>,
           NEW g \in Frame, g.seq = s[Len(s)].seq, g.frames = s[Len(s)].frames + 1
    PROVE  ContiguousUpTo([s EXCEPT ![Len(s)] = g], n + 1)
<1> DEFINE t == [s EXCEPT ![Len(s)] = g]
<1>0. Len(s) \in Nat \ {0} /\ s[Len(s)] \in Frame
  BY EmptySeq
<1>1. /\ t \in Seq(Frame) /\ Len(t) = Len(s)
      /\ \A j \in 1 .. Len(s) : t[j] = IF j = Len(s) THEN g ELSE s[j]
  BY <1>0, ExceptSeq
<1>2. t # << >>
  BY <1>0, <1>1, EmptySeq
<1>3. LastSeq(g) = n + 1
  <2>1. LastSeq(s[Len(s)]) = n
    BY DEF ContiguousUpTo
  <2>2. s[Len(s)].seq \in Int /\ s[Len(s)].frames \in Int
    BY SMTT(30), <1>0 DEF Frame
  <2>3. QED
    BY SMTT(30), <2>1, <2>2 DEF LastSeq
<1>4. t[1].seq = 1
  BY <1>0, <1>1 DEF ContiguousUpTo
<1>5. ASSUME NEW i \in 1 .. Len(t) - 1 PROVE t[i + 1].seq = LastSeq(t[i]) + 1
  <2> HIDE DEF t
  <2>1. i \in 1 .. Len(s) - 1 /\ i \in 1 .. Len(s) /\ i # Len(s) /\ i + 1 \in 1 .. Len(s)
    BY <1>0, <1>1
  <2>2. t[i] = s[i] /\ t[i + 1].seq = s[i + 1].seq
    BY <1>1, <2>1
  <2>3. QED
    BY <2>1, <2>2 DEF ContiguousUpTo
<1>6. QED
  <2> HIDE DEF t
  <2>1. t[Len(t)] = g
    BY <1>0, <1>1
  <2>2. ContiguousUpTo(t, n + 1)
    BY <1>2, <1>3, <1>4, <1>5, <2>1 DEF ContiguousUpTo
  <2>3. QED
    BY <2>2 DEF t

-----------------------------------------------------------------------------
(* The reader pushes a frame. *)

\* A frame that was truthful stays so when one more frame has been produced.
LEMMA TruthfulStays ==
    ASSUME TypeOK, seq = Len(sent), NEW item \in SentFrame,
           sent' = Append(sent, item), seq' = seq + 1,
           NEW g \in Frame, Truthful(g)
    PROVE  Truthful(g)'
<1>1. \A n \in 1 .. seq : sent'[n] = sent[n]
  BY DEF TypeOK, SentFrame
<1>2. LastSeq(g) \in 1 .. seq /\ g.seq \in 1 .. seq /\ LastSeq(g)' = LastSeq(g)
  <2>1. g.seq \in Nat /\ g.frames \in Nat /\ seq \in Nat
    BY DEF Frame, TypeOK
  <2>2. g.seq >= 1 /\ g.frames >= 1 /\ LastSeq(g) <= seq
    BY DEF Truthful
  <2>3. LastSeq(g)' = LastSeq(g)
    BY DEF LastSeq
  <2>4. QED
    BY SMTT(30), <2>1, <2>2, <2>3 DEF LastSeq
<1>3. EndOffset(LastSeq(g))' = EndOffset(LastSeq(g))
  BY <1>1, <1>2 DEF EndOffset
<1>4. EndOffset(g.seq - 1)' = EndOffset(g.seq - 1)
  <2>1. g.seq - 1 = 0 \/ g.seq - 1 \in 1 .. seq
    BY <1>2 DEF Frame, TypeOK
  <2>2. QED
    BY <1>1, <2>1 DEF EndOffset
<1>5. \A n \in g.seq .. LastSeq(g) : n \in 1 .. seq
  BY <1>2 DEF TypeOK
<1>6. LastSeq(g) <= seq'
  BY <1>2 DEF TypeOK
<1>7. QED
  BY <1>1, <1>2, <1>3, <1>4, <1>5, <1>6 DEF Truthful

\* The whole effect of a push on the stream, the queue's flag and its summary.
LEMMA EmitStep ==
    ASSUME IInv, NEW f \in Frame, f.kind # "Overflow",
           f.seq = seq + 1, f.frames = 1,
           f.kind = "Output" => reader = "reading",
           Emit(f), UNCHANGED received
    PROVE  /\ queue' \in QueueState /\ seq' = seq + 1 /\ seq' \in Nat
           /\ sent' \in Seq(SentFrame) /\ Len(sent') = seq'
           /\ sent'[seq + 1].kind = f.kind
           /\ \A n \in 1 .. seq : sent'[n] = sent[n]
           /\ Contiguous' /\ StreamTruthful'
           /\ queue'.overflow_summary_queued <=> Summaries(queue'.frames) # {}
           /\ \A i, j \in Summaries(queue'.frames) : i = j
           /\ f.kind = "Output" =>
                \A i \in Summaries(queue'.frames) : i = Len(queue'.frames)
<1> DEFINE item == [kind |-> f.kind, bytes |-> f.bytes,
                    end |-> EndOffset(seq) + f.bytes]
           w == queue.frames
           l == Len(w)
<1>0. /\ queue \in QueueState /\ seq \in Nat /\ sent \in Seq(SentFrame)
      /\ received \in Seq(Frame) /\ seq = Len(sent) /\ TypeOK
      /\ ContiguousUpTo(Stream, seq) /\ StreamTruthful /\ SummaryInv
  BY DEF IInv, TypeOK, ExitInv, Contiguous, SentFrame
<1>1. w \in Seq(Frame) /\ l \in Nat
  BY <1>0 DEF QueueState
<1>2. EndOffset(seq) \in Nat
  <2>1. CASE seq = 0
    BY <2>1 DEF EndOffset
  <2>2. CASE seq # 0
    <3>1. sent[seq] \in SentFrame
      BY <1>0, <2>2
    <3>2. QED
      BY <2>2, <3>1 DEF EndOffset, SentFrame
  <2>3. QED
    BY <2>1, <2>2
<1>3. item \in SentFrame
  BY <1>2 DEF SentFrame, Frame
<1>4. /\ seq' = seq + 1 /\ seq' \in Nat
      /\ queue' = Push(queue, f) /\ sent' = Append(sent, item)
  BY <1>0 DEF Emit
<1>5. /\ sent' \in Seq(SentFrame) /\ Len(sent') = seq'
      /\ sent'[seq + 1].kind = f.kind
      /\ sent'[seq + 1].bytes = f.bytes
      /\ sent'[seq + 1].end = EndOffset(seq) + f.bytes
      /\ \A n \in 1 .. seq : sent'[n] = sent[n]
  <2>1. /\ sent' \in Seq(SentFrame) /\ Len(sent') = seq'
        /\ sent'[seq + 1] = item
        /\ \A n \in 1 .. seq : sent'[n] = sent[n]
    <3> HIDE DEF item
    <3>1. QED
      BY <1>0, <1>3, <1>4
  <2>2. QED
    BY <2>1
<1> HIDE DEF item
<1>6. f.kind = "Output" => \A i \in Summaries(w) : i = l
  BY <1>0 DEF SummaryInv
<1>7. queue' \in QueueState
  BY <1>0, <1>4, <1>6, PushType
<1>8. Stream \in Seq(Frame)
  BY <1>0, <1>1, ConcatAt DEF Stream
<1> PICK m : m = seq + 1
  OBVIOUS
<1>9. /\ EndOffset(m)' = EndOffset(seq) + f.bytes
      /\ EndOffset(m - 1)' = EndOffset(seq)
  <2>1. m \in Nat \ {0} /\ m - 1 = seq
    BY <1>0
  <2>2. sent'[m].end = EndOffset(seq) + f.bytes
    BY <1>5
  <2>3. EndOffset(m)' = EndOffset(seq) + f.bytes
    BY <2>1, <2>2 DEF EndOffset
  <2>4. EndOffset(m - 1)' = EndOffset(m - 1)
    <3>1. m - 1 = 0 \/ m - 1 \in 1 .. seq
      BY <1>0
    <3>2. QED
      BY <1>5, <3>1 DEF EndOffset
  <2>5. QED
    BY <2>1, <2>3, <2>4
<1>10. ASSUME NEW h \in Frame, Truthful(h) PROVE Truthful(h)'
  BY <1>0, <1>3, <1>4, <1>10, TruthfulStays
<1>20. ASSUME NEW g \in Frame, Stream' = Append(Stream, g), Truthful(g)'
       PROVE  StreamTruthful'
  <2>1. /\ Len(Stream') = Len(Stream) + 1 /\ Len(Stream) \in Nat
        /\ \A j \in 1 .. Len(Stream) : Stream'[j] = Stream[j]
        /\ Stream'[Len(Stream) + 1] = g
    BY <1>8, <1>20
  <2>2. ASSUME NEW j \in 1 .. Len(Stream'), NEW h, h = Stream'[j] PROVE Truthful(h)'
    <3>1. CASE j = Len(Stream) + 1
      BY <1>20, <2>1, <2>2, <3>1
    <3>2. CASE j # Len(Stream) + 1
      <4>1. j \in 1 .. Len(Stream) /\ h = Stream[j]
        BY <2>1, <2>2, <3>2
      <4>2. h \in Frame /\ Truthful(h)
        BY <1>0, <1>8, <4>1 DEF StreamTruthful
      <4>3. QED
        BY <1>10, <4>2
    <3>3. QED
      BY <3>1, <3>2
  <2>3. QED
    BY <2>2 DEF StreamTruthful
<1>11. CASE /\ queue'.frames = Append(w, f)
            /\ f.kind = "Output" => ~queue.overflow_summary_queued
            /\ queue'.overflow_summary_queued = queue.overflow_summary_queued
  <2>1. Stream' = Append(Stream, f)
    BY <1>0, <1>1, <1>11, StreamAppend DEF Stream
  <2>2. Contiguous'
    BY <1>0, <1>4, <1>8, <2>1, ContiguousAppend DEF Contiguous
  <2>3. Truthful(f)'
    BY <1>0, <1>4, <1>5 DEF Truthful, LastSeq, Frame
  <2>4. StreamTruthful'
    BY <1>20, <2>1, <2>3
  <2>5. Summaries(queue'.frames) = Summaries(w)
    BY <1>1, <1>11, SummariesAppend
  <2>6. QED
    BY <1>0, <1>4, <1>5, <1>7, <1>11, <2>2, <2>4, <2>5 DEF SummaryInv
<1>12. CASE /\ f.kind = "Output" /\ Summaries(w) = {}
            /\ queue'.frames = Append(w, OverflowSummary(f.seq, 1, f.bytes))
            /\ queue'.overflow_summary_queued
  <2> PICK g : g = OverflowSummary(f.seq, 1, f.bytes)
    OBVIOUS
  <2>1. /\ g \in Frame /\ g.kind = "Overflow" /\ g.seq = seq + 1
        /\ g.frames = 1 /\ g.bytes = f.bytes
    BY DEF OverflowSummary, Frame, FrameKinds
  <2>2. queue'.frames = Append(w, g)
    BY <1>12
  <2>3. Stream' = Append(Stream, g)
    BY <1>0, <1>1, <2>1, <2>2, StreamAppend DEF Stream
  <2>4. Contiguous'
    BY <1>0, <1>4, <1>8, <2>1, <2>3, ContiguousAppend DEF Contiguous
  <2>5. Truthful(g)'
    <3>1. LastSeq(g)' = seq + 1
      BY <1>0, <2>1 DEF LastSeq
    <3>2. \A n \in g.seq .. seq + 1 : n = seq + 1
      BY <1>0, <2>1
    <3>3. g.bytes = EndOffset(m)' - EndOffset(m - 1)'
      BY <1>2, <1>9, <2>1 DEF Frame
    <3>4. g.seq - 1 = m - 1
      BY <1>0, <2>1
    <3>5. EndOffset(g.seq - 1)' = EndOffset(m - 1)' /\ EndOffset(LastSeq(g))' = EndOffset(m)'
      BY <3>1, <3>4 DEF LastSeq
    <3>6. QED
      BY <1>0, <1>4, <1>5, <1>12, <2>1, <3>1, <3>2, <3>3, <3>5 DEF Truthful
  <2>6. StreamTruthful'
    BY <1>20, <2>1, <2>3, <2>5
  <2>7. Summaries(queue'.frames) = {l + 1} /\ Len(queue'.frames) = l + 1
    BY <1>1, <1>12, <2>1, <2>2, SummariesAppend
  <2>8. QED
    BY <1>4, <1>5, <1>7, <1>12, <2>4, <2>6, <2>7
<1>13. CASE /\ f.kind = "Output" /\ l \in Summaries(w)
            /\ queue'.frames =
                 [w EXCEPT ![l] = OverflowSummary(w[l].seq, w[l].frames + 1,
                                                  w[l].bytes + f.bytes)]
            /\ queue'.overflow_summary_queued = queue.overflow_summary_queued
  <2> PICK old : old = w[l]
    OBVIOUS
  <2> PICK g : g = OverflowSummary(old.seq, old.frames + 1, old.bytes + f.bytes)
    OBVIOUS
  <2> PICK k : k = Len(Stream)
    OBVIOUS
  <2>1. l \in 1 .. Len(w) /\ old \in Frame /\ old.kind = "Overflow" /\ w # << >>
    BY <1>1, <1>13 DEF Summaries
  <2>2. /\ g \in Frame /\ g.kind = "Overflow" /\ g.seq = old.seq
        /\ g.frames = old.frames + 1 /\ g.bytes = old.bytes + f.bytes
    BY <2>1 DEF OverflowSummary, Frame, FrameKinds
  <2>3. queue'.frames = [w EXCEPT ![l] = g]
    BY <1>13
  <2>4. k \in Nat \ {0} /\ k = Len(received) + l /\ Stream[k] = old /\ Stream # << >>
    <3>1. Len(Stream) = Len(received) + Len(w) /\ At(Stream, received, w)
      BY <1>0, <1>1, ConcatAt DEF Stream
    <3>2. Len(received) \in Nat
      BY <1>0
    <3>3. k \in 1 .. Len(Stream) /\ ~(k <= Len(received)) /\ k - Len(received) = l
      BY <1>1, <2>1, <3>1, <3>2
    <3>4. Stream[k] = w[k - Len(received)]
      BY <3>1, <3>3 DEF At
    <3>5. Stream # << >>
      BY <1>8, <3>3, EmptySeq
    <3>6. QED
      BY <1>1, <2>1, <3>1, <3>2, <3>3, <3>4, <3>5
  <2>5. Stream' = [Stream EXCEPT ![k] = g]
    <3>1. received \o [w EXCEPT ![Len(w)] = g] = [received \o w EXCEPT ![Len(received \o w)] = g]
      BY ZenonT(30), <1>0, <1>1, <2>1, <2>2, StreamReplaceLast
    <3>2. Stream' = received \o queue'.frames
      BY DEF Stream
    <3>3. QED
      BY <2>3, <3>1, <3>2 DEF Stream
  <2>6. Contiguous'
    BY ZenonT(30), <1>0, <1>4, <1>8, <2>2, <2>4, <2>5, ContiguousGrow DEF Contiguous
  <2>7. /\ old.seq >= 1 /\ old.frames >= 1 /\ LastSeq(old) = seq
        /\ \A n \in old.seq .. seq : sent[n].kind = "Output"
        /\ old.bytes = EndOffset(seq) - EndOffset(old.seq - 1)
        /\ old.seq \in 1 .. seq
    <3>1. Truthful(old) /\ LastSeq(old) = seq
      BY <1>0, <2>4 DEF StreamTruthful, ContiguousUpTo
    <3>2. old.seq \in 1 .. seq
      BY <1>0, <2>1, <3>1 DEF Truthful, LastSeq, Frame
    <3>3. QED
      BY <2>1, <3>1, <3>2 DEF Truthful
  <2>8. Truthful(g)'
    <3>1. LastSeq(g) = seq + 1 /\ LastSeq(g)' = seq + 1
      <4>1. /\ old.seq \in Nat /\ old.frames \in Nat
            /\ old.seq + old.frames - 1 = seq
        BY <2>1, <2>7 DEF LastSeq, Frame
      <4>2. g.seq + g.frames - 1 = seq + 1
        <5>1. seq \in Nat
          BY <1>0
        <5>2. \A a, b \in Nat : a + b - 1 = seq => a + (b + 1) - 1 = seq + 1
          BY <5>1
        <5>3. g.seq + g.frames - 1 = old.seq + (old.frames + 1) - 1
          BY <2>2
        <5>4. QED
          BY <4>1, <5>2, <5>3
      <4>3. QED
        BY <4>2 DEF LastSeq
    <3>2. \A n \in g.seq .. seq + 1 : sent'[n].kind = "Output"
      <4> SUFFICES ASSUME NEW n \in g.seq .. seq + 1 PROVE sent'[n].kind = "Output"
        OBVIOUS
      <4>1. CASE n = seq + 1
        BY <1>5, <1>13, <4>1
      <4>2. CASE n # seq + 1
        <5>1. n \in 1 .. seq /\ n \in old.seq .. seq
          BY <1>0, <2>2, <2>7, <4>2
        <5>2. QED
          BY <1>5, <2>7, <5>1
      <4>3. QED
        BY <4>1, <4>2
    <3>3. EndOffset(g.seq - 1)' = EndOffset(old.seq - 1) /\ EndOffset(old.seq - 1) \in Nat
      <4>1. old.seq - 1 = 0 \/ old.seq - 1 \in 1 .. seq
        BY <1>0, <2>7
      <4>2. CASE old.seq - 1 = 0
        BY <2>2, <4>2 DEF EndOffset
      <4>3. CASE old.seq - 1 \in 1 .. seq
        <5>1. sent[old.seq - 1] \in SentFrame /\ old.seq - 1 # 0
          BY SMTT(30), <1>0, <4>3
        <5>2. sent'[old.seq - 1] = sent[old.seq - 1]
          BY <1>5, <4>3
        <5> PICK n : n = old.seq - 1
          OBVIOUS
        <5>3. g.seq - 1 = n /\ n # 0 /\ sent'[n] = sent[n]
          BY <2>2, <5>1, <5>2
        <5>4. EndOffset(n) = sent[n].end /\ sent[n].end \in Nat
          BY <5>1, <5>3 DEF EndOffset, SentFrame
        <5>5. EndOffset(g.seq - 1)' = sent'[n].end
          BY <5>3 DEF EndOffset
        <5>6. QED
          BY <5>3, <5>4, <5>5
      <4>4. QED
        BY <4>1, <4>2, <4>3
    <3>4. g.bytes = EndOffset(m)' - EndOffset(g.seq - 1)'
      <4> PICK e, b : e = EndOffset(seq) /\ b = EndOffset(old.seq - 1)
        OBVIOUS
      <4> PICK y : y = f.bytes
        OBVIOUS
      <4>1. e \in Nat /\ b \in Nat /\ y \in Nat
        BY <1>2, <3>3 DEF Frame
      <4>2. g.bytes = (e - b) + y
        BY <2>2, <2>7
      <4>3. EndOffset(m)' = e + y /\ EndOffset(g.seq - 1)' = b
        BY <1>9, <3>3
      <4>4. (e - b) + y = (e + y) - b
        BY <4>1
      <4>5. QED
        BY <4>2, <4>3, <4>4
    <3>5. g.seq >= 1 /\ g.frames >= 1
      <4>1. old.frames \in Nat /\ old.frames >= 1
        BY <2>1, <2>7 DEF Frame
      <4>2. QED
        BY <2>2, <2>7, <4>1
    <3>6. EndOffset(LastSeq(g))' = EndOffset(m)'
      BY <3>1 DEF LastSeq
    <3>7. \A n \in g.seq .. LastSeq(g)' : sent'[n].kind = "Output"
      BY <3>1, <3>2
    <3>8. LastSeq(g)' <= seq'
      BY <1>0, <1>4, <3>1
    <3>9. g.bytes = EndOffset(LastSeq(g))' - EndOffset(g.seq - 1)'
      BY <3>4, <3>6
    <3>10. QED
      BY <2>2, <3>5, <3>7, <3>8, <3>9, Zenon DEF Truthful
  <2>9. StreamTruthful'
    <3>1. k \in 1 .. Len(Stream) /\ k = Len(Stream)
      BY <1>8, <2>4
    <3>2. /\ Len(Stream') = k
          /\ \A j \in 1 .. k : Stream'[j] = IF j = k THEN g ELSE Stream[j]
      <4> PICK t : t = Stream
        OBVIOUS
      <4> PICK u : u = Stream'
        OBVIOUS
      <4>1. t \in Seq(Frame) /\ k \in 1 .. Len(t) /\ k = Len(t) /\ g \in Frame
        BY <1>8, <2>2, <3>1
      <4>2. u = [t EXCEPT ![k] = g]
        BY <2>5
      <4>3. Len(u) = Len(t) /\ DOMAIN u = 1 .. Len(t) /\ DOMAIN t = 1 .. Len(t)
        BY <4>1, <4>2
      <4>4. \A j \in 1 .. k : u[j] = IF j = k THEN g ELSE t[j]
        BY <4>1, <4>2, <4>3
      <4>5. QED
        BY <4>1, <4>3, <4>4
    <3>3. ASSUME NEW j \in 1 .. k, NEW h, h = Stream'[j] PROVE Truthful(h)'
      <4>1. CASE j = k
        BY <2>8, <3>2, <3>3, <4>1
      <4>2. CASE j # k
        <5>1. h = Stream[j] /\ j \in 1 .. Len(Stream)
          BY <3>1, <3>2, <3>3, <4>2
        <5>2. h \in Frame /\ Truthful(h)
          BY <1>0, <1>8, <5>1 DEF StreamTruthful
        <5>3. QED
          BY <1>10, <5>2
      <4>3. QED
        BY <4>1, <4>2
    <3>4. QED
      BY <3>2, <3>3 DEF StreamTruthful
  <2>10. Summaries(queue'.frames) = Summaries(w) /\ Len(queue'.frames) = l
    <3> PICK v : v = queue'.frames
      OBVIOUS
    <3>1. w \in Seq(Frame) /\ v = [w EXCEPT ![l] = g] /\ l = Len(w)
      BY <1>1, <2>3
    <3>2. /\ DOMAIN v = DOMAIN w /\ Len(v) = Len(w)
          /\ \A i \in DOMAIN w : v[i] = IF i = l THEN g ELSE w[i]
      BY <2>1, <2>2, <3>1
    <3>3. \A i \in DOMAIN w : v[i].kind = "Overflow" <=> w[i].kind = "Overflow"
      BY <2>1, <2>2, <3>2
    <3>4. Summaries(v) = Summaries(w)
      BY <3>2, <3>3 DEF Summaries
    <3>5. QED
      BY <3>1, <3>2, <3>4
  <2>11. QED
    BY <1>0, <1>4, <1>5, <1>6, <1>7, <1>13, <2>6, <2>9, <2>10 DEF SummaryInv
<1>14. QED
  <2>1. \/ /\ queue'.frames = Append(w, f)
           /\ f.kind = "Output" => ~queue.overflow_summary_queued
           /\ queue'.overflow_summary_queued = queue.overflow_summary_queued
        \/ /\ f.kind = "Output" /\ Summaries(w) = {}
           /\ queue'.frames = Append(w, OverflowSummary(f.seq, 1, f.bytes))
           /\ queue'.overflow_summary_queued
        \/ /\ f.kind = "Output" /\ l \in Summaries(w)
           /\ queue'.frames =
                [w EXCEPT ![l] = OverflowSummary(w[l].seq, w[l].frames + 1,
                                                 w[l].bytes + f.bytes)]
           /\ queue'.overflow_summary_queued = queue.overflow_summary_queued
    BY <1>0, <1>4, <1>6, PushCases
  <2>2. QED
    BY <1>11, <1>12, <1>13, <2>1

-----------------------------------------------------------------------------
(* The invariant. *)

\* The consumer takes the head frame: the stream stays what it is.
LEMMA RecvStep ==
    ASSUME IInv, TryRecv
    PROVE  /\ queue' \in QueueState /\ received' \in Seq(Frame)
           /\ Stream' = Stream /\ SummaryInv'
<1> DEFINE w == queue.frames
<1>0. /\ queue \in QueueState /\ w \in Seq(Frame) /\ received \in Seq(Frame)
      /\ SummaryInv /\ w # << >>
  BY DEF IInv, TypeOK, QueueState, TryRecv
<1>1. /\ queue' = Popped(queue) /\ received' = Append(received, Head(w))
      /\ reader' = reader
  BY DEF TryRecv, threadVars
<1>2. /\ queue' \in QueueState /\ queue'.frames = Tail(w)
      /\ queue'.overflow_summary_queued =
           (queue.overflow_summary_queued /\ Head(w).kind # "Overflow")
  BY <1>0, <1>1, PoppedType
<1>3. Head(w) \in Frame /\ Head(w) = w[1] /\ Len(Tail(w)) = Len(w) - 1
      /\ Len(w) \in Nat \ {0} /\ DOMAIN w = 1 .. Len(w)
  BY <1>0, HeadTailProperties, EmptySeq, LenProperties
<1>4. received' \in Seq(Frame)
  BY <1>0, <1>1, <1>3
<1>5. Stream' = Stream
  BY <1>0, <1>1, <1>2, StreamPop DEF Stream
<1>6. \A i : i \in Summaries(queue'.frames) <=>
               i \in Nat \ {0} /\ i + 1 \in Summaries(w)
  BY <1>0, <1>2, SummariesTail
<1>7. Summaries(w) \subseteq 1 .. Len(w)
      /\ (1 \in Summaries(w) <=> Head(w).kind = "Overflow")
  BY <1>3 DEF Summaries
<1>8. \A i, j \in Summaries(w) : i = j
  BY <1>0 DEF SummaryInv
<1>9. \A i, j \in Summaries(queue'.frames) : i = j
  BY <1>6, <1>8
<1>10. reader' = "reading" =>
         \A i \in Summaries(queue'.frames) : i = Len(queue'.frames)
  BY <1>0, <1>1, <1>2, <1>3, <1>6 DEF SummaryInv
<1>11. queue'.overflow_summary_queued <=> Summaries(queue'.frames) # {}
  <2>1. CASE Summaries(w) = {}
    BY <1>0, <1>2, <1>6, <2>1 DEF SummaryInv
  <2>2. CASE 1 \in Summaries(w)
    <3>1. Summaries(queue'.frames) = {}
      BY <1>6, <1>8, <2>2
    <3>2. QED
      BY <1>2, <1>7, <2>2, <3>1
  <2>3. CASE Summaries(w) # {} /\ 1 \notin Summaries(w)
    <3>1. PICK i \in Summaries(w) : i \in 2 .. Len(w)
      BY <1>3, <1>7, <2>3
    <3>2. i - 1 \in Summaries(queue'.frames)
      BY <1>3, <1>6, <3>1
    <3>3. queue'.overflow_summary_queued
      BY <1>0, <1>2, <1>7, <2>3 DEF SummaryInv
    <3>4. QED
      BY <3>2, <3>3
  <2>4. QED
    BY <2>1, <2>2, <2>3
<1>12. QED
  BY <1>2, <1>4, <1>5, <1>9, <1>10, <1>11 DEF SummaryInv

\* A step that leaves queue and histories alone, and does not restart reading.
LEMMA QuietStep ==
    ASSUME IInv, UNCHANGED <<queue, seq, sent, received>>,
           reader' = "reading" => reader = "reading"
    PROVE  SummaryInv' /\ Contiguous' /\ StreamTruthful'
<1>1. SummaryInv'
  BY DEF IInv, SummaryInv
<1>2. Stream' = Stream
  BY DEF Stream
<1>3. Contiguous'
  BY <1>2 DEF IInv, Contiguous, ContiguousUpTo, LastSeq
<1>4. StreamTruthful'
  BY <1>2 DEF IInv, StreamTruthful, Truthful, EndOffset, LastSeq
<1>5. QED
  BY <1>1, <1>3, <1>4

\* A freshly spawned PTY satisfies the inductive invariant.
LEMMA InitIInv == Init => IInv
<1> SUFFICES ASSUME Init PROVE IInv
  OBVIOUS
<1>1. queue \in QueueState /\ queue.frames = << >> /\ received = << >>
  BY EmptyQueueType DEF Init, EmptyQueue
<1>2. Stream = << >> /\ Len(Stream) = 0
  BY <1>1 DEF Stream
<1>3. Summaries(queue.frames) = {}
  BY <1>1 DEF Summaries
<1>4. TypeOK
  <2>1. sent \in Seq([kind : FrameKinds, bytes : Nat, end : Nat]) /\ received \in Seq(Frame)
    BY EmptySeq DEF Init
  <2>2. QED
    BY <1>1, <2>1 DEF Init, TypeOK
<1>5. SummaryInv
  BY <1>3 DEF Init, SummaryInv, EmptyQueue
<1>6. ExitInv
  BY DEF Init, ExitInv
<1>7. Contiguous
  BY <1>2 DEF Init, Contiguous, ContiguousUpTo
<1>8. StreamTruthful
  BY <1>2 DEF StreamTruthful
<1>9. QED
  BY <1>4, <1>5, <1>6, <1>7, <1>8 DEF IInv

\* Every step of reader thread, manager and environment keeps it.
LEMMA NextIInv == IInv /\ [Next]_vars => IInv'
<1> SUFFICES ASSUME IInv, [Next]_vars PROVE IInv'
  OBVIOUS
<1> USE DEF threadVars, envVars
<1>0. TypeOK /\ SummaryInv /\ ExitInv /\ Contiguous /\ StreamTruthful
  BY DEF IInv
<1>1. CASE ReadOutput
  <2>1. PICK bytes \in ChunkSizes : Emit(OutputFrame(seq + 1, bytes))
    BY <1>1 DEF ReadOutput
  <2>2. PICK f : f = OutputFrame(seq + 1, bytes)
    OBVIOUS
  <2>3. /\ f \in Frame /\ f.kind = "Output" /\ f.seq = seq + 1 /\ f.frames = 1
    BY <1>0, <2>2, BoundsAssumption DEF OutputFrame, Frame, FrameKinds, TypeOK
  <2>4. Emit(f) /\ reader = "reading" /\ UNCHANGED <<received, threadVars, envVars>>
    BY <1>1, <2>1, <2>2 DEF ReadOutput
  <2>5. /\ queue' \in QueueState /\ seq' = seq + 1 /\ seq' \in Nat
        /\ sent' \in Seq(SentFrame) /\ Len(sent') = seq'
        /\ sent'[seq + 1].kind = "Output"
        /\ \A n \in 1 .. seq : sent'[n] = sent[n]
        /\ Contiguous' /\ StreamTruthful'
        /\ queue'.overflow_summary_queued <=> Summaries(queue'.frames) # {}
        /\ \A i, j \in Summaries(queue'.frames) : i = j
        /\ \A i \in Summaries(queue'.frames) : i = Len(queue'.frames)
    BY <2>3, <2>4, EmitStep
  <2>6. TypeOK'
    BY <1>0, <2>4, <2>5 DEF TypeOK, SentFrame
  <2>7. SummaryInv'
    BY <2>5 DEF SummaryInv
  <2>8. ExitInv'
    <3>1. \A n \in 1 .. seq' : sent'[n].kind # "Exited"
      BY <1>0, <2>4, <2>5 DEF ExitInv, TypeOK
    <3>2. QED
      BY <1>0, <2>4, <2>5, <3>1 DEF ExitInv
  <2>9. QED
    BY <2>5, <2>6, <2>7, <2>8 DEF IInv
<1>2. CASE ReadEof
  BY <1>0, <1>2, QuietStep DEF ReadEof, IInv, TypeOK, ExitInv
<1>3. CASE ReadErrorChildGone
  BY <1>0, <1>3, QuietStep DEF ReadErrorChildGone, IInv, TypeOK, ExitInv
<1>4. ASSUME NEW kind \in {"Error", "Exited"}, Emit(ControlFrame(kind, seq + 1)),
             reader' \in {"waiting", "done"},
             kind = "Error" => reader \in {"reading", "waiting"},
             kind = "Exited" => reader = "flagged" /\ reader' = "done",
             UNCHANGED <<received, child_exited, manager, joined, kill_failures, envVars>>
      PROVE  IInv'
  <2>1. PICK f : f = ControlFrame(kind, seq + 1)
    OBVIOUS
  <2>2. /\ f \in Frame /\ f.kind = kind /\ f.seq = seq + 1 /\ f.frames = 1
    BY <1>0, <2>1 DEF ControlFrame, Frame, FrameKinds, TypeOK
  <2>3. Emit(f)
    BY <1>4, <2>1
  <2>4. /\ queue' \in QueueState /\ seq' = seq + 1 /\ seq' \in Nat
        /\ sent' \in Seq(SentFrame) /\ Len(sent') = seq'
        /\ sent'[seq + 1].kind = kind
        /\ \A n \in 1 .. seq : sent'[n] = sent[n]
        /\ Contiguous' /\ StreamTruthful'
        /\ queue'.overflow_summary_queued <=> Summaries(queue'.frames) # {}
        /\ \A i, j \in Summaries(queue'.frames) : i = j
    BY <1>4, <2>2, <2>3, EmitStep
  <2>5. TypeOK'
    BY <1>0, <1>4, <2>4 DEF TypeOK, SentFrame
  <2>6. SummaryInv'
    BY <1>4, <2>4 DEF SummaryInv
  <2>7. ExitInv'
    <3>0. \A n \in 1 .. seq : sent'[n].kind # "Exited"
      BY <1>0, <1>4, <2>4 DEF ExitInv
    <3>1. \A n \in 1 .. seq' : n \in 1 .. seq \/ n = seq + 1
      BY <1>0, <2>4 DEF TypeOK
    <3>2. CASE kind = "Error"
      BY <1>0, <1>4, <2>4, <3>0, <3>1, <3>2 DEF ExitInv
    <3>3. CASE kind = "Exited"
      BY <1>0, <1>4, <2>4, <3>0, <3>1, <3>3 DEF ExitInv
    <3>4. QED
      BY <3>2, <3>3
  <2>8. QED
    BY <2>4, <2>5, <2>6, <2>7 DEF IInv
<1>5. CASE ReadErrorReported
  BY <1>4, <1>5 DEF ReadErrorReported
<1>6. CASE WaitReaps
  BY <1>0, <1>6, QuietStep DEF WaitReaps, IInv, TypeOK, ExitInv
<1>7. CASE WaitFails
  BY <1>4, <1>7 DEF WaitFails
<1>8. CASE StoreExited
  BY <1>0, <1>8, QuietStep DEF StoreExited, IInv, TypeOK, ExitInv
<1>9. CASE PushExited
  BY <1>4, <1>9 DEF PushExited
<1>10. CASE TryRecv
  <2>1. /\ queue' \in QueueState /\ received' \in Seq(Frame)
        /\ Stream' = Stream /\ SummaryInv'
    BY <1>10, RecvStep
  <2>2. UNCHANGED <<seq, sent, threadVars, envVars>>
    BY <1>10 DEF TryRecv
  <2>3. TypeOK' /\ ExitInv'
    BY <1>0, <2>1, <2>2 DEF TypeOK, ExitInv
  <2>4. Contiguous'
    BY <1>0, <2>1, <2>2 DEF Contiguous, ContiguousUpTo, LastSeq
  <2>5. StreamTruthful'
    BY <1>0, <2>1, <2>2 DEF StreamTruthful, Truthful, EndOffset, LastSeq
  <2>6. QED
    BY <2>1, <2>3, <2>4, <2>5 DEF IInv
<1>11. CASE BeginKill
  BY <1>0, <1>11, QuietStep DEF BeginKill, BeginTermination, IInv, TypeOK, ExitInv
<1>12. CASE BeginDrop
  BY <1>0, <1>12, QuietStep DEF BeginDrop, BeginTermination, IInv, TypeOK, ExitInv
<1>13. CASE DropJoined
  BY <1>0, <1>13, QuietStep DEF DropJoined, IInv, TypeOK, ExitInv
<1>14. CASE Terminated
  BY <1>0, <1>14, QuietStep DEF Terminated, IInv, TypeOK, ExitInv
<1>15. CASE TerminationFails
  BY <1>0, <1>15, QuietStep DEF TerminationFails, IInv, TypeOK, ExitInv
<1>16. CASE Join
  BY <1>0, <1>16, QuietStep DEF Join, IInv, TypeOK, ExitInv
<1>17. CASE ChildExits
  BY <1>0, <1>17, QuietStep DEF ChildExits, IInv, TypeOK, ExitInv
<1>18. CASE SlaveCloses
  BY <1>0, <1>18, QuietStep DEF SlaveCloses, IInv, TypeOK, ExitInv
<1>19. CASE UNCHANGED vars
  BY <1>0, <1>19, QuietStep DEF vars, IInv, TypeOK, ExitInv
<1>20. QED
  BY <1>1, <1>2, <1>3, <1>5, <1>6, <1>7, <1>8, <1>9, <1>10, <1>11, <1>12, <1>13,
     <1>14, <1>15, <1>16, <1>17, <1>18, <1>19
  DEF Next, Reader, Manager, Environment

\* The inductive invariant holds throughout: no mix of pushes, polls, kills and
\* exits breaks it.
THEOREM SafeIInv == Safe => []IInv
BY InitIInv, NextIInv, PTL DEF Safe

\* Truthful frames lie in the range of what was produced.
LEMMA TruthfulRange ==
    ASSUME seq \in Nat, NEW g \in Frame, Truthful(g)
    PROVE  g.seq \in 1 .. seq /\ LastSeq(g) \in 1 .. seq /\ g.seq <= LastSeq(g)
BY DEF Truthful, LastSeq, Frame

-----------------------------------------------------------------------------
(* The counters. *)

CountOf(kinds) == [f \in Frame |-> IF f.kind \in kinds THEN 1 ELSE 0]
FramesLost == [f \in Frame |-> IF f.kind = "Overflow" THEN f.frames ELSE 0]
BytesLost == [f \in Frame |-> IF f.kind = "Overflow" THEN f.bytes ELSE 0]
Ends == {"Error", "Exited"}
InQueue(kinds) == Total(Weigh(CountOf(kinds), queue.frames))
EndsPushed(where) == IF where = "reading" THEN 0 ELSE IF where = "done" THEN 2 ELSE 1

\* The counters are the sums they stand for, and the reader's place bounds how
\* many error and exit frames are queued.
CountInv ==
    /\ queue.dropped_frames = Total(Weigh(FramesLost, Stream))
    /\ queue.dropped_bytes = Total(Weigh(BytesLost, Stream))
    /\ queue.queued_output_frames = InQueue({"Output"})
    /\ queue.queued_output_frames <= OutputCapacity
    /\ InQueue({"Overflow"}) = IF queue.overflow_summary_queued THEN 1 ELSE 0
    /\ InQueue(Ends) <= EndsPushed(reader)
    /\ Len(queue.frames) = InQueue({"Output"}) + InQueue({"Overflow"}) + InQueue(Ends)

\* The weights weigh frames.
LEMMA WeightTypes ==
    /\ \A kinds : CountOf(kinds) \in [Frame -> Nat]
    /\ FramesLost \in [Frame -> Nat] /\ BytesLost \in [Frame -> Nat]
BY DEF CountOf, FramesLost, BytesLost, Frame

\* A count is a number.
LEMMA CountNat ==
    ASSUME NEW w \in Seq(Frame), NEW kinds
    PROVE  Total(Weigh(CountOf(kinds), w)) \in Nat
BY WeightTypes, WeighType

\* A frame more is counted if it is of the kinds counted.
LEMMA CountAppend ==
    ASSUME NEW w \in Seq(Frame), NEW kinds, NEW g \in Frame
    PROVE  Total(Weigh(CountOf(kinds), Append(w, g))) =
             Total(Weigh(CountOf(kinds), w)) + (IF g.kind \in kinds THEN 1 ELSE 0)
<1> DEFINE c == CountOf(kinds)
<1>1. c \in [Frame -> Nat] /\ c[g] = IF g.kind \in kinds THEN 1 ELSE 0
  BY WeightTypes DEF CountOf
<1> HIDE DEF c
<1>2. Total(Weigh(c, Append(w, g))) = Total(Weigh(c, w)) + c[g]
  BY <1>1, WeighAppend
<1>3. QED
  BY <1>1, <1>2 DEF c

\* The last frame exchanged for one of its kind changes no count.
LEMMA CountLast ==
    ASSUME NEW w \in Seq(Frame), NEW kinds, NEW g \in Frame, w # << >>,
           w[Len(w)].kind = g.kind
    PROVE  Total(Weigh(CountOf(kinds), [w EXCEPT ![Len(w)] = g])) =
             Total(Weigh(CountOf(kinds), w))
<1> DEFINE c == CountOf(kinds)
           t == [w EXCEPT ![Len(w)] = g]
           last == w[Len(w)]
<1>1. c \in [Frame -> Nat] /\ \A f \in Frame : c[f] = IF f.kind \in kinds THEN 1 ELSE 0
  BY WeightTypes DEF CountOf
<1> HIDE DEF c
<1>2. /\ Total(Weigh(c, t)) + c[last] = Total(Weigh(c, w)) + c[g]
      /\ last \in Frame /\ t \in Seq(Frame)
  BY <1>1, WeighLast
<1>3. last.kind = g.kind
  OBVIOUS
<1> HIDE DEF t, last
<1>4. /\ c[last] = c[g] /\ c[g] \in Nat /\ Total(Weigh(c, t)) \in Nat
      /\ Total(Weigh(c, w)) \in Nat
  BY <1>1, <1>2, <1>3, WeighType
<1>5. Total(Weigh(c, t)) = Total(Weigh(c, w))
  BY SMTT(30), <1>2, <1>4
<1>6. QED
  BY <1>5 DEF c, t

\* The head is counted if it is of the kinds counted.
LEMMA CountTail ==
    ASSUME NEW w \in Seq(Frame), NEW kinds, w # << >>
    PROVE  Total(Weigh(CountOf(kinds), w)) =
             Total(Weigh(CountOf(kinds), Tail(w))) + (IF Head(w).kind \in kinds THEN 1 ELSE 0)
<1> DEFINE c == CountOf(kinds)
<1>1. c \in [Frame -> Nat] /\ \A f \in Frame : c[f] = IF f.kind \in kinds THEN 1 ELSE 0
  BY WeightTypes DEF CountOf
<1> HIDE DEF c
<1>2. /\ Total(Weigh(c, w)) = c[Head(w)] + Total(Weigh(c, Tail(w)))
      /\ Head(w) \in Frame /\ Tail(w) \in Seq(Frame)
  BY <1>1, WeighTail
<1>3. Total(Weigh(c, Tail(w))) \in Nat
  BY <1>1, <1>2, WeighType
<1>4. c[Head(w)] = IF Head(w).kind \in kinds THEN 1 ELSE 0
  BY <1>1, <1>2
<1>5. Total(Weigh(c, w)) =
        Total(Weigh(c, Tail(w))) + (IF Head(w).kind \in kinds THEN 1 ELSE 0)
  BY <1>2, <1>3, <1>4
<1>6. QED
  BY <1>5 DEF c

\* The invariant says what QueueCountersExact says.
LEMMA CountsAreExact == IInv /\ CountInv => QueueCountersExact
<1> SUFFICES ASSUME IInv, CountInv PROVE QueueCountersExact
  OBVIOUS
<1>1. /\ queue.frames \in Seq(Frame) /\ received \in Seq(Frame)
      /\ queue.overflow_summary_queued \in BOOLEAN
  BY DEF IInv, TypeOK, QueueState
<1>2. Stream \in Seq(Frame)
  BY <1>1, ConcatAt DEF Stream
<1>3. ASSUME NEW s \in Seq(Frame), NEW i \in DOMAIN s PROVE s[i] \in Frame
  OBVIOUS
<1>4. LostFrames = Weigh(FramesLost, Stream)
  BY <1>2, <1>3 DEF LostFrames, FramesLost, Weigh
<1>5. LostBytes = Weigh(BytesLost, Stream)
  BY <1>2, <1>3 DEF LostBytes, BytesLost, Weigh
<1>6. ASSUME NEW kind
      PROVE  OfKind(queue.frames, kind) = Weigh(CountOf({kind}), queue.frames)
  BY <1>1, <1>3 DEF OfKind, CountOf, Weigh
<1>7. InQueue(Ends) <= 2 /\ InQueue({"Overflow"}) <= 1
  <2>1. InQueue(Ends) \in Nat
    BY <1>1, CountNat DEF InQueue
  <2>2. EndsPushed(reader) \in 0 .. 2
    BY DEF EndsPushed
  <2>3. QED
    BY <2>1, <2>2 DEF CountInv
<1>8. OutputCapacity \in Nat /\ InQueue({"Output"}) \in Nat /\ InQueue({"Overflow"}) \in Nat
      /\ InQueue(Ends) \in Nat
  BY <1>1, CountNat, CapacityAssumption DEF InQueue, OutputCapacity, DefaultCapacity
<1>9. Len(queue.frames) <= OutputCapacity + 3
  BY <1>7, <1>8 DEF CountInv
<1>10. QED
  BY <1>4, <1>5, <1>6, <1>7, <1>9 DEF CountInv, QueueCountersExact, InQueue

\* The reader pushes a frame, and goes on to where it may be counted.
LEMMA EmitCounts ==
    ASSUME IInv, CountInv, NEW f \in Frame, f.kind # "Overflow", f.frames = 1,
           queue' = Push(queue, f), received' = received,
           f.kind = "Output" => reader = "reading" /\ reader' = "reading",
           f.kind # "Output" => \/ reader = "reading" /\ reader' = "waiting"
                                \/ reader # "done" /\ reader' = "done"
    PROVE  CountInv'
<1> DEFINE w == queue.frames
           s == Stream
           l == Len(w)
<1>1. /\ queue \in QueueState /\ w \in Seq(Frame) /\ received \in Seq(Frame)
      /\ queue.dropped_frames \in Nat /\ queue.dropped_bytes \in Nat
      /\ queue.queued_output_frames \in Nat /\ queue.overflow_summary_queued \in BOOLEAN
      /\ OutputCapacity \in Nat
      /\ f.kind \in {"Output", "Error", "Exited"}
      /\ f.seq \in Nat /\ f.bytes \in Nat
  BY CapacityAssumption
     DEF IInv, TypeOK, QueueState, Frame, FrameKinds, OutputCapacity, DefaultCapacity
<1>2. s \in Seq(Frame)
  BY <1>1, ConcatAt DEF Stream
<1>3. /\ queue.overflow_summary_queued <=> Summaries(w) # {}
      /\ f.kind = "Output" => \A i \in Summaries(w) : i = l
  BY DEF IInv, SummaryInv
<1>4. /\ FramesLost \in [Frame -> Nat] /\ BytesLost \in [Frame -> Nat]
      /\ \A g \in Frame : /\ FramesLost[g] = IF g.kind = "Overflow" THEN g.frames ELSE 0
                          /\ BytesLost[g] = IF g.kind = "Overflow" THEN g.bytes ELSE 0
  BY WeightTypes DEF FramesLost, BytesLost
<1>5. InQueue(Ends) <= EndsPushed(reader) /\ InQueue(Ends) \in Nat
      /\ InQueue({"Output"}) \in Nat /\ InQueue({"Overflow"}) \in Nat
  BY <1>1, CountNat DEF CountInv, InQueue
\* A frame is appended to queue and stream.
<1>6. ASSUME NEW g \in Frame, queue'.frames = Append(w, g)
      PROVE  /\ Stream' = Append(s, g)
             /\ Total(Weigh(FramesLost, Stream))' = Total(Weigh(FramesLost, s)) + FramesLost[g]
             /\ Total(Weigh(BytesLost, Stream))' = Total(Weigh(BytesLost, s)) + BytesLost[g]
             /\ Len(queue'.frames) = Len(w) + 1
             /\ \A kinds : InQueue(kinds)' =
                             InQueue(kinds) + (IF g.kind \in kinds THEN 1 ELSE 0)
  <2>1. Stream' = Append(s, g)
    BY <1>1, <1>6, StreamAppend DEF Stream
  <2>2. ASSUME NEW kinds
        PROVE  InQueue(kinds)' = InQueue(kinds) + (IF g.kind \in kinds THEN 1 ELSE 0)
    <3>1. Total(Weigh(CountOf(kinds), Append(w, g))) =
            Total(Weigh(CountOf(kinds), w)) + (IF g.kind \in kinds THEN 1 ELSE 0)
      BY <1>1, <1>6, CountAppend
    <3>2. QED
      BY <1>6, <3>1 DEF InQueue, CountOf
  <2>3. Len(queue'.frames) = Len(w) + 1
    BY <1>1, <1>6
  <2> HIDE DEF s
  <2>4. Total(Weigh(FramesLost, Append(s, g))) = Total(Weigh(FramesLost, s)) + FramesLost[g]
    BY SMTT(30), <1>2, <1>4, WeighAppend
  <2>5. Total(Weigh(BytesLost, Append(s, g))) = Total(Weigh(BytesLost, s)) + BytesLost[g]
    BY ZenonT(30), <1>2, <1>4, WeighAppend
  <2>6. QED
    BY <2>1, <2>2, <2>3, <2>4, <2>5 DEF FramesLost, BytesLost
<1>7. CASE /\ queue'.frames = Append(w, f)
           /\ queue'.overflow_summary_queued = queue.overflow_summary_queued
           /\ queue'.dropped_frames = queue.dropped_frames
           /\ queue'.dropped_bytes = queue.dropped_bytes
           /\ f.kind # "Output" =>
                 queue'.queued_output_frames = queue.queued_output_frames
           /\ f.kind = "Output" =>
                 /\ queue'.queued_output_frames = queue.queued_output_frames + 1
                 /\ queue.queued_output_frames < OutputCapacity
  <2>1. FramesLost[f] = 0 /\ BytesLost[f] = 0
    BY <1>4
  <2>2. /\ Total(Weigh(FramesLost, s)) \in Nat /\ Total(Weigh(BytesLost, s)) \in Nat
    BY <1>2, <1>4, WeighType
  <2>3. /\ queue'.dropped_frames = Total(Weigh(FramesLost, Stream))'
        /\ queue'.dropped_bytes = Total(Weigh(BytesLost, Stream))'
    BY <1>6, <1>7, <2>1, <2>2 DEF CountInv
  <2>4. CASE f.kind = "Output"
    <3>1. /\ InQueue({"Output"})' = InQueue({"Output"}) + 1
          /\ InQueue({"Overflow"})' = InQueue({"Overflow"})
          /\ InQueue(Ends)' = InQueue(Ends)
          /\ Len(queue'.frames) = Len(w) + 1
      BY <1>5, <1>6, <1>7, <2>4 DEF Ends
    <3>2. /\ queue'.queued_output_frames = queue.queued_output_frames + 1
          /\ queue'.queued_output_frames <= OutputCapacity
      BY <1>1, <1>7, <2>4
    <3>3. EndsPushed(reader)' = EndsPushed(reader)
      BY <2>4
    <3>4. Len(queue'.frames) =
            InQueue({"Output"})' + InQueue({"Overflow"})' + InQueue(Ends)'
      BY <1>1, <1>5, <3>1 DEF CountInv
    <3>5. QED
      BY <1>7, <2>3, <3>1, <3>2, <3>3, <3>4 DEF CountInv
  <2>5. CASE f.kind # "Output"
    <3>1. /\ InQueue({"Output"})' = InQueue({"Output"})
          /\ InQueue({"Overflow"})' = InQueue({"Overflow"})
          /\ InQueue(Ends)' = InQueue(Ends) + 1
          /\ Len(queue'.frames) = Len(w) + 1
      BY <1>1, <1>5, <1>6, <1>7, <2>5 DEF Ends
    <3>2. EndsPushed(reader)' >= EndsPushed(reader) + 1 /\ EndsPushed(reader) \in Nat
          /\ EndsPushed(reader)' \in Nat
      BY <2>5 DEF EndsPushed
    <3>3. InQueue(Ends)' <= EndsPushed(reader)'
      BY <1>5, <3>1, <3>2
    <3>4. Len(queue'.frames) =
            InQueue({"Output"})' + InQueue({"Overflow"})' + InQueue(Ends)'
      BY <1>1, <1>5, <3>1 DEF CountInv
    <3>5. /\ queue'.queued_output_frames = InQueue({"Output"})'
          /\ queue'.queued_output_frames <= OutputCapacity
          /\ InQueue({"Overflow"})' = IF queue'.overflow_summary_queued THEN 1 ELSE 0
      BY <1>7, <2>5, <3>1 DEF CountInv
    <3>6. QED
      BY <2>3, <3>3, <3>4, <3>5 DEF CountInv
  <2>6. QED
    BY <2>4, <2>5
<1>8. CASE /\ f.kind = "Output" /\ Summaries(w) = {}
           /\ queue'.dropped_frames = queue.dropped_frames + 1
           /\ queue'.dropped_bytes = queue.dropped_bytes + f.bytes
           /\ queue'.queued_output_frames = queue.queued_output_frames
           /\ queue'.overflow_summary_queued
           /\ queue'.frames = Append(w, OverflowSummary(f.seq, 1, f.bytes))
  <2> DEFINE g == OverflowSummary(f.seq, 1, f.bytes)
  <2>1. g \in Frame /\ g.kind = "Overflow" /\ g.frames = 1 /\ g.bytes = f.bytes
    BY <1>1 DEF OverflowSummary, Frame, FrameKinds
  <2> HIDE DEF g
  <2>2. queue'.frames = Append(w, g)
    BY <1>8 DEF g
  <2>3. /\ Total(Weigh(FramesLost, Stream))' = Total(Weigh(FramesLost, s)) + 1
        /\ Total(Weigh(BytesLost, Stream))' = Total(Weigh(BytesLost, s)) + f.bytes
    BY <1>4, <1>6, <2>1, <2>2
  <2>4. /\ InQueue({"Output"})' = InQueue({"Output"})
        /\ InQueue({"Overflow"})' = InQueue({"Overflow"}) + 1
        /\ InQueue(Ends)' = InQueue(Ends)
        /\ Len(queue'.frames) = Len(w) + 1
    <3>1. g.kind \notin {"Output"} /\ g.kind \in {"Overflow"} /\ g.kind \notin Ends
      BY <2>1 DEF Ends
    <3>2. QED
      BY <1>5, <1>6, <2>1, <2>2, <3>1
  <2>5. ~queue.overflow_summary_queued /\ EndsPushed(reader)' = EndsPushed(reader)
    BY <1>3, <1>8
  <2>6. QED
    BY <1>1, <1>5, <1>8, <2>3, <2>4, <2>5 DEF CountInv
<1>9. CASE /\ f.kind = "Output" /\ l \in Summaries(w)
           /\ queue'.dropped_frames = queue.dropped_frames + 1
           /\ queue'.dropped_bytes = queue.dropped_bytes + f.bytes
           /\ queue'.queued_output_frames = queue.queued_output_frames
           /\ queue'.overflow_summary_queued = queue.overflow_summary_queued
           /\ queue'.frames =
                [w EXCEPT ![l] = OverflowSummary(w[l].seq, w[l].frames + 1,
                                                 w[l].bytes + f.bytes)]
  <2> DEFINE g == OverflowSummary(w[l].seq, w[l].frames + 1, w[l].bytes + f.bytes)
  <2>1. l \in DOMAIN w /\ w[l] \in Frame /\ w[l].kind = "Overflow" /\ w # << >>
    BY <1>1, <1>9 DEF Summaries
  <2>2. /\ g \in Frame /\ g.kind = "Overflow" /\ g.frames = w[l].frames + 1
        /\ g.bytes = w[l].bytes + f.bytes /\ w[l].frames \in Nat /\ w[l].bytes \in Nat
    <3>1. /\ w[l].seq \in Nat /\ w[l].frames \in Nat /\ w[l].bytes \in Nat
      BY <2>1 DEF Frame
    <3>2. w[l].frames + 1 \in Nat /\ w[l].bytes + f.bytes \in Nat
      <4>1. \A a, b \in Nat : a + 1 \in Nat /\ a + b \in Nat
        OBVIOUS
      <4>2. f.bytes \in Nat
        BY <1>1
      <4>3. QED
        BY <3>1, <4>1, <4>2, Zenon
    <3>3. /\ g.kind = "Overflow" /\ g.seq = w[l].seq
          /\ g.frames = w[l].frames + 1 /\ g.bytes = w[l].bytes + f.bytes
      BY DEF OverflowSummary
    <3>4. g \in Frame
      BY <3>1, <3>2 DEF OverflowSummary, Frame, FrameKinds
    <3>5. QED
      BY <3>1, <3>3, <3>4
  <2> HIDE DEF g
  <2>3. queue'.frames = [w EXCEPT ![l] = g]
    BY <1>9 DEF g
  <2>4. Stream' = [s EXCEPT ![Len(s)] = g] /\ s # << >> /\ s[Len(s)] = w[l]
    <3>1. received \o [w EXCEPT ![l] = g] = [received \o w EXCEPT ![Len(received \o w)] = g]
      BY <1>1, <2>1, <2>2, StreamReplaceLast
    <3>2. Len(s) = Len(received) + l /\ At(s, received, w)
      BY <1>1, ConcatAt DEF Stream
    <3>3. l \in Nat /\ l >= 1 /\ Len(received) \in Nat
      BY <1>1, <2>1
    <3>4. s[Len(s)] = w[l]
      BY <3>2, <3>3 DEF At
    <3>5. s # << >>
      BY <1>2, <3>2, <3>3
    <3>6. QED
      BY <2>3, <3>1, <3>4, <3>5 DEF Stream
  <2>5. /\ InQueue({"Output"})' = InQueue({"Output"})
        /\ InQueue({"Overflow"})' = InQueue({"Overflow"})
        /\ InQueue(Ends)' = InQueue(Ends)
        /\ Len(queue'.frames) = Len(w)
    <3>1. ASSUME NEW kinds PROVE InQueue(kinds)' = InQueue(kinds)
      <4>1. Total(Weigh(CountOf(kinds), [w EXCEPT ![l] = g])) = Total(Weigh(CountOf(kinds), w))
        BY <1>1, <2>1, <2>2, CountLast
      <4>2. QED
        BY <2>3, <4>1 DEF InQueue, CountOf
    <3>2. QED
      BY <1>1, <2>1, <2>2, <2>3, <3>1, ExceptSeq DEF Ends
  <2>6. /\ Total(Weigh(FramesLost, Stream))' = Total(Weigh(FramesLost, s)) + 1
        /\ Total(Weigh(BytesLost, Stream))' = Total(Weigh(BytesLost, s)) + f.bytes
    <3> DEFINE t == [s EXCEPT ![Len(s)] = g]
    <3>1. s \in Seq(Frame) /\ s # << >> /\ s[Len(s)] = w[l] /\ Stream' = t
      BY <1>2, <2>4
    <3> HIDE DEF s
    <3>2. /\ Total(Weigh(FramesLost, t)) + FramesLost[w[l]]
               = Total(Weigh(FramesLost, s)) + FramesLost[g]
          /\ Total(Weigh(BytesLost, t)) + BytesLost[w[l]]
               = Total(Weigh(BytesLost, s)) + BytesLost[g]
          /\ t \in Seq(Frame)
      <4>1. ASSUME NEW weight \in [Frame -> Nat]
            PROVE  /\ Total(Weigh(weight, t)) + weight[s[Len(s)]]
                        = Total(Weigh(weight, s)) + weight[g]
                   /\ t \in Seq(Frame)
        <5>1. g \in Frame /\ s \in Seq(Frame) /\ s # << >>
          BY <2>2, <3>1
        <5>2. QED
          BY <5>1, WeighLast
      <4>2. QED
        BY <1>4, <3>1, <4>1, Zenon
    <3> HIDE DEF t
    <3>3. /\ Total(Weigh(FramesLost, t)) \in Nat /\ Total(Weigh(FramesLost, s)) \in Nat
          /\ Total(Weigh(BytesLost, t)) \in Nat /\ Total(Weigh(BytesLost, s)) \in Nat
      BY <1>4, <3>1, <3>2, WeighType
    <3>4. /\ FramesLost[w[l]] = w[l].frames /\ FramesLost[g] = w[l].frames + 1
          /\ BytesLost[w[l]] = w[l].bytes /\ BytesLost[g] = w[l].bytes + f.bytes
      BY <1>4, <2>1, <2>2
    <3>5. /\ Total(Weigh(FramesLost, t)) = Total(Weigh(FramesLost, s)) + 1
          /\ Total(Weigh(BytesLost, t)) = Total(Weigh(BytesLost, s)) + f.bytes
      <4>1. w[l].frames \in Nat /\ w[l].bytes \in Nat /\ f.bytes \in Nat /\ 1 \in Nat
        BY <1>1, <2>2
      <4>2. Total(Weigh(FramesLost, t)) = Total(Weigh(FramesLost, s)) + 1
        <5>1. Total(Weigh(FramesLost, t)) + w[l].frames
                = Total(Weigh(FramesLost, s)) + (w[l].frames + 1)
          BY <3>2, <3>4, Zenon
        <5>2. PICK a \in Nat, b \in Nat, c \in Nat, d \in Nat :
                /\ a = Total(Weigh(FramesLost, t)) /\ b = Total(Weigh(FramesLost, s))
                /\ c = w[l].frames /\ d = 1
          BY <3>3, <4>1, Zenon
        <5>3. a + c = b + (c + d)
          BY <5>1, <5>2, Zenon
        <5>4. a = b + d
          BY <5>3
        <5>5. QED
          BY <5>2, <5>4, Zenon
      <4>3. Total(Weigh(BytesLost, t)) = Total(Weigh(BytesLost, s)) + f.bytes
        <5>1. Total(Weigh(BytesLost, t)) + w[l].bytes
                = Total(Weigh(BytesLost, s)) + (w[l].bytes + f.bytes)
          BY <3>2, <3>4, Zenon
        <5>2. PICK a \in Nat, b \in Nat, c \in Nat, d \in Nat :
                /\ a = Total(Weigh(BytesLost, t)) /\ b = Total(Weigh(BytesLost, s))
                /\ c = w[l].bytes /\ d = f.bytes
          BY <3>3, <4>1, Zenon
        <5>3. a + c = b + (c + d)
          BY <5>1, <5>2, Zenon
        <5>4. a = b + d
          BY <5>3
        <5>5. QED
          BY <5>2, <5>4, Zenon
      <4>4. QED
        BY <4>2, <4>3
    <3>6. QED
      BY <3>1, <3>5 DEF FramesLost, BytesLost
  <2>7. EndsPushed(reader)' = EndsPushed(reader)
    BY <1>9
  <2>8. QED
    BY <1>1, <1>9, <2>5, <2>6, <2>7 DEF CountInv
<1>10. QED
  <2>1. \/ /\ queue'.frames = Append(w, f)
           /\ queue'.overflow_summary_queued = queue.overflow_summary_queued
           /\ queue'.dropped_frames = queue.dropped_frames
           /\ queue'.dropped_bytes = queue.dropped_bytes
           /\ f.kind # "Output" =>
                 queue'.queued_output_frames = queue.queued_output_frames
           /\ f.kind = "Output" =>
                 /\ queue'.queued_output_frames = queue.queued_output_frames + 1
                 /\ queue.queued_output_frames < OutputCapacity
        \/ /\ f.kind = "Output"
           /\ queue'.dropped_frames = queue.dropped_frames + 1
           /\ queue'.dropped_bytes = queue.dropped_bytes + f.bytes
           /\ queue'.queued_output_frames = queue.queued_output_frames
           /\ \/ /\ Summaries(w) = {}
                 /\ queue'.overflow_summary_queued
                 /\ queue'.frames = Append(w, OverflowSummary(f.seq, 1, f.bytes))
              \/ /\ l \in Summaries(w)
                 /\ queue'.overflow_summary_queued = queue.overflow_summary_queued
                 /\ queue'.frames =
                      [w EXCEPT ![l] = OverflowSummary(w[l].seq, w[l].frames + 1,
                                                       w[l].bytes + f.bytes)]
    <3> DEFINE q == queue
    <3>1. q \in QueueState /\ f.kind # "Overflow"
          /\ (f.kind = "Output" => \A i \in Summaries(q.frames) : i = Len(q.frames))
      BY <1>1, <1>3
    <3>2. queue' = Push(q, f)
      OBVIOUS
    <3> HIDE DEF q
    <3>3. PICK r : r = Push(q, f)
      OBVIOUS
    <3>4. \/ /\ r.frames = Append(q.frames, f)
             /\ r.overflow_summary_queued = q.overflow_summary_queued
             /\ r.dropped_frames = q.dropped_frames
             /\ r.dropped_bytes = q.dropped_bytes
             /\ f.kind # "Output" => r.queued_output_frames = q.queued_output_frames
             /\ f.kind = "Output" =>
                   /\ r.queued_output_frames = q.queued_output_frames + 1
                   /\ q.queued_output_frames < OutputCapacity
          \/ /\ f.kind = "Output"
             /\ r.dropped_frames = q.dropped_frames + 1
             /\ r.dropped_bytes = q.dropped_bytes + f.bytes
             /\ r.queued_output_frames = q.queued_output_frames
             /\ \/ /\ Summaries(q.frames) = {}
                   /\ r.overflow_summary_queued
                   /\ r.frames = Append(q.frames, OverflowSummary(f.seq, 1, f.bytes))
                \/ /\ Len(q.frames) \in Summaries(q.frames)
                   /\ r.overflow_summary_queued = q.overflow_summary_queued
                   /\ r.frames =
                        [q.frames EXCEPT ![Len(q.frames)] =
                           OverflowSummary(q.frames[Len(q.frames)].seq,
                                           q.frames[Len(q.frames)].frames + 1,
                                           q.frames[Len(q.frames)].bytes + f.bytes)]
      BY <3>1, <3>3, PushCounts, Zenon
    <3>5. QED
      BY <3>2, <3>3, <3>4, Zenon DEF q
  <2>2. QED
    BY <1>7, <1>8, <1>9, <2>1

\* The consumer takes a frame: it leaves the queue's counts, not the stream.
LEMMA RecvCounts ==
    ASSUME IInv, CountInv, TryRecv
    PROVE  CountInv'
<1> DEFINE w == queue.frames
<1>1. /\ queue \in QueueState /\ w \in Seq(Frame) /\ w # << >>
      /\ queue.queued_output_frames \in Nat /\ queue.overflow_summary_queued \in BOOLEAN
      /\ OutputCapacity \in Nat
      /\ queue' = Popped(queue) /\ reader' = reader
  BY CapacityAssumption
     DEF IInv, TypeOK, QueueState, TryRecv, threadVars, OutputCapacity, DefaultCapacity
<1>2. /\ queue'.frames = Tail(w)
      /\ queue'.overflow_summary_queued =
           (queue.overflow_summary_queued /\ Head(w).kind # "Overflow")
      /\ queue'.overflow_summary_queued \in BOOLEAN
  BY <1>1, PoppedType DEF QueueState
<1>3. /\ queue'.dropped_frames = queue.dropped_frames
      /\ queue'.dropped_bytes = queue.dropped_bytes
      /\ queue'.queued_output_frames =
           IF Head(w).kind = "Output" /\ queue.queued_output_frames > 0
           THEN queue.queued_output_frames - 1 ELSE queue.queued_output_frames
  BY <1>1, PoppedCounts
<1>4. Stream' = Stream
  BY RecvStep
<1>5. /\ queue'.dropped_frames = Total(Weigh(FramesLost, Stream))'
      /\ queue'.dropped_bytes = Total(Weigh(BytesLost, Stream))'
  BY <1>3, <1>4 DEF CountInv, FramesLost, BytesLost
<1>6. /\ Head(w) \in Frame /\ Tail(w) \in Seq(Frame) /\ Len(Tail(w)) = Len(w) - 1
      /\ Len(w) \in Nat /\ Len(w) >= 1
  BY <1>1, HeadTailProperties, EmptySeq, LenProperties
<1>7. ASSUME NEW kinds
      PROVE  /\ InQueue(kinds) = InQueue(kinds)' + (IF Head(w).kind \in kinds THEN 1 ELSE 0)
             /\ InQueue(kinds) \in Nat /\ InQueue(kinds)' \in Nat
  <2>1. /\ Total(Weigh(CountOf(kinds), w)) =
             Total(Weigh(CountOf(kinds), Tail(w))) + (IF Head(w).kind \in kinds THEN 1 ELSE 0)
        /\ Total(Weigh(CountOf(kinds), w)) \in Nat
    BY <1>1, CountTail, CountNat
  <2>2. Total(Weigh(CountOf(kinds), Tail(w))) \in Nat
    BY <1>6, CountNat
  <2>3. QED
    BY <1>2, <2>1, <2>2 DEF InQueue, CountOf
<1> DEFINE out == InQueue({"Output"})
           ovf == InQueue({"Overflow"})
           end == InQueue(Ends)
           out2 == InQueue({"Output"})'
           ovf2 == InQueue({"Overflow"})'
           end2 == InQueue(Ends)'
<1>8. /\ out \in Nat /\ ovf \in Nat /\ end \in Nat
      /\ out2 \in Nat /\ ovf2 \in Nat /\ end2 \in Nat
  BY <1>7
<1>9. Head(w).kind \in {"Output", "Overflow", "Error", "Exited"}
  BY <1>6 DEF Frame, FrameKinds
<1>10. \/ Head(w).kind = "Output" /\ out = out2 + 1 /\ ovf = ovf2 /\ end = end2
       \/ Head(w).kind = "Overflow" /\ out = out2 /\ ovf = ovf2 + 1 /\ end = end2
       \/ Head(w).kind \in Ends /\ out = out2 /\ ovf = ovf2 /\ end = end2 + 1
  <2>1. /\ out = out2 + (IF Head(w).kind \in {"Output"} THEN 1 ELSE 0)
        /\ ovf = ovf2 + (IF Head(w).kind \in {"Overflow"} THEN 1 ELSE 0)
        /\ end = end2 + (IF Head(w).kind \in Ends THEN 1 ELSE 0)
    BY <1>7
  <2> HIDE DEF out, ovf, end, out2, ovf2, end2
  <2>2. QED
    BY <1>8, <1>9, <2>1 DEF Ends
<1>11. /\ queue.queued_output_frames = out /\ queue.queued_output_frames <= OutputCapacity
       /\ ovf = IF queue.overflow_summary_queued THEN 1 ELSE 0
       /\ end <= EndsPushed(reader) /\ Len(w) = out + ovf + end
       /\ EndsPushed(reader) \in Nat
  BY DEF CountInv, EndsPushed
<1> HIDE DEF out, ovf, end, out2, ovf2, end2
<1>12. /\ queue'.queued_output_frames = out2
       /\ out2 <= OutputCapacity
       /\ end2 <= EndsPushed(reader)
       /\ Len(Tail(w)) = out2 + ovf2 + end2
  <2> DEFINE was == queue.queued_output_frames
             is == queue'.queued_output_frames
             n == Len(w)
             n2 == Len(Tail(w))
             cap == OutputCapacity
             bound == EndsPushed(reader)
  <2>1. is = IF Head(w).kind = "Output" /\ was > 0 THEN was - 1 ELSE was
    BY <1>3
  <2>2. /\ was = out /\ was <= cap /\ end <= bound /\ n = out + ovf + end
        /\ n2 = n - 1 /\ n \in Nat /\ cap \in Nat /\ bound \in Nat
    BY <1>1, <1>6, <1>11
  <2> HIDE DEF was, is, n, n2, cap, bound
  <2>3. SUFFICES is = out2 /\ out2 <= cap /\ end2 <= bound /\ n2 = out2 + ovf2 + end2
    BY DEF is, n2, cap, bound
  <2>4. CASE Head(w).kind = "Output"
    <3>1. out = out2 + 1 /\ ovf = ovf2 /\ end = end2 /\ is = was - 1
      BY <1>8, <1>10, <2>1, <2>2, <2>4 DEF Ends
    <3>2. QED
      BY <1>8, <2>2, <3>1
  <2>5. CASE Head(w).kind = "Overflow"
    <3>1. out = out2 /\ ovf = ovf2 + 1 /\ end = end2 /\ is = was
      BY <1>10, <2>1, <2>5 DEF Ends
    <3>2. QED
      BY <1>8, <2>2, <3>1
  <2>6. CASE Head(w).kind \in Ends
    <3>1. out = out2 /\ ovf = ovf2 /\ end = end2 + 1 /\ is = was
      BY <1>10, <2>1, <2>6 DEF Ends
    <3>2. QED
      BY <1>8, <2>2, <3>1
  <2>7. QED
    BY <1>10, <2>4, <2>5, <2>6
<1>13. ovf2 = IF queue'.overflow_summary_queued THEN 1 ELSE 0
  <2>1. CASE Head(w).kind = "Overflow"
    <3>1. ovf = ovf2 + 1 /\ ~queue'.overflow_summary_queued
      BY <1>2, <1>10, <2>1 DEF Ends
    <3>2. QED
      BY <1>8, <1>11, <3>1
  <2>2. CASE Head(w).kind # "Overflow"
    <3>1. ovf = ovf2 /\ (queue'.overflow_summary_queued <=> queue.overflow_summary_queued)
      BY <1>1, <1>2, <1>10, <2>2
    <3>2. QED
      BY <1>11, <3>1
  <2>3. QED
    BY <2>1, <2>2
<1>14. QED
  BY <1>1, <1>2, <1>5, <1>12, <1>13 DEF CountInv, out2, ovf2, end2

\* Every step keeps the counters exact.
LEMMA NextCounts == IInv /\ CountInv /\ [Next]_vars => CountInv'
<1> SUFFICES ASSUME IInv, CountInv, [Next]_vars PROVE CountInv'
  OBVIOUS
<1> USE DEF threadVars, envVars
<1>1. seq \in Nat /\ reader \in {"reading", "waiting", "reaped", "flagged", "done"}
  BY DEF IInv, TypeOK
<1>2. CASE ReadOutput
  <2>1. PICK bytes \in ChunkSizes : Emit(OutputFrame(seq + 1, bytes))
    BY <1>2 DEF ReadOutput
  <2>2. PICK f : f = OutputFrame(seq + 1, bytes)
    OBVIOUS
  <2>3. f \in Frame /\ f.kind = "Output" /\ f.frames = 1
    BY <1>1, <2>2, BoundsAssumption DEF OutputFrame, Frame, FrameKinds
  <2>4. /\ queue' = Push(queue, f) /\ received' = received
        /\ reader = "reading" /\ reader' = "reading"
    BY <1>2, <2>1, <2>2 DEF ReadOutput, Emit
  <2>5. QED
    BY <2>3, <2>4, EmitCounts
<1>3. ASSUME NEW kind \in Ends, Emit(ControlFrame(kind, seq + 1)), received' = received,
             \/ reader = "reading" /\ reader' = "waiting"
             \/ reader # "done" /\ reader' = "done"
      PROVE  CountInv'
  <2>1. PICK f : f = ControlFrame(kind, seq + 1)
    OBVIOUS
  <2>2. f \in Frame /\ f.kind \in {"Error", "Exited"} /\ f.frames = 1
    BY <1>1, <2>1 DEF ControlFrame, Frame, FrameKinds, Ends
  <2>3. queue' = Push(queue, f)
    BY <1>3, <2>1 DEF Emit
  <2>4. QED
    BY <1>3, <2>2, <2>3, EmitCounts
<1>4. CASE ReadErrorReported
  BY <1>3, <1>4 DEF ReadErrorReported, Ends
<1>5. CASE WaitFails
  BY <1>3, <1>5 DEF WaitFails, Ends
<1>6. CASE PushExited
  BY <1>3, <1>6 DEF PushExited, Ends
<1>7. CASE TryRecv
  BY <1>7, RecvCounts
\* All other steps leave the queue and what was received alone.
<1>8. ASSUME queue' = queue, received' = received,
             reader' = reader \/ (reader' # "reading" /\ reader # "done")
      PROVE  CountInv'
  <2>1. EndsPushed(reader) <= EndsPushed(reader)'
    BY <1>8 DEF EndsPushed
  <2>2. Stream' = Stream /\ \A kinds : InQueue(kinds)' = InQueue(kinds)
    BY <1>8 DEF Stream, InQueue, CountOf
  <2>3. InQueue(Ends) \in Nat /\ EndsPushed(reader) \in Nat /\ EndsPushed(reader)' \in Nat
    BY CountNat DEF InQueue, EndsPushed, IInv, TypeOK, QueueState
  <2>4. InQueue(Ends)' <= EndsPushed(reader)'
    BY <2>1, <2>2, <2>3 DEF CountInv
  <2>5. /\ Total(Weigh(FramesLost, Stream))' = Total(Weigh(FramesLost, Stream))
        /\ Total(Weigh(BytesLost, Stream))' = Total(Weigh(BytesLost, Stream))
    BY <2>2 DEF FramesLost, BytesLost
  <2>6. QED
    BY <1>8, <2>2, <2>4, <2>5 DEF CountInv
<1>9. CASE ReadEof \/ ReadErrorChildGone \/ WaitReaps \/ StoreExited
  BY <1>8, <1>9 DEF ReadEof, ReadErrorChildGone, WaitReaps, StoreExited
<1>10. CASE BeginKill
  BY <1>8, <1>10 DEF BeginKill, BeginTermination
<1>11. CASE BeginDrop
  BY <1>8, <1>11 DEF BeginDrop, BeginTermination
<1>12. CASE DropJoined
  BY <1>8, <1>12 DEF DropJoined
<1>13. CASE Terminated
  BY <1>8, <1>13 DEF Terminated
<1>14. CASE TerminationFails
  BY <1>8, <1>14 DEF TerminationFails
<1>15. CASE Join
  BY <1>8, <1>15 DEF Join
<1>16. CASE ChildExits
  BY <1>8, <1>16 DEF ChildExits
<1>17. CASE SlaveCloses
  BY <1>8, <1>17 DEF SlaveCloses
<1>18. CASE UNCHANGED vars
  BY <1>8, <1>18 DEF vars
<1>19. QED
  BY <1>2, <1>4, <1>5, <1>6, <1>7, <1>9, <1>10, <1>11, <1>12, <1>13, <1>14,
     <1>15, <1>16, <1>17, <1>18
     DEF Next, Reader, Manager, Environment

\* A new queue counts nothing.
LEMMA InitCounts == Init => CountInv
<1> SUFFICES ASSUME Init PROVE CountInv
  OBVIOUS
<1>1. queue.frames = << >> /\ Stream = << >> /\ Len(queue.frames) = 0
      /\ queue.overflow_summary_queued = FALSE
      /\ queue.dropped_frames = 0 /\ queue.dropped_bytes = 0
      /\ queue.queued_output_frames = 0 /\ reader = "reading"
  BY DEF Init, EmptyQueue, Stream
<1>2. \A weight : Weigh(weight, << >>) = << >>
  BY DEF Weigh
<1>3. \A weight : Total(Weigh(weight, << >>)) = 0
  BY <1>2, TotalType
<1>4. OutputCapacity \in Nat
  BY CapacityAssumption DEF OutputCapacity, DefaultCapacity
<1>5. QED
  BY <1>1, <1>3, <1>4 DEF CountInv, InQueue, EndsPushed

-----------------------------------------------------------------------------
(* The theorems. *)

\* The queue, the threads and the histories keep their types, whatever the
\* configured capacity and however much the child writes.
THEOREM TypeCorrect == Safe => []TypeOK
<1>1. IInv => TypeOK
  BY DEF IInv
<1>2. QED
  BY <1>1, SafeIInv, PTL

\* The consumer's view has no gap and no repetition: every sequence number is
\* that of a frame it gets, or is counted by the summary in its place.
THEOREM NoSilentLoss == Safe => []Contiguous
<1>1. IInv => Contiguous
  BY DEF IInv
<1>2. QED
  BY <1>1, SafeIInv, PTL

\* Frames arrive as they were read, a summary stands for output only and
\* reports its exact bytes.
THEOREM SummariesTruthful == Safe => []StreamTruthful
<1>1. IInv => StreamTruthful
  BY DEF IInv
<1>2. QED
  BY <1>1, SafeIInv, PTL

\* The exit frame is the last of the stream, and by then the child is gone and
\* flagged as gone.
THEOREM ExitClosesStream == Safe => []ExitedIsLast
<1>1. IInv => ExitedIsLast
  <2> SUFFICES ASSUME IInv, NEW i \in 1 .. Len(Stream), Stream[i].kind = "Exited"
               PROVE  i = Len(Stream) /\ reader = "done" /\ child = "exited" /\ child_exited
    BY DEF ExitedIsLast
  <2>1. /\ Stream \in Seq(Frame) /\ Len(Stream) \in Nat /\ seq \in Nat
        /\ ContiguousUpTo(Stream, seq)
    BY ConcatAt DEF IInv, TypeOK, QueueState, Stream, Contiguous
  <2>2. \A j \in 1 .. Len(Stream) : Stream[j] \in Frame /\ Truthful(Stream[j])
    BY <2>1 DEF IInv, StreamTruthful
  <2>3. /\ Stream[i].seq \in 1 .. seq /\ Stream[i].frames = 1
        /\ sent[Stream[i].seq].kind = "Exited"
    BY <2>1, <2>2, TruthfulRange DEF Truthful
  <2>4. Stream[i].seq = seq /\ child = "exited" /\ child_exited /\ reader = "done"
    BY <2>3 DEF IInv, ExitInv
  <2>5. ASSUME i # Len(Stream) PROVE FALSE
    <3>1. i \in 1 .. Len(Stream) - 1 /\ i + 1 \in 1 .. Len(Stream)
      BY <2>1, <2>5
    <3>2. Stream[i + 1].seq = seq + 1
      BY <2>1, <2>3, <2>4, <3>1 DEF ContiguousUpTo, LastSeq
    <3>3. Stream[i + 1].seq <= seq
      BY <2>1, <2>2, <3>1, TruthfulRange
    <3>4. QED
      BY <2>1, <3>2, <3>3
  <2>6. QED
    BY <2>4, <2>5
<1>2. QED
  BY <1>1, SafeIInv, PTL

\* overflow_stats() agrees with the summaries handed out and queued, the counter
\* push_output relies on is the true one, and a consumer that never polls costs
\* bounded memory; for every capacity and any amount of output.
THEOREM CountersExact == Safe => []QueueCountersExact
<1>1. Init => IInv /\ CountInv
  BY InitIInv, InitCounts
<1>2. (IInv /\ CountInv) /\ [Next]_vars => (IInv /\ CountInv)'
  BY NextIInv, NextCounts
<1>3. IInv /\ CountInv => QueueCountersExact
  BY CountsAreExact
<1>4. QED
  BY <1>1, <1>2, <1>3, PTL DEF Safe

-----------------------------------------------------------------------------
(* The queue implements the accounted stream. *)

\* Pushing a frame is producing it: nothing follows an exit frame.
LEMMA EmitProduces ==
    ASSUME IInv, NEW f \in Frame, Emit(f), UNCHANGED received, reader # "done"
    PROVE  Promise!Produce(f.kind, f.bytes)
<1>1. seq = Len(sent) /\ DOMAIN sent = 1 .. seq
  BY LenProperties DEF IInv, TypeOK, ExitInv
<1>2. \A n \in DOMAIN sent : sent[n].kind # "Exited"
  BY <1>1 DEF IInv, ExitInv
<1>3. sent' = Append(sent, [kind |-> f.kind, bytes |-> f.bytes,
                            end |-> Promise!EndOffset(Len(sent)) + f.bytes])
  BY <1>1 DEF Emit, EndOffset, Promise!EndOffset
<1>4. QED
  BY <1>2, <1>3 DEF Promise!Produce

\* What the consumer takes is the next thing the log owes: one frame as it was
\* produced, or the report of a run of lost output.
LEMMA RecvConsumes ==
    ASSUME IInv, TryRecv
    PROVE  Promise!Consume
<1> DEFINE w == queue.frames
           r == Len(received)
<1>1. /\ w \in Seq(Frame) /\ w # << >> /\ received \in Seq(Frame)
      /\ seq \in Nat /\ Len(sent) = seq /\ sent \in Seq(SentFrame)
      /\ ContiguousUpTo(Stream, seq) /\ StreamTruthful
      /\ received' = Append(received, Head(w)) /\ UNCHANGED sent
  BY DEF IInv, TypeOK, QueueState, ExitInv, Contiguous, TryRecv, SentFrame
<1>2. PICK f : f = Head(w)
  OBVIOUS
<1>3. f \in Frame /\ f = w[1] /\ Len(w) \in Nat \ {0} /\ r \in Nat
  BY <1>1, <1>2, HeadTailProperties, EmptySeq
<1>4. /\ Stream \in Seq(Frame) /\ Len(Stream) = r + Len(w) /\ Len(Stream) \in Nat
      /\ At(Stream, received, w)
  BY <1>1, ConcatAt DEF Stream
<1>5. r + 1 \in 1 .. Len(Stream) /\ Stream[r + 1] = f
  BY <1>3, <1>4 DEF At
<1>6. Truthful(f)
  BY <1>1, <1>5 DEF StreamTruthful
<1>7. /\ f.seq \in 1 .. seq /\ LastSeq(f) \in 1 .. seq /\ f.seq <= LastSeq(f)
  BY <1>1, <1>3, <1>6, TruthfulRange
<1>8. f.seq = Promise!Accounted + 1 /\ Promise!Accounted \in Nat
  <2>1. CASE received = << >>
    BY <1>1, <1>3, <1>4, <1>5, <2>1, EmptySeq DEF ContiguousUpTo, Promise!Accounted
  <2>2. CASE received # << >>
    <3>1. r \in 1 .. Len(Stream) - 1 /\ r \in 1 .. Len(Stream) /\ r <= Len(received)
      BY SMTT(30), <1>1, <1>3, <1>4, <2>2, EmptySeq
    <3>2. Stream[r] = received[r]
      BY <1>4, <3>1 DEF At
    <3>3. Promise!Accounted = LastSeq(Stream[r])
      BY <2>2, <3>2 DEF Promise!Accounted, LastSeq
    <3>4. Stream[r + 1].seq = LastSeq(Stream[r]) + 1
      BY <1>1, <3>1 DEF ContiguousUpTo
    <3>5. LastSeq(Stream[r]) \in 1 .. seq
      BY SMTT(30), <1>1, <1>4, <3>1, TruthfulRange DEF StreamTruthful
    <3>6. QED
      BY <1>5, <3>3, <3>4, <3>5
  <2>3. QED
    BY <2>1, <2>2
<1>9. CASE f.kind # "Overflow"
  <2>1. /\ f.frames = 1 /\ f.kind = sent[f.seq].kind /\ f.bytes = sent[f.seq].bytes
    BY <1>6, <1>9 DEF Truthful
  <2>2. f = [kind |-> sent[f.seq].kind, seq |-> f.seq, frames |-> 1,
             bytes |-> sent[f.seq].bytes]
    BY <1>3, <2>1 DEF Frame
  <2>3. Promise!Deliver
    BY SMTT(30), <1>1, <1>2, <1>7, <1>8, <2>2 DEF Promise!Deliver
  <2>4. QED
    BY <2>3 DEF Promise!Consume
<1>10. CASE f.kind = "Overflow"
  <2> PICK last : last = LastSeq(f)
    OBVIOUS
  <2>1. /\ \A n \in f.seq .. last : sent[n].kind = "Output"
        /\ f.bytes = EndOffset(last) - EndOffset(f.seq - 1)
        /\ last \in 1 .. Len(sent)
    BY <1>1, <1>6, <1>7, <1>10 DEF Truthful
  <2>2. f.frames = last - Promise!Accounted /\ f.seq - 1 = Promise!Accounted
    BY SMTT(30), <1>3, <1>8 DEF LastSeq, Frame
  <2>3. f.bytes = Promise!EndOffset(last) - Promise!EndOffset(Promise!Accounted)
    BY <2>1, <2>2 DEF EndOffset, Promise!EndOffset
  <2>4. f = [kind |-> "Overflow", seq |-> Promise!Accounted + 1,
             frames |-> last - Promise!Accounted,
             bytes |-> Promise!EndOffset(last) - Promise!EndOffset(Promise!Accounted)]
    BY <1>3, <1>8, <1>10, <2>2, <2>3 DEF Frame
  <2>5. Promise!ReportLoss(last)
    BY <1>1, <1>2, <1>7, <1>8, <2>1, <2>4 DEF Promise!ReportLoss
  <2>6. QED
    BY <2>1, <2>5 DEF Promise!Consume
<1>11. QED
  BY <1>9, <1>10

\* Every step of the PTY is a step of the accounted stream, or invisible to it.
LEMMA NextRefines == IInv /\ [Next]_vars => [Promise!Next]_Promise!svars
<1> SUFFICES ASSUME IInv, [Next]_vars PROVE [Promise!Next]_Promise!svars
  OBVIOUS
<1>0. seq \in Nat
  BY DEF IInv, TypeOK
<1>1. CASE ReadOutput
  <2>1. PICK bytes \in ChunkSizes : Emit(OutputFrame(seq + 1, bytes))
    BY <1>1 DEF ReadOutput
  <2>2. PICK f : f = OutputFrame(seq + 1, bytes)
    OBVIOUS
  <2>3. f \in Frame /\ f.kind = "Output" /\ f.bytes = bytes
    BY <1>0, <2>2, BoundsAssumption DEF OutputFrame, Frame, FrameKinds
  <2>4. Promise!Produce("Output", bytes)
    BY <1>1, <2>1, <2>2, <2>3, EmitProduces DEF ReadOutput
  <2>5. QED
    BY <2>4 DEF Promise!Next
<1>2. ASSUME NEW kind \in {"Error", "Exited"}, Emit(ControlFrame(kind, seq + 1)),
             UNCHANGED received, reader # "done"
      PROVE  Promise!Next
  <2>1. PICK f : f = ControlFrame(kind, seq + 1)
    OBVIOUS
  <2>2. f \in Frame /\ f.kind = kind /\ f.bytes = 0
    BY <1>0, <2>1 DEF ControlFrame, Frame, FrameKinds
  <2>3. Promise!Produce(kind, 0)
    BY <1>2, <2>1, <2>2, EmitProduces
  <2>4. QED
    BY <2>3 DEF Promise!Next
<1>3. CASE ReadErrorReported
  BY <1>2, <1>3 DEF ReadErrorReported
<1>4. CASE WaitFails
  BY <1>2, <1>4 DEF WaitFails
<1>5. CASE PushExited
  BY <1>2, <1>5 DEF PushExited
<1>6. CASE TryRecv
  BY <1>6, RecvConsumes DEF Promise!Next
<1>7. CASE UNCHANGED <<sent, received>>
  BY <1>7 DEF Promise!svars
<1>8. ASSUME \/ ReadEof \/ ReadErrorChildGone \/ WaitReaps \/ StoreExited
             \/ BeginKill \/ BeginDrop \/ DropJoined \/ Terminated
             \/ TerminationFails \/ Join \/ ChildExits \/ SlaveCloses
             \/ UNCHANGED vars
      PROVE  UNCHANGED <<sent, received>>
  BY <1>8 DEF ReadEof, ReadErrorChildGone, WaitReaps, StoreExited, BeginKill, BeginDrop,
     BeginTermination, DropJoined, Terminated, TerminationFails, Join, ChildExits,
     SlaveCloses, vars
<1>9. QED
  BY <1>1, <1>3, <1>4, <1>5, <1>6, <1>7, <1>8 DEF Next, Reader, Manager, Environment

\* The reader thread, the bounded queue and the consumer together implement
\* the accounted stream: produced frames are delivered in order, or reported
\* lost in their place, and only output is ever lost.
THEOREM QueueKeepsPromise == Safe => ImplementsAccountedStream
<1>1. Init => Promise!Init
  BY DEF Init, Promise!Init
<1>2. QED
  BY <1>1, NextRefines, SafeIInv, PTL DEF Safe, ImplementsAccountedStream, Promise!Safe
=============================================================================
