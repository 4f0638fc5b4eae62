------------------------- MODULE PtyFrameQueueProofs -------------------------
(***************************************************************************)
(* Lemmas about PtyFrameQueue, for every capacity: what push and pop do to *)
(* a queue, and what they do to sums over its frames.  PtyProcess and      *)
(* PaneManager are proved from them.                                       *)
(***************************************************************************)
EXTENDS PtyFrameQueue, SequenceTheorems, WellFoundedInduction, TLAPS

-----------------------------------------------------------------------------
(* Queue operations. *)

\* A push appends the frame, or queues a new summary, or counts the frame in
\* the summary at the end of the queue.
LEMMA PushCases ==
    ASSUME NEW q \in QueueState, NEW f \in Frame, f.kind # "Overflow",
           f.kind = "Output" =>
              \A i \in Summaries(q.frames) : i = Len(q.frames)
    PROVE  \/ /\ Push(q, f).frames = Append(q.frames, f)
              /\ f.kind = "Output" => ~q.overflow_summary_queued
              /\ Push(q, f).overflow_summary_queued = q.overflow_summary_queued
           \/ /\ f.kind = "Output" /\ Summaries(q.frames) = {}
              /\ Push(q, f).frames =
                   Append(q.frames, OverflowSummary(f.seq, 1, f.bytes))
              /\ Push(q, f).overflow_summary_queued
           \/ /\ f.kind = "Output" /\ Len(q.frames) \in Summaries(q.frames)
              /\ Push(q, f).frames =
                   [q.frames EXCEPT ![Len(q.frames)] =
                      OverflowSummary(q.frames[Len(q.frames)].seq,
                                      q.frames[Len(q.frames)].frames + 1,
                                      q.frames[Len(q.frames)].bytes + f.bytes)]
              /\ Push(q, f).overflow_summary_queued = q.overflow_summary_queued
<1>1. CASE f.kind # "Output"
  BY <1>1 DEF Push, QueueState
<1>2. CASE f.kind = "Output" /\ ~q.overflow_summary_queued
             /\ ~(q.queued_output_frames >= OutputCapacity)
  BY <1>2 DEF Push, PushOutput, QueueState
<1>3. CASE /\ f.kind = "Output"
           /\ q.overflow_summary_queued \/ q.queued_output_frames >= OutputCapacity
  <2>1. Push(q, f) = RecordOutputOverflow(q, f)
    BY <1>3 DEF Push, PushOutput
  <2>2. CASE Summaries(q.frames) = {}
    BY <1>3, <2>1, <2>2 DEF RecordOutputOverflow, QueueState
  <2>3. CASE Summaries(q.frames) # {}
    <3>1. Summaries(q.frames) = {Len(q.frames)}
      BY <1>3, <2>3
    <3>2. Len(q.frames) \in Nat
      BY DEF QueueState
    <3>3. FirstSummary(q.frames) = Len(q.frames)
      BY <3>1, <3>2 DEF FirstSummary
    <3>4. QED
      BY <1>3, <2>1, <3>1, <3>3 DEF RecordOutputOverflow, QueueState
  <2>4. QED
    BY <2>2, <2>3
<1>4. QED
  BY <1>1, <1>2, <1>3

\* The queue of PtyFrameQueue::new has the type of a queue.
LEMMA EmptyQueueType == EmptyQueue \in QueueState
BY DEF EmptyQueue, QueueState

\* PtyFrameQueueState::push keeps the type of a queue.
LEMMA PushType ==
    ASSUME NEW q \in QueueState, NEW f \in Frame, f.kind # "Overflow",
           f.kind = "Output" =>
              \A i \in Summaries(q.frames) : i = Len(q.frames)
    PROVE  Push(q, f) \in QueueState
<1> DEFINE appended == Append(q.frames, f)
           summary  == Append(q.frames, OverflowSummary(f.seq, 1, f.bytes))
           l        == Len(q.frames)
           grown    == OverflowSummary(q.frames[l].seq, q.frames[l].frames + 1,
                                       q.frames[l].bytes + f.bytes)
           counted  == [q.frames EXCEPT ![l] = grown]
           queued   == q.queued_output_frames + 1
           lost     == q.dropped_frames + 1
           bytes    == q.dropped_bytes + f.bytes
<1>1. appended \in Seq(Frame)
  BY DEF QueueState
<1>2. summary \in Seq(Frame)
  <2>1. OverflowSummary(f.seq, 1, f.bytes) \in Frame
    BY DEF OverflowSummary, Frame, FrameKinds
  <2>2. QED
    BY <2>1 DEF QueueState
<1>3. queued \in Nat /\ lost \in Nat /\ bytes \in Nat
  BY DEF QueueState, Frame
<1>4. CASE f.kind # "Output"
  <2>1. Push(q, f) = [q EXCEPT !.frames = appended]
    BY <1>4 DEF Push
  <2> HIDE DEF appended
  <2>2. QED
    BY <1>1, <2>1 DEF QueueState
<1>5. CASE f.kind = "Output" /\ ~q.overflow_summary_queued
             /\ ~(q.queued_output_frames >= OutputCapacity)
  <2>1. Push(q, f) = [q EXCEPT !.frames = appended, !.queued_output_frames = queued]
    BY <1>5 DEF Push, PushOutput
  <2> HIDE DEF appended, queued
  <2>2. QED
    BY <1>1, <1>3, <2>1 DEF QueueState
<1>6. CASE /\ f.kind = "Output"
           /\ q.overflow_summary_queued \/ q.queued_output_frames >= OutputCapacity
  <2>1. Push(q, f) = RecordOutputOverflow(q, f)
    BY <1>6 DEF Push, PushOutput
  <2>2. CASE Summaries(q.frames) = {}
    <3>1. Push(q, f) = [[q EXCEPT !.dropped_frames = lost, !.dropped_bytes = bytes]
                           EXCEPT !.frames = summary, !.overflow_summary_queued = TRUE]
      BY <2>1, <2>2 DEF RecordOutputOverflow, QueueState
    <3> HIDE DEF summary, lost, bytes
    <3>2. QED
      BY <1>2, <1>3, <3>1 DEF QueueState
  <2>3. CASE Summaries(q.frames) # {}
    <3>1. Summaries(q.frames) = {l}
      BY <1>6, <2>3
    <3>2. l \in Nat
      BY DEF QueueState
    <3>3. FirstSummary(q.frames) = l
      BY <3>1, <3>2 DEF FirstSummary
    <3>4. l \in 1 .. Len(q.frames) /\ q.frames[l] \in Frame
      BY <3>1 DEF Summaries, QueueState
    <3>5. grown \in Frame
      BY <3>4 DEF OverflowSummary, Frame, FrameKinds
    <3>6. counted \in Seq(Frame)
      BY <3>4, <3>5, ExceptSeq DEF QueueState
    <3>7. Push(q, f) = [[q EXCEPT !.dropped_frames = lost, !.dropped_bytes = bytes]
                           EXCEPT !.frames = counted]
      BY <2>1, <2>3, <3>3 DEF RecordOutputOverflow, QueueState
    <3> HIDE DEF counted, lost, bytes
    <3>8. QED
      BY <1>3, <3>6, <3>7 DEF QueueState
  <2>4. QED
    BY <2>2, <2>3
<1>7. QED
  BY <1>4, <1>5, <1>6

\* So does try_recv, on a queue that has a frame.
LEMMA PoppedType ==
    ASSUME NEW q \in QueueState, q.frames # << >>
    PROVE  /\ Popped(q) \in QueueState
           /\ Popped(q).frames = Tail(q.frames)
           /\ Popped(q).overflow_summary_queued =
                (q.overflow_summary_queued /\ Head(q.frames).kind # "Overflow")
<1> DEFINE kind == Head(q.frames).kind
           rest == Tail(q.frames)
           left == IF kind = "Output" /\ q.queued_output_frames > 0
                   THEN q.queued_output_frames - 1 ELSE q.queued_output_frames
           flag == q.overflow_summary_queued /\ kind # "Overflow"
<1>1. rest \in Seq(Frame)
  BY DEF QueueState
<1>2. left \in Nat
  BY DEF QueueState
<1>3. flag \in BOOLEAN
  BY DEF QueueState
<1>4. Popped(q) = [q EXCEPT !.frames = rest, !.queued_output_frames = left,
                            !.overflow_summary_queued = flag]
  BY DEF Popped
<1> HIDE DEF rest, left, flag
<1>5. /\ Popped(q) \in QueueState
      /\ Popped(q).frames = rest
      /\ Popped(q).overflow_summary_queued = flag
  BY <1>1, <1>2, <1>3, <1>4 DEF QueueState
<1>6. QED
  BY <1>5 DEF rest, flag

\* Where the overflow summaries of a queue are after a frame was appended.
LEMMA SummariesAppend ==
    ASSUME NEW w \in Seq(Frame), NEW g \in Frame
    PROVE  Summaries(Append(w, g)) = IF g.kind = "Overflow"
                                     THEN Summaries(w) \cup {Len(w) + 1}
                                     ELSE Summaries(w)
<1> DEFINE t == Append(w, g)
<1>1. /\ Len(w) \in Nat /\ DOMAIN w = 1 .. Len(w) /\ DOMAIN t = 1 .. Len(w) + 1
      /\ t[Len(w) + 1] = g /\ \A i \in 1 .. Len(w) : t[i] = w[i]
  OBVIOUS
<1> HIDE DEF t
<1>2. Summaries(t) = IF g.kind = "Overflow"
                     THEN Summaries(w) \cup {Len(w) + 1} ELSE Summaries(w)
  BY <1>1 DEF Summaries
<1>3. QED
  BY <1>2 DEF t

\* Where they are after the head frame was taken.
LEMMA SummariesTail ==
    ASSUME NEW w \in Seq(Frame), w # << >>
    PROVE  \A i : i \in Summaries(Tail(w)) <=> i \in Nat \ {0} /\ i + 1 \in Summaries(w)
<1> DEFINE t == Tail(w)
<1>1. /\ Len(w) \in Nat \ {0} /\ DOMAIN w = 1 .. Len(w) /\ DOMAIN t = 1 .. Len(w) - 1
      /\ \A i \in 1 .. Len(w) - 1 : t[i] = w[i + 1]
  BY EmptySeq, HeadTailProperties, LenProperties
<1> HIDE DEF t
<1>2. \A i : i \in Summaries(t) <=> i \in Nat \ {0} /\ i + 1 \in Summaries(w)
  BY <1>1 DEF Summaries
<1>3. QED
  BY <1>2 DEF t

\* What a push does to the counters: a frame that is queued counts as output if
\* it is, and there was room; one that is lost is counted, with its bytes.
LEMMA PushCounts ==
    ASSUME NEW q \in QueueState, NEW f \in Frame, f.kind # "Overflow",
           f.kind = "Output" =>
              \A i \in Summaries(q.frames) : i = Len(q.frames)
    PROVE  \/ /\ Push(q, f).frames = Append(q.frames, f)
              /\ Push(q, f).overflow_summary_queued = q.overflow_summary_queued
              /\ Push(q, f).dropped_frames = q.dropped_frames
              /\ Push(q, f).dropped_bytes = q.dropped_bytes
              /\ f.kind # "Output" =>
                    Push(q, f).queued_output_frames = q.queued_output_frames
              /\ f.kind = "Output" =>
                    /\ Push(q, f).queued_output_frames = q.queued_output_frames + 1
                    /\ q.queued_output_frames < OutputCapacity
           \/ /\ f.kind = "Output"
              /\ Push(q, f).dropped_frames = q.dropped_frames + 1
              /\ Push(q, f).dropped_bytes = q.dropped_bytes + f.bytes
              /\ Push(q, f).queued_output_frames = q.queued_output_frames
              /\ \/ /\ Summaries(q.frames) = {}
                    /\ Push(q, f).overflow_summary_queued
                    /\ Push(q, f).frames =
                         Append(q.frames, OverflowSummary(f.seq, 1, f.bytes))
                 \/ /\ Len(q.frames) \in Summaries(q.frames)
                    /\ Push(q, f).overflow_summary_queued = q.overflow_summary_queued
                    /\ Push(q, f).frames =
                         [q.frames EXCEPT ![Len(q.frames)] =
                            OverflowSummary(q.frames[Len(q.frames)].seq,
                                            q.frames[Len(q.frames)].frames + 1,
                                            q.frames[Len(q.frames)].bytes + f.bytes)]
<1>0. q.queued_output_frames \in Nat /\ OutputCapacity \in Nat
  BY CapacityAssumption DEF QueueState, OutputCapacity, DefaultCapacity
<1>1. CASE f.kind # "Output"
  BY <1>1 DEF Push, QueueState
<1>2. CASE f.kind = "Output" /\ ~q.overflow_summary_queued
             /\ ~(q.queued_output_frames >= OutputCapacity)
  <2>1. Push(q, f) = [q EXCEPT !.frames = Append(@, f), !.queued_output_frames = @ + 1]
    BY <1>2 DEF Push, PushOutput
  <2>2. q.queued_output_frames < OutputCapacity
    BY <1>0, <1>2
  <2>3. QED
    BY <1>2, <2>1, <2>2 DEF QueueState
<1>3. CASE /\ f.kind = "Output"
           /\ q.overflow_summary_queued \/ q.queued_output_frames >= OutputCapacity
  <2>1. Push(q, f) = RecordOutputOverflow(q, f)
    BY <1>3 DEF Push, PushOutput
  <2>2. CASE Summaries(q.frames) = {}
    BY <1>3, <2>1, <2>2 DEF RecordOutputOverflow, QueueState
  <2>3. CASE Summaries(q.frames) # {}
    <3>1. Summaries(q.frames) = {Len(q.frames)}
      BY <1>3, <2>3
    <3>2. Len(q.frames) \in Nat
      BY DEF QueueState
    <3>3. FirstSummary(q.frames) = Len(q.frames)
      BY <3>1, <3>2 DEF FirstSummary
    <3>4. QED
      BY <1>3, <2>1, <3>1, <3>3 DEF RecordOutputOverflow, QueueState
  <2>4. QED
    BY <2>2, <2>3
<1>4. QED
  BY <1>1, <1>2, <1>3

\* What taking the head frame does to the counters.
LEMMA PoppedCounts ==
    ASSUME NEW q \in QueueState
    PROVE  /\ Popped(q).dropped_frames = q.dropped_frames
           /\ Popped(q).dropped_bytes = q.dropped_bytes
           /\ Popped(q).queued_output_frames =
                 IF Head(q.frames).kind = "Output" /\ q.queued_output_frames > 0
                 THEN q.queued_output_frames - 1 ELSE q.queued_output_frames
BY DEF Popped, QueueState

-----------------------------------------------------------------------------
(* Sums. *)

\* A set with 0 that is closed under + 1 has every natural number.
LEMMA CountingUp ==
    ASSUME NEW S, 0 \in S, \A n \in Nat : n \in S => n + 1 \in S
    PROVE  \A n \in Nat : n \in S
<1> DEFINE Below   == {p \in Nat \X Nat : p[1] < p[2]}
           Missing == Nat \ S
<1>1. IsWellFoundedOn(Below, Nat)
  BY NatLessThanWellFounded DEF OpToRel
<1>2. ASSUME Missing # {} PROVE FALSE
  <2> HIDE DEF Below, Missing
  <2>1. PICK least \in Missing : \A n \in Missing : <<n, least>> \notin Below
    <3>1. Missing \subseteq Nat
      BY DEF Missing
    <3>2. QED
      BY <1>1, <1>2, <3>1, WFMin, Zenon
  <2>2. least \in Nat /\ least \notin S /\ least # 0
    BY DEF Missing
  <2>3. least - 1 \in Nat /\ least - 1 \in S
    <3>1. least - 1 \in Nat /\ least - 1 < least
      BY <2>2
    <3>2. <<least - 1, least>> \in Below
      BY <2>2, <3>1 DEF Below
    <3>3. QED
      BY <2>1, <3>1, <3>2 DEF Missing
  <2>4. QED
    BY <2>2, <2>3
<1>3. QED
  BY <1>2

\* The partial sums that lead to a total.
Sums(f, s) == /\ f[0] = 0
              /\ \A n \in 1 .. Len(s) : f[n] = f[n - 1] + s[n]

\* The recursion of Total is well defined.
LEMMA TotalSums ==
    ASSUME NEW s, Len(s) \in Nat
    PROVE  \E f : Total(s) = f[Len(s)] /\ Sums(f, s)
<1> DEFINE Body(f, m) == [n \in 0 .. m |-> IF n = 0 THEN 0 ELSE f[n - 1] + s[n]]
           S == {m \in Nat : \E f : f = Body(f, m)}
<1>1. 0 \in S
  <2> DEFINE f == [n \in 0 .. 0 |-> 0]
  <2>1. f = Body(f, 0)
    OBVIOUS
  <2>2. QED
    BY <2>1
<1>2. ASSUME NEW m \in Nat, m \in S PROVE m + 1 \in S
  <2>1. PICK f : f = Body(f, m)
    BY <1>2
  <2> DEFINE g == Body(f, m + 1)
             h == Body(g, m + 1)
  <2>2. ASSUME NEW n \in 0 .. m PROVE f[n] = g[n]
    <3>1. f[n] = Body(f, m)[n]
      BY <2>1
    <3>2. QED
      BY <3>1
  <2>3. ASSUME NEW n \in 0 .. m + 1 PROVE g[n] = h[n]
    <3>1. CASE n = 0
      BY <3>1
    <3>2. CASE n # 0
      <4>1. n - 1 \in 0 .. m
        BY <3>2
      <4>2. f[n - 1] = g[n - 1]
        BY <2>2, <4>1
      <4>3. g[n] = f[n - 1] + s[n] /\ h[n] = g[n - 1] + s[n]
        BY <3>2
      <4>4. QED
        BY <4>2, <4>3
    <3>3. QED
      BY <3>1, <3>2
  <2>4. g = h
    <3>1. g = [n \in 0 .. m + 1 |-> g[n]] /\ h = [n \in 0 .. m + 1 |-> h[n]]
      OBVIOUS
    <3> HIDE DEF g, h
    <3>2. QED
      BY <2>3, <3>1
  <2>5. m + 1 \in Nat /\ g = Body(g, m + 1)
    BY <2>4
  <2> HIDE DEF g
  <2>6. QED
    BY <2>5
<1>3. Len(s) \in S
  <2> HIDE DEF S
  <2>1. QED
    BY <1>1, <1>2, CountingUp
<1> DEFINE l == Len(s)
           sum == CHOOSE f : f = Body(f, l)
<1>4. sum = Body(sum, l)
  BY <1>3
<1>5. Total(s) = sum[l]
  BY DEF Total
<1>6. Sums(sum, s)
  <2> HIDE DEF sum
  <2>1. sum[0] = 0
    BY <1>4
  <2>2. ASSUME NEW n \in 1 .. l PROVE sum[n] = sum[n - 1] + s[n]
    <3>1. sum[n] = Body(sum, l)[n]
      BY <1>4
    <3>2. QED
      BY <3>1
  <2>3. QED
    BY <2>1, <2>2 DEF Sums
<1>7. QED
  BY <1>5, <1>6

\* A total of natural numbers is one, and its partial sums are.
LEMMA SumsAreNat ==
    ASSUME NEW s \in Seq(Nat), NEW f, Sums(f, s)
    PROVE  \A n \in 0 .. Len(s) : f[n] \in Nat
<1> DEFINE S == {n \in Nat : n <= Len(s) => f[n] \in Nat}
<1>1. 0 \in S
  BY DEF Sums
<1>2. ASSUME NEW n \in Nat, n \in S PROVE n + 1 \in S
  <2>1. SUFFICES ASSUME n + 1 <= Len(s) PROVE f[n + 1] \in Nat
    OBVIOUS
  <2>2. n + 1 \in 1 .. Len(s) /\ f[n] \in Nat /\ s[n + 1] \in Nat
    BY <1>2, <2>1
  <2>3. f[n + 1] = f[n] + s[n + 1]
    BY <2>2 DEF Sums
  <2>4. QED
    BY <2>2, <2>3
<1>3. \A n \in Nat : n \in S
  <2> HIDE DEF S
  <2>1. QED
    BY <1>1, <1>2, CountingUp
<1>4. QED
  BY <1>3

\* The total of a sequence of natural numbers is a natural number; of none, 0.
LEMMA TotalType ==
    /\ Total(<< >>) = 0
    /\ \A s \in Seq(Nat) : Total(s) \in Nat
<1>1. Total(<< >>) = 0
  BY TotalSums DEF Sums
<1>2. ASSUME NEW s \in Seq(Nat) PROVE Total(s) \in Nat
  BY TotalSums, SumsAreNat
<1>3. QED
  BY <1>1, <1>2

\* Two sequences that agree up to a place have the same sum up to there.
LEMMA SumsAgree ==
    ASSUME NEW s \in Seq(Nat), NEW t \in Seq(Nat), NEW f, NEW g, Sums(f, s), Sums(g, t),
           NEW m \in Nat, m <= Len(s), m <= Len(t), \A n \in 1 .. m : s[n] = t[n]
    PROVE  f[m] = g[m]
<1> DEFINE S == {n \in Nat : n <= m => f[n] = g[n]}
<1>1. 0 \in S
  BY DEF Sums
<1>2. ASSUME NEW n \in Nat, n \in S PROVE n + 1 \in S
  <2>1. SUFFICES ASSUME n + 1 <= m PROVE f[n + 1] = g[n + 1]
    OBVIOUS
  <2>2. /\ n + 1 \in 1 .. Len(s) /\ n + 1 \in 1 .. Len(t)
        /\ f[n] = g[n] /\ s[n + 1] = t[n + 1]
    BY SMTT(30), <1>2, <2>1
  <2>3. f[n + 1] = f[n] + s[n + 1] /\ g[n + 1] = g[n] + t[n + 1]
    BY <2>2 DEF Sums
  <2>4. QED
    BY <2>2, <2>3
<1>3. \A n \in Nat : n \in S
  <2> HIDE DEF S
  <2>1. QED
    BY <1>1, <1>2, CountingUp
<1>4. QED
  BY <1>3

\* A number appended is added to the total.
LEMMA TotalAppend ==
    ASSUME NEW s \in Seq(Nat), NEW x \in Nat
    PROVE  Total(Append(s, x)) = Total(s) + x
<1> DEFINE t == Append(s, x)
<1>1. /\ t \in Seq(Nat) /\ Len(t) = Len(s) + 1 /\ t[Len(s) + 1] = x
      /\ \A n \in 1 .. Len(s) : s[n] = t[n]
      /\ Len(s) \in Nat
  OBVIOUS
<1> HIDE DEF t
<1>2. PICK f : Total(s) = f[Len(s)] /\ Sums(f, s)
  BY <1>1, TotalSums
<1>3. PICK g : Total(t) = g[Len(t)] /\ Sums(g, t)
  BY <1>1, TotalSums
<1>4. f[Len(s)] = g[Len(s)]
  BY SMTT(30), <1>1, <1>2, <1>3, SumsAgree
<1>5. g[Len(s) + 1] = g[Len(s)] + x
  <2>1. Len(s) + 1 \in 1 .. Len(t) /\ (Len(s) + 1) - 1 = Len(s)
    BY <1>1
  <2>2. g[Len(s) + 1] = g[(Len(s) + 1) - 1] + t[Len(s) + 1]
    BY <1>3, <2>1 DEF Sums
  <2>3. QED
    BY <1>1, <2>1, <2>2
<1>6. QED
  BY <1>1, <1>2, <1>3, <1>4, <1>5 DEF t

\* The first number is what the total loses when it goes.
LEMMA TotalTail ==
    ASSUME NEW s \in Seq(Nat), s # << >>
    PROVE  Total(s) = s[1] + Total(Tail(s))
<1> DEFINE t == Tail(s)
           l == Len(t)
<1>1. /\ t \in Seq(Nat) /\ l \in Nat /\ Len(s) = l + 1 /\ s[1] \in Nat
      /\ \A n \in 1 .. l : t[n] = s[n + 1]
  BY EmptySeq, HeadTailProperties, LenProperties
<1> HIDE DEF t
<1>2. PICK f : Total(s) = f[Len(s)] /\ Sums(f, s)
  BY <1>1, TotalSums
<1>3. PICK g : Total(t) = g[Len(t)] /\ Sums(g, t)
  BY <1>1, TotalSums
<1> DEFINE S == {n \in Nat : n <= l => f[n + 1] = s[1] + g[n]}
<1>4. 0 \in S
  <2>1. 1 \in 1 .. Len(s)
    BY <1>1
  <2>2. f[1] = f[0] + s[1] /\ f[0] = 0 /\ g[0] = 0
    BY <1>2, <1>3, <2>1 DEF Sums
  <2>3. QED
    BY <1>1, <2>2
<1>5. ASSUME NEW n \in Nat, n \in S PROVE n + 1 \in S
  <2>1. SUFFICES ASSUME n + 1 <= l PROVE f[(n + 1) + 1] = s[1] + g[n + 1]
    OBVIOUS
  <2>2. /\ n + 1 \in 1 .. l /\ (n + 1) + 1 \in 1 .. Len(s)
        /\ ((n + 1) + 1) - 1 = n + 1 /\ (n + 1) - 1 = n
        /\ f[n + 1] = s[1] + g[n]
    BY <1>1, <1>5, <2>1, SMTT(30)
  <2>3. f[(n + 1) + 1] = f[n + 1] + s[(n + 1) + 1]
    BY <1>2, <2>2 DEF Sums
  <2>4. g[n + 1] = g[n] + t[n + 1]
    BY <1>3, <2>2 DEF Sums
  <2>5. t[n + 1] = s[(n + 1) + 1] /\ t[n + 1] \in Nat
    BY <1>1, <2>2
  <2>6. g[n] \in Nat
    BY <1>1, <1>3, <2>2, SumsAreNat
  <2>7. f[(n + 1) + 1] = (s[1] + g[n]) + t[n + 1]
    BY <2>2, <2>3, <2>5
  <2>8. (s[1] + g[n]) + t[n + 1] = s[1] + (g[n] + t[n + 1])
    <3>1. s[1] \in Nat /\ t[n + 1] \in Nat
      BY <1>1, <2>5
    <3>2. \A a, b, c \in Nat : (a + b) + c = a + (b + c)
      OBVIOUS
    <3>3. QED
      BY <2>6, <3>1, <3>2, Zenon
  <2>9. QED
    BY <2>4, <2>7, <2>8, Zenon
<1>6. \A n \in Nat : n \in S
  <2> HIDE DEF S
  <2>1. QED
    BY <1>4, <1>5, CountingUp
<1>7. QED
  BY <1>1, <1>2, <1>3, <1>6 DEF t

\* The last number, replaced, is replaced in the total.
LEMMA TotalReplaceLast ==
    ASSUME NEW s \in Seq(Nat), s # << >>, NEW t \in Seq(Nat), Len(t) = Len(s),
           \A n \in 1 .. Len(s) - 1 : s[n] = t[n]
    PROVE  Total(t) + s[Len(s)] = Total(s) + t[Len(s)]
<1> DEFINE l == Len(s)
<1>1. l \in Nat /\ l >= 1 /\ l - 1 \in Nat /\ l \in 1 .. l /\ s[l] \in Nat /\ t[l] \in Nat
  BY EmptySeq
<1>2. PICK f : Total(s) = f[l] /\ Sums(f, s)
  BY <1>1, TotalSums
<1>3. PICK g : Total(t) = g[l] /\ Sums(g, t)
  BY <1>1, TotalSums
<1>4. f[l - 1] = g[l - 1]
  <2> DEFINE m == l - 1
  <2>1. m \in Nat /\ m <= Len(s) /\ m <= Len(t) /\ \A n \in 1 .. m : s[n] = t[n]
    BY <1>1
  <2> HIDE DEF m
  <2>2. f[m] = g[m]
    BY <1>2, <1>3, <2>1, SumsAgree
  <2>3. QED
    BY <2>2 DEF m
<1>5. f[l] = f[l - 1] + s[l] /\ g[l] = g[l - 1] + t[l]
  BY <1>1, <1>2, <1>3 DEF Sums
<1>6. f[l - 1] \in Nat
  BY <1>1, <1>2, SumsAreNat
<1>7. QED
  BY SMTT(30), <1>1, <1>2, <1>3, <1>4, <1>5, <1>6

\* What each element of a sequence adds to a sum over it.
Weigh(weight, s) == [i \in DOMAIN s |-> weight[s[i]]]

\* The weights of a sequence are as many as its elements.
LEMMA WeighType ==
    ASSUME NEW T, NEW weight \in [T -> Nat], NEW s \in Seq(T)
    PROVE  /\ Weigh(weight, s) \in Seq(Nat) /\ Len(Weigh(weight, s)) = Len(s)
           /\ \A i \in 1 .. Len(s) : Weigh(weight, s)[i] = weight[s[i]]
           /\ Total(Weigh(weight, s)) \in Nat
<1>1. DOMAIN s = 1 .. Len(s) /\ Len(s) \in Nat /\ \A i \in 1 .. Len(s) : s[i] \in T
  OBVIOUS
<1>2. Weigh(weight, s) = [i \in 1 .. Len(s) |-> weight[s[i]]]
  BY <1>1 DEF Weigh
<1>3. \A i \in 1 .. Len(s) : weight[s[i]] \in Nat
  BY <1>1
<1>4. Weigh(weight, s) \in Seq(Nat) /\ Len(Weigh(weight, s)) = Len(s)
  BY <1>1, <1>2, <1>3
<1>5. QED
  BY <1>2, <1>4, TotalType

\* An element appended adds its weight.
LEMMA WeighAppend ==
    ASSUME NEW T, NEW weight \in [T -> Nat], NEW s \in Seq(T), NEW x \in T
    PROVE  Total(Weigh(weight, Append(s, x))) = Total(Weigh(weight, s)) + weight[x]
<1> DEFINE t == Append(s, x)
           a == Weigh(weight, t)
           b == Append(Weigh(weight, s), weight[x])
<1>1. /\ t \in Seq(T) /\ Len(t) = Len(s) + 1 /\ Len(s) \in Nat
      /\ \A i \in 1 .. Len(s) : t[i] = s[i]
      /\ t[Len(s) + 1] = x
  OBVIOUS
<1>2. /\ Weigh(weight, s) \in Seq(Nat) /\ Len(Weigh(weight, s)) = Len(s)
      /\ \A i \in 1 .. Len(s) : Weigh(weight, s)[i] = weight[s[i]]
  BY WeighType
<1>3. /\ b \in Seq(Nat) /\ Len(b) = Len(s) + 1
      /\ \A i \in 1 .. Len(s) : b[i] = weight[s[i]]
      /\ b[Len(s) + 1] = weight[x]
  <2> DEFINE w == Weigh(weight, s)
             y == weight[x]
  <2>1. w \in Seq(Nat) /\ y \in Nat /\ Len(w) = Len(s)
    BY <1>2
  <2> HIDE DEF w, y
  <2>2. /\ Append(w, y) \in Seq(Nat) /\ Len(Append(w, y)) = Len(w) + 1
        /\ \A i \in 1 .. Len(w) : Append(w, y)[i] = w[i]
        /\ Append(w, y)[Len(w) + 1] = y
    BY <2>1
  <2>3. QED
    BY <1>2, <2>1, <2>2 DEF w, y
<1> HIDE DEF t
<1>4. /\ a \in Seq(Nat) /\ Len(a) = Len(t)
      /\ \A i \in 1 .. Len(t) : a[i] = weight[t[i]]
  BY <1>1, WeighType
<1> HIDE DEF a, b
<1>5. ASSUME NEW i \in 1 .. Len(a) PROVE a[i] = b[i]
  <2>1. i \in 1 .. Len(t) /\ (i \in 1 .. Len(s) \/ i = Len(s) + 1)
    BY <1>1, <1>4
  <2>2. a[i] = weight[t[i]]
    BY <1>4, <2>1
  <2>3. QED
    BY <1>1, <1>3, <2>1, <2>2
<1>6. a = b
  BY <1>1, <1>3, <1>4, <1>5, SeqEqual
<1>7. Total(b) = Total(Weigh(weight, s)) + weight[x]
  BY <1>2, TotalAppend DEF b
<1>8. QED
  BY <1>6, <1>7 DEF a, t

\* The head's weight is lost with the head.
LEMMA WeighTail ==
    ASSUME NEW T, NEW weight \in [T -> Nat], NEW s \in Seq(T), s # << >>
    PROVE  /\ Total(Weigh(weight, s)) = weight[Head(s)] + Total(Weigh(weight, Tail(s)))
           /\ Head(s) \in T /\ Tail(s) \in Seq(T)
<1> DEFINE t == Tail(s)
           a == Weigh(weight, s)
           b == Weigh(weight, t)
<1>1. /\ t \in Seq(T) /\ Len(s) = Len(t) + 1 /\ Len(t) \in Nat
      /\ \A i \in 1 .. Len(t) : t[i] = s[i + 1]
      /\ Head(s) = s[1] /\ s[1] \in T
  BY EmptySeq, HeadTailProperties, LenProperties
<1> HIDE DEF t
<1>2. /\ a \in Seq(Nat) /\ Len(a) = Len(s) /\ \A i \in 1 .. Len(s) : a[i] = weight[s[i]]
  BY WeighType
<1>3. /\ b \in Seq(Nat) /\ Len(b) = Len(t) /\ \A i \in 1 .. Len(t) : b[i] = weight[t[i]]
  BY <1>1, WeighType, SMTT(30)
<1> HIDE DEF a, b
<1>4. a # << >>
  BY <1>1, <1>2
<1>5. /\ Tail(a) \in Seq(Nat) /\ Len(a) = Len(Tail(a)) + 1
      /\ \A i \in 1 .. Len(Tail(a)) : Tail(a)[i] = a[i + 1]
  BY <1>2, <1>4, EmptySeq, HeadTailProperties, LenProperties
<1>6. Tail(a) = b
  <2> DEFINE u == Tail(a)
  <2>1. /\ u \in Seq(Nat) /\ Len(u) = Len(b)
        /\ \A i \in 1 .. Len(u) : u[i] = b[i]
    BY <1>1, <1>2, <1>3, <1>5, SMTT(60)
  <2> HIDE DEF u
  <2>2. u = b
    BY <1>3, <2>1, SeqEqual
  <2>3. QED
    BY <2>2 DEF u
<1>7. Total(a) = a[1] + Total(Tail(a))
  BY <1>2, <1>4, TotalTail
<1>8. a[1] = weight[Head(s)]
  BY <1>1, <1>2
<1>9. QED
  BY <1>1, <1>6, <1>7, <1>8 DEF a, b, t

\* The last element, replaced, is replaced in the sum.
LEMMA WeighLast ==
    ASSUME NEW T, NEW weight \in [T -> Nat], NEW s \in Seq(T), s # << >>, NEW x \in T
    PROVE  /\ Total(Weigh(weight, [s EXCEPT ![Len(s)] = x])) + weight[s[Len(s)]]
                 = Total(Weigh(weight, s)) + weight[x]
           /\ s[Len(s)] \in T /\ [s EXCEPT ![Len(s)] = x] \in Seq(T)
<1> DEFINE t == [s EXCEPT ![Len(s)] = x]
           a == Weigh(weight, s)
           b == Weigh(weight, t)
           l == Len(s)
<1>1. /\ l \in Nat /\ l \in 1 .. l /\ s[l] \in T
      /\ t \in Seq(T) /\ Len(t) = l /\ t[l] = x
      /\ \A i \in 1 .. l - 1 : t[i] = s[i]
  BY EmptySeq, ExceptSeq
<1> HIDE DEF t
<1>2. /\ a \in Seq(Nat) /\ Len(a) = l /\ \A i \in 1 .. l : a[i] = weight[s[i]]
  BY WeighType
<1>3. /\ b \in Seq(Nat) /\ Len(b) = l /\ \A i \in 1 .. l : b[i] = weight[t[i]]
  BY <1>1, WeighType
<1> HIDE DEF a, b
<1>4. a # << >>
  BY <1>1, <1>2
<1>5. ASSUME NEW i \in 1 .. Len(a) - 1 PROVE a[i] = b[i]
  <2>1. i \in 1 .. l - 1 /\ i \in 1 .. l
    BY <1>1, <1>2
  <2>2. a[i] = weight[s[i]]
    BY <1>2, <2>1
  <2>3. b[i] = weight[t[i]]
    BY <1>3, <2>1
  <2>4. t[i] = s[i]
    BY <1>1, <2>1
  <2>5. QED
    BY <2>2, <2>3, <2>4
<1>6. Total(b) + a[l] = Total(a) + b[l]
  BY <1>2, <1>3, <1>4, <1>5, TotalReplaceLast
<1>7. a[l] = weight[s[l]] /\ b[l] = weight[x]
  BY <1>1, <1>2, <1>3
<1>8. Total(b) + weight[s[l]] = Total(a) + weight[x]
  BY <1>6, <1>7
<1>9. QED
  BY <1>1, <1>8, Zenon DEF a, b, t
=============================================================================
