----------------------- MODULE InputTransactionProofs -----------------------
(***************************************************************************)
(* Proofs about InputTransaction, for all texts, chunk sizes, retries and  *)
(* timeouts.  The plan is a sequence of steps of which only the last       *)
(* submits; the places of its bytes are the flattened pieces of its steps. *)
(* The invariant says at each point of the loop which beginning of the     *)
(* plan the PTY has taken: the steps before the one at hand, and of that   *)
(* one the bytes counted as written.                                       *)
(***************************************************************************)
EXTENDS InputTransaction, SequenceTheorems, WellFoundedInduction, TLAPS

-----------------------------------------------------------------------------
(* Flattened sequences. *)

\* A set with 0 that is closed under + 1 has every natural number.
LEMMA CountingUp ==
    ASSUME NEW S, 0 \in S, \A n \in Nat : n \in S => n + 1 \in S
    PROVE  \A n \in Nat : n \in S
<1> DEFINE Below   == {p \in Nat \X Nat : p[1] < p[2]}
           Missing == Nat \ S
<1>1. IsWellFoundedOn(Below, Nat)
  BY NatLessThanWellFounded DEF OpToRel
<1>2. ASSUME Missing # {} PROVE FALSE
  <2> HIDE DEF Below, Missing
  <2>1. PICK least \in Missing : \A n \in Missing : <<n, least>> \notin Below
    <3>1. Missing \subseteq Nat
      BY DEF Missing
    <3>2. QED
      BY <1>1, <1>2, <3>1, WFMin, Zenon
  <2>2. least \in Nat /\ least \notin S /\ least # 0
    BY DEF Missing
  <2>3. least - 1 \in Nat /\ least - 1 \in S
    <3>1. least - 1 \in Nat /\ least - 1 < least
      BY <2>2
    <3>2. <<least - 1, least>> \in Below
      BY <2>2, <3>1 DEF Below
    <3>3. QED
      BY <2>1, <3>1, <3>2 DEF Missing
  <2>4. QED
    BY <2>2, <2>3
<1>3. QED
  BY <1>2

\* The concatenations that lead to a flattened sequence.
Joins(f, s) == \A n \in 1 .. Len(s) : f[n] = IF n = 1 THEN s[n] ELSE f[n - 1] \o s[n]

\* The recursion of FlattenSeq is well defined.
LEMMA FlattenJoins ==
    ASSUME NEW s, Len(s) \in Nat, Len(s) # 0
    PROVE  \E f : FlattenSeq(s) = f[Len(s)] /\ Joins(f, s)
<1> DEFINE Body(f, m) == [n \in 1 .. m |-> IF n = 1 THEN s[n] ELSE f[n - 1] \o s[n]]
           S == {m \in Nat : \E f : f = Body(f, m)}
<1>1. 0 \in S
  <2> DEFINE f == [n \in 1 .. 0 |-> 0]
  <2>1. f = Body(f, 0)
    OBVIOUS
  <2>2. QED
    BY <2>1
<1>2. ASSUME NEW m \in Nat, m \in S PROVE m + 1 \in S
  <2>1. PICK f : f = Body(f, m)
    BY <1>2
  <2> DEFINE g == Body(f, m + 1)
             h == Body(g, m + 1)
  <2>2. ASSUME NEW n \in 1 .. m PROVE f[n] = g[n]
    <3>1. f[n] = Body(f, m)[n]
      BY <2>1
    <3>2. QED
      BY <3>1
  <2>3. ASSUME NEW n \in 1 .. m + 1 PROVE g[n] = h[n]
    <3>1. CASE n = 1
      BY <3>1
    <3>2. CASE n # 1
      <4>1. n - 1 \in 1 .. m
        BY <3>2
      <4>2. f[n - 1] = g[n - 1]
        BY <2>2, <4>1
      <4>3. g[n] = f[n - 1] \o s[n] /\ h[n] = g[n - 1] \o s[n]
        BY <3>2
      <4> HIDE DEF g, h, Body
      <4>4. QED
        BY <4>2, <4>3
    <3>3. QED
      BY <3>1, <3>2
  <2>4. g = h
    <3>1. g = [n \in 1 .. m + 1 |-> g[n]] /\ h = [n \in 1 .. m + 1 |-> h[n]]
      OBVIOUS
    <3> HIDE DEF g, h
    <3>2. QED
      BY <2>3, <3>1
  <2>5. m + 1 \in Nat /\ g = Body(g, m + 1)
    <3>1. h = Body(g, m + 1)
      OBVIOUS
    <3> HIDE DEF g, h, Body
    <3>2. QED
      BY <2>4, <3>1
  <2> HIDE DEF g
  <2>6. QED
    BY <2>5
<1>3. Len(s) \in S
  <2> HIDE DEF S
  <2>1. QED
    BY <1>1, <1>2, CountingUp
<1> DEFINE l == Len(s)
           flat == CHOOSE f : f = Body(f, l)
<1>4. flat = Body(flat, l)
  <2>1. \E f : f = Body(f, l)
    BY <1>3
  <2> HIDE DEF Body
  <2>2. QED
    BY <2>1
<1>5. FlattenSeq(s) = flat[l]
  BY DEF FlattenSeq
<1>6. Joins(flat, s)
  <2> HIDE DEF flat
  <2>1. ASSUME NEW n \in 1 .. l
        PROVE  flat[n] = IF n = 1 THEN s[n] ELSE flat[n - 1] \o s[n]
    <3>1. flat[n] = Body(flat, l)[n]
      BY <1>4
    <3>2. QED
      BY <3>1
  <2>2. QED
    BY <2>1 DEF Joins
<1>7. QED
  BY <1>5, <1>6

\* Joined sequences are sequences.
LEMMA JoinsType ==
    ASSUME NEW T, NEW s \in Seq(Seq(T)), NEW f, Joins(f, s)
    PROVE  \A n \in 1 .. Len(s) : f[n] \in Seq(T)
<1> DEFINE S == {n \in Nat : n + 1 <= Len(s) => f[n + 1] \in Seq(T)}
<1>1. 0 \in S
  <2>1. Len(s) # 0 => f[1] = s[1] /\ s[1] \in Seq(T)
    BY DEF Joins
  <2>2. QED
    BY <2>1
<1>2. ASSUME NEW n \in Nat, n \in S PROVE n + 1 \in S
  <2>1. SUFFICES ASSUME n + 2 <= Len(s) PROVE f[n + 2] \in Seq(T)
    OBVIOUS
  <2>2. n + 2 \in 1 .. Len(s) /\ f[n + 1] \in Seq(T) /\ s[n + 2] \in Seq(T)
    BY <1>2, <2>1
  <2>3. f[n + 2] = f[n + 1] \o s[n + 2]
    <3>1. PICK k \in 1 .. Len(s) : k = n + 2 /\ k # 1 /\ k - 1 = n + 1
      BY <2>2
    <3>2. f[k] = f[k - 1] \o s[k]
      BY <3>1 DEF Joins
    <3>3. QED
      BY <3>1, <3>2
  <2>4. QED
    BY <2>2, <2>3
<1>3. \A n \in Nat : n \in S
  <2> HIDE DEF S
  <2>1. QED
    BY <1>1, <1>2, CountingUp
<1>4. ASSUME NEW n \in 1 .. Len(s) PROVE f[n] \in Seq(T)
  <2>1. n - 1 \in Nat /\ (n - 1) + 1 = n /\ n <= Len(s)
    OBVIOUS
  <2>2. (n - 1) + 1 <= Len(s) => f[(n - 1) + 1] \in Seq(T)
    BY <1>3, <2>1
  <2>3. QED
    BY <2>1, <2>2
<1>5. QED
  BY <1>4

\* What the first n sequences are together.
Joined(s) == CHOOSE f : FlattenSeq(s) = f[Len(s)] /\ Joins(f, s)
Flat(s, n) == IF n = 0 THEN << >> ELSE Joined(s)[n]

\* Each sequence is joined to those before it, up to the flattened sequence.
LEMMA FlatSteps ==
    ASSUME NEW T, NEW s \in Seq(Seq(T))
    PROVE  /\ Flat(s, 0) = << >>
           /\ \A n \in 0 .. Len(s) : Flat(s, n) \in Seq(T)
           /\ \A n \in 1 .. Len(s) : Flat(s, n) = Flat(s, n - 1) \o s[n]
           /\ Flat(s, Len(s)) = FlattenSeq(s)
<1>1. Flat(s, 0) = << >> /\ << >> \in Seq(T) /\ Len(s) \in Nat
  BY DEF Flat
<1>2. CASE Len(s) = 0
  <2>1. s = << >> /\ FlattenSeq(s) = s
    BY <1>2, EmptySeq DEF FlattenSeq
  <2>2. Flat(s, Len(s)) = FlattenSeq(s)
    BY <1>1, <1>2, <2>1
  <2>3. \A n \in 0 .. Len(s) : n = 0
    BY <1>2
  <2>4. 1 .. Len(s) = {}
    BY <1>2
  <2>5. QED
    BY <1>1, <2>2, <2>3, <2>4
<1>3. CASE Len(s) # 0
  <2> DEFINE f == Joined(s)
  <2>1. FlattenSeq(s) = f[Len(s)] /\ Joins(f, s)
    BY <1>1, <1>3, FlattenJoins DEF Joined
  <2>2. \A n : n # 0 => Flat(s, n) = f[n]
    BY DEF Flat
  <2> HIDE DEF f
  <2>3. \A n \in 1 .. Len(s) : f[n] \in Seq(T)
    BY <2>1, JoinsType
  <2>4. ASSUME NEW n \in 0 .. Len(s) PROVE Flat(s, n) \in Seq(T)
    <3>1. CASE n = 0
      BY <1>1, <3>1
    <3>2. CASE n # 0
      <4>1. n \in 1 .. Len(s)
        BY <1>1, <3>2
      <4>2. Flat(s, n) = f[n] /\ f[n] \in Seq(T)
        BY <2>2, <2>3, <3>2, <4>1
      <4>3. QED
        BY <4>2
    <3>3. QED
      BY <3>1, <3>2
  <2>5. ASSUME NEW n \in 1 .. Len(s)
        PROVE  Flat(s, n) = Flat(s, n - 1) \o s[n]
    <3>1. s[n] \in Seq(T) /\ Flat(s, n) = f[n]
      BY <2>2
    <3>2. CASE n = 1
      <4>1. f[n] = s[n]
        BY <2>1, <3>2 DEF Joins
      <4>2. Flat(s, n - 1) = << >>
        BY <1>1, <3>2
      <4>3. << >> \o s[n] = s[n]
        BY <3>1
      <4>4. QED
        BY <3>1, <4>1, <4>2, <4>3
    <3>3. CASE n # 1
      <4>1. f[n] = f[n - 1] \o s[n]
        BY <2>1, <3>3 DEF Joins
      <4>2. n - 1 # 0
        BY <3>3
      <4>3. QED
        BY <2>2, <3>1, <4>1, <4>2
    <3>4. QED
      BY <3>2, <3>3
  <2>6. QED
    BY <1>1, <1>3, <2>1, <2>2, <2>4, <2>5
<1>4. QED
  BY <1>2, <1>3

\* A sequence that another one begins with.
Begins(s, t) == Len(s) <= Len(t) /\ \A i \in 1 .. Len(s) : s[i] = t[i]

\* It is its prefix.
LEMMA BeginsPrefix ==
    ASSUME NEW T, NEW s \in Seq(T), NEW t \in Seq(T), Begins(s, t)
    PROVE  IsPrefix(s, t)
<1> DEFINE l == Len(s)
<1>1. l \in Nat /\ l <= Len(t) /\ \A i \in 1 .. l : s[i] = t[i] /\ s[i] \in T
  BY DEF Begins
<1>2. SubSeq(s, 1, l) = s
  BY SubSeqFull
<1>3. /\ SubSeq(t, 1, l) \in Seq(T) /\ Len(SubSeq(t, 1, l)) = l
      /\ \A i \in 1 .. l : SubSeq(t, 1, l)[i] = t[i]
  <2>1. \A i \in 1 .. l : t[i] \in T
    BY <1>1
  <2>2. /\ SubSeq(t, 1, l) \in Seq(T)
        /\ Len(SubSeq(t, 1, l)) = IF 1 <= l THEN l - 1 + 1 ELSE 0
        /\ \A i \in 1 .. l - 1 + 1 : SubSeq(t, 1, l)[i] = t[1 + i - 1]
    BY <1>1, <2>1, SubSeqProperties
  <2> HIDE DEF l
  <2>3. Len(SubSeq(t, 1, l)) = l
    BY <1>1, <2>2
  <2>4. ASSUME NEW i \in 1 .. l PROVE SubSeq(t, 1, l)[i] = t[i]
    <3>1. i \in 1 .. l - 1 + 1 /\ 1 + i - 1 = i
      BY <1>1
    <3>2. QED
      BY <2>2, <3>1
  <2>5. QED
    BY <2>2, <2>3, <2>4
<1>4. SubSeq(t, 1, l) = s
  <2>1. Len(SubSeq(t, 1, l)) = Len(s) /\ \A i \in 1 .. Len(s) : s[i] = SubSeq(t, 1, l)[i]
    BY <1>1, <1>3
  <2>2. QED
    BY <1>3, <2>1, SeqEqual
<1>5. QED
  BY <1>1, <1>2, <1>4 DEF IsPrefix

\* What is followed by more begins it.
LEMMA ConcatBegins ==
    ASSUME NEW T, NEW s \in Seq(T), NEW t \in Seq(T)
    PROVE  Begins(s, s \o t)
BY ConcatProperties DEF Begins

LEMMA BeginsTransitive ==
    ASSUME NEW T, NEW s \in Seq(T), NEW t \in Seq(T), NEW u \in Seq(T),
           Begins(s, t), Begins(t, u)
    PROVE  Begins(s, u)
<1>1. Len(s) \in Nat /\ Len(t) \in Nat /\ Len(u) \in Nat
  OBVIOUS
<1>2. Len(s) <= Len(t) /\ Len(t) <= Len(u)
  BY DEF Begins
<1>3. ASSUME NEW i \in 1 .. Len(s) PROVE s[i] = u[i]
  <2>1. i \in 1 .. Len(t)
    BY <1>1, <1>2
  <2>2. s[i] = t[i] /\ t[i] = u[i]
    BY <2>1 DEF Begins
  <2>3. QED
    BY <2>2
<1>4. QED
  BY <1>1, <1>2, <1>3 DEF Begins

\* The first sequences begin the flattened one.
LEMMA FlatBegins ==
    ASSUME NEW T, NEW s \in Seq(Seq(T)), NEW n \in 0 .. Len(s)
    PROVE  Begins(Flat(s, n), FlattenSeq(s))
<1> DEFINE S == {m \in Nat : n + m <= Len(s) => Begins(Flat(s, n), Flat(s, n + m))}
<1>1. Len(s) \in Nat /\ n \in Nat /\ n <= Len(s)
  OBVIOUS
<1>2. 0 \in S
  <2>1. Flat(s, n) \in Seq(T)
    BY FlatSteps
  <2>2. Begins(Flat(s, n), Flat(s, n))
    BY <2>1 DEF Begins
  <2>3. n + 0 = n
    BY <1>1
  <2>4. QED
    BY <2>2, <2>3
<1>3. ASSUME NEW m \in Nat, m \in S PROVE m + 1 \in S
  <2>1. SUFFICES ASSUME n + m + 1 <= Len(s)
                 PROVE  Begins(Flat(s, n), Flat(s, n + (m + 1)))
    BY <1>1
  <2>2. PICK k \in 1 .. Len(s) : k = n + m + 1 /\ k = n + (m + 1) /\ k - 1 = n + m
    BY <1>1, <2>1
  <2>3. Begins(Flat(s, n), Flat(s, k - 1))
    BY <1>1, <1>3, <2>2
  <2>4. /\ Flat(s, k) = Flat(s, k - 1) \o s[k] /\ s[k] \in Seq(T)
        /\ Flat(s, k - 1) \in Seq(T) /\ Flat(s, k) \in Seq(T) /\ Flat(s, n) \in Seq(T)
    <3>1. k \in 0 .. Len(s) /\ k - 1 \in 0 .. Len(s) /\ s[k] \in Seq(T)
      BY <1>1
    <3>2. /\ \A i \in 0 .. Len(s) : Flat(s, i) \in Seq(T)
          /\ \A i \in 1 .. Len(s) : Flat(s, i) = Flat(s, i - 1) \o s[i]
      BY FlatSteps
    <3>3. Flat(s, k) \in Seq(T) /\ Flat(s, k - 1) \in Seq(T) /\ Flat(s, n) \in Seq(T)
      BY <3>1, <3>2
    <3>4. Flat(s, k) = Flat(s, k - 1) \o s[k]
      BY <3>2
    <3>5. QED
      BY <3>1, <3>3, <3>4
  <2>5. Begins(Flat(s, k - 1), Flat(s, k))
    BY <2>4, ConcatBegins
  <2>6. Begins(Flat(s, n), Flat(s, k))
    BY <2>3, <2>4, <2>5, BeginsTransitive
  <2>7. QED
    BY <2>2, <2>6
<1>4. \A m \in Nat : m \in S
  <2> HIDE DEF S
  <2>1. QED
    BY <1>2, <1>3, CountingUp
<1>5. PICK m \in Nat : n + m = Len(s)
  <2> DEFINE rest == Len(s) - n
  <2>1. rest \in Nat /\ n + rest = Len(s)
    BY <1>1
  <2> HIDE DEF rest
  <2>2. QED
    BY <2>1
<1>6. Begins(Flat(s, n), Flat(s, n + m))
  <2>1. m \in S
    BY <1>4
  <2>2. n + m <= Len(s)
    BY <1>1, <1>5
  <2>3. QED
    BY <2>1, <2>2
<1>7. QED
  BY <1>5, <1>6, FlatSteps

-----------------------------------------------------------------------------
(* The inductive invariant. *)

Place     == Nat \X Nat
Piece(i, w) == [k \in 1 .. w |-> <<i, k>>]
Pieces    == [i \in DOMAIN plan |-> Piece(i, plan[i].bytes)]

\* What the PTY has when it has taken the first i steps.
To(i) == Flat(Pieces, i)

StepType    == [bytes : Nat, submits : BOOLEAN]
OutcomeType == [bytes_sent : Nat, echoed : BOOLEAN, submitted : BOOLEAN, timed_out : BOOLEAN,
                child_exited : BOOLEAN, errors : SUBSET {"ChildExited", "Write", "VerificationFailed"}]

\* Only the last step of a plan submits, and it has bytes.
PlanOK ==
    /\ plan \in Seq(StepType)
    /\ \A i \in 1 .. Len(plan) : plan[i].submits => i = Len(plan) /\ plan[i].bytes # 0

TypeOK ==
    /\ asked \in BOOLEAN /\ verified \in BOOLEAN /\ ended \in BOOLEAN
    /\ at \in {"begin", "step", "write", "flush", "after", "verify", "done"}
    /\ index \in Nat /\ written \in Nat
    /\ outcome \in OutcomeType
    /\ accepted \in Seq(Place)
    /\ seen_at \in Int

Writing == at \in {"write", "flush"}

\* The step at hand is one of the plan until the loop has gone past its end.
IndexOK ==
    /\ at \in {"begin", "step", "verify"} => index \in 1 .. Len(plan) + 1
    /\ Writing \/ at = "after" => index \in 1 .. Len(plan)
    /\ at = "begin" => index = 1

\* The steps before the one at hand have gone out whole, and of it what is
\* counted as written: no byte twice, none left out.
AcceptedOK ==
    /\ Begins(accepted, Planned)
    /\ at \in {"begin", "step", "verify"} => accepted = To(index - 1)
    /\ at = "verify" => written = 0
    /\ Writing => accepted = To(index - 1) \o Piece(index, written) /\ written <= plan[index].bytes
    /\ at = "flush" => written = plan[index].bytes
    /\ at = "after" => accepted = To(index)

\* bytes_sent lags behind by the step being written.
SentOK == outcome.bytes_sent + (IF Writing THEN written ELSE 0) = Len(accepted)

SubmitBehind == Submits /\ (index > Len(plan) \/ (index = Len(plan) /\ at = "after"))

\* While the call goes on nothing has failed, and the outcome knows whether
\* the submit step is behind it.
OutcomeOK ==
    at # "done" =>
        /\ outcome.errors = {} /\ ~outcome.timed_out
        /\ verified => outcome.echoed
        /\ outcome.submitted => SubmitBehind
        /\ SubmitBehind => outcome.submitted

DoneOK ==
    at = "done" =>
        /\ outcome.submitted => Submits /\ accepted = Planned
        /\ IsSuccess => accepted = Planned /\ (asked => outcome.echoed) /\ outcome.submitted = Submits
        /\ "ChildExited" \in outcome.errors => ended /\ outcome.child_exited

\* The verification is made where the submit step, or the end, is next, and
\* after it nothing else is written.
VerifyOK ==
    /\ at = "begin" => ~verified
    /\ at = "verify" => asked /\ ~verified /\ (index > Len(plan) \/ plan[index].submits)
    /\ verified /\ (Writing \/ at = "after") => index = Len(plan) /\ plan[index].submits
    /\ verified /\ at = "step" => index > Len(plan)
    /\ asked /\ Writing /\ plan[index].submits => verified

\* The bytes taken since the match are those of the submit step.
EchoOK ==
    /\ \A p \in 1 .. Len(accepted) : accepted[p][1] \in 1 .. Len(plan)
    /\ asked /\ ~verified => \A p \in 1 .. Len(accepted) : ~plan[accepted[p][1]].submits
    /\ asked /\ verified /\ Writing =>
          /\ seen_at \in 0 .. Len(accepted)
          /\ \A p \in seen_at + 1 .. Len(accepted) : plan[accepted[p][1]].submits
    /\ SubmitOnlyAfterEcho

IInv == /\ PlanOK /\ TypeOK /\ IndexOK /\ AcceptedOK /\ SentOK
        /\ OutcomeOK /\ DoneOK /\ VerifyOK /\ EchoOK

-----------------------------------------------------------------------------
(* The bytes of a plan. *)

\* A step of w bytes has w places, and goes on where it stopped.
LEMMA Pieced ==
    ASSUME NEW i \in Nat, NEW w \in Nat
    PROVE  /\ Piece(i, w) \in Seq(Place) /\ Len(Piece(i, w)) = w
           /\ \A k \in 1 .. w : Piece(i, w)[k] = <<i, k>>
           /\ w = 0 => Piece(i, w) = << >>
BY DEF Piece, Place

\* The pieces of the first steps, joined.
LEMMA PlannedBytes ==
    ASSUME PlanOK
    PROVE  /\ Pieces \in Seq(Seq(Place)) /\ Len(Pieces) = Len(plan)
           /\ Planned \in Seq(Place)
           /\ To(0) = << >> /\ To(Len(plan)) = Planned
           /\ \A i \in 0 .. Len(plan) : To(i) \in Seq(Place) /\ Begins(To(i), Planned)
           /\ \A i \in 1 .. Len(plan) : To(i) = To(i - 1) \o Piece(i, plan[i].bytes)
<1>1. Len(plan) \in Nat /\ DOMAIN plan = 1 .. Len(plan)
  BY DEF PlanOK
<1>2. ASSUME NEW i \in 1 .. Len(plan) PROVE plan[i].bytes \in Nat
  <2>1. plan[i] \in StepType
    BY DEF PlanOK
  <2>2. QED
    BY <2>1 DEF StepType
<1>3. Pieces \in Seq(Seq(Place)) /\ Len(Pieces) = Len(plan)
  <2>1. ASSUME NEW i \in 1 .. Len(plan) PROVE Piece(i, plan[i].bytes) \in Seq(Place)
    <3>1. i \in Nat /\ plan[i].bytes \in Nat
      BY <1>1, <1>2
    <3> DEFINE w == plan[i].bytes
    <3> HIDE DEF w
    <3>2. w \in Nat => Piece(i, w) \in Seq(Place)
      BY <3>1, Pieced
    <3>3. QED
      BY <3>1, <3>2 DEF w
  <2>2. Pieces = [i \in 1 .. Len(plan) |-> Piece(i, plan[i].bytes)]
    BY <1>1 DEF Pieces
  <2> HIDE DEF Pieces
  <2>3. QED
    BY <1>1, <2>1, <2>2
<1>4. Planned = FlattenSeq(Pieces)
  BY DEF Planned, Pieces, Piece
<1>5. /\ Flat(Pieces, 0) = << >>
      /\ \A n \in 0 .. Len(Pieces) : Flat(Pieces, n) \in Seq(Place)
      /\ \A n \in 1 .. Len(Pieces) : Flat(Pieces, n) = Flat(Pieces, n - 1) \o Pieces[n]
      /\ Flat(Pieces, Len(Pieces)) = FlattenSeq(Pieces)
  BY <1>3, FlatSteps
<1>6. \A n \in 0 .. Len(Pieces) : Begins(Flat(Pieces, n), FlattenSeq(Pieces))
  BY <1>3, FlatBegins
<1>7. \A n \in 1 .. Len(Pieces) : Pieces[n] = Piece(n, plan[n].bytes)
  BY <1>1, <1>3 DEF Pieces
<1>8. Planned \in Seq(Place)
  BY <1>1, <1>3, <1>4, <1>5
<1>9. QED
  BY <1>3, <1>4, <1>5, <1>6, <1>7, <1>8 DEF To

After(i, w, n) == [k \in 1 .. n |-> <<i, w + k>>]

LEMMA PieceGrows ==
    ASSUME NEW i \in Nat, NEW w \in Nat, NEW n \in Nat
    PROVE  /\ Piece(i, w + n) = Piece(i, w) \o After(i, w, n)
           /\ After(i, w, n) \in Seq(Place) /\ Len(After(i, w, n)) = n
           /\ \A k \in 1 .. n : After(i, w, n)[k] = <<i, w + k>>
<1> DEFINE more == After(i, w, n)
           all  == Piece(i, w) \o more
<1>1. more \in Seq(Place) /\ Len(more) = n /\ \A k \in 1 .. n : more[k] = <<i, w + k>>
  BY DEF Place, After
<1>2. /\ Piece(i, w) \in Seq(Place) /\ Len(Piece(i, w)) = w
      /\ \A k \in 1 .. w : Piece(i, w)[k] = <<i, k>>
  BY Pieced
<1>3. /\ Piece(i, w + n) \in Seq(Place) /\ Len(Piece(i, w + n)) = w + n
      /\ \A k \in 1 .. w + n : Piece(i, w + n)[k] = <<i, k>>
  <2>1. w + n \in Nat
    OBVIOUS
  <2>2. QED
    BY <2>1, Pieced
<1> HIDE DEF more
<1>4. /\ all \in Seq(Place) /\ Len(all) = w + n
      /\ \A k \in 1 .. w + n : all[k] = IF k <= w THEN Piece(i, w)[k] ELSE more[k - w]
  <2>1. /\ all \in Seq(Place) /\ Len(all) = Len(Piece(i, w)) + Len(more)
        /\ \A k \in 1 .. Len(Piece(i, w)) + Len(more) :
              all[k] = IF k <= Len(Piece(i, w)) THEN Piece(i, w)[k] ELSE more[k - Len(Piece(i, w))]
    BY <1>1, <1>2, ConcatProperties
  <2> HIDE DEF all
  <2>2. QED
    BY <1>1, <1>2, <2>1
<1>5. ASSUME NEW k \in 1 .. w + n PROVE all[k] = <<i, k>>
  <2>1. CASE k <= w
    <3>1. k \in 1 .. w
      BY <2>1
    <3>2. QED
      BY <1>2, <1>4, <2>1, <3>1
  <2>2. CASE ~(k <= w)
    <3>1. PICK j \in 1 .. n : j = k - w /\ k = w + j
      BY <2>2
    <3>2. all[k] = more[j]
      BY <1>4, <2>2, <3>1
    <3>3. QED
      BY <1>1, <3>1, <3>2
  <2>3. QED
    BY <2>1, <2>2
<1> HIDE DEF all
<1>6. all = Piece(i, w + n)
  BY <1>3, <1>4, <1>5, SeqEqual
<1>7. QED
  BY <1>1, <1>6 DEF all, more

-----------------------------------------------------------------------------
(* The plans. *)

\* As many chunks as it takes: the last begins before the end of the text.
LEMMA ChunksFit ==
    ASSUME NEW n \in Nat, NEW size \in Nat \ {0}
    PROVE  /\ (n + size - 1) \div size \in Nat
           /\ \A i \in 1 .. (n + size - 1) \div size : n - (i - 1) * size \in Nat \ {0}
<1> DEFINE count == (n + size - 1) \div size
<1>1. PICK total \in Nat : total = n + size - 1
  <2>1. n + size - 1 \in Nat
    OBVIOUS
  <2>2. QED
    BY <2>1
<1>2. count \in Nat /\ count * size <= total
  <2>1. /\ total \div size \in Nat
        /\ (total \div size) * size <= total
    OBVIOUS
  <2>2. QED
    BY <1>1, <2>1
<1> HIDE DEF count
<1>3. ASSUME NEW i \in 1 .. count PROVE n - (i - 1) * size \in Nat \ {0}
  <2>1. PICK j \in Nat : j = i - 1
    <3>1. i - 1 \in Nat
      BY <1>2
    <3>2. QED
      BY <3>1
  <2>2. PICK rest \in Nat : count = j + 1 + rest
    <3>1. count - (j + 1) \in Nat
      BY <1>2, <2>1
    <3>2. QED
      BY <3>1, <1>2
  <2>3. count * size = j * size + size + rest * size
    BY <2>2
  <2>4. j * size \in Nat /\ rest * size \in Nat /\ count * size \in Nat
    BY <1>2
  <2>5. PICK before \in Nat, after \in Nat : before = j * size /\ after = rest * size
    BY <2>4
  <2>6. before + size + after <= n + size - 1
    BY <1>1, <1>2, <2>3, <2>5
  <2>7. n - before \in Nat \ {0}
    BY <2>6
  <2>8. QED
    BY <2>1, <2>5, <2>7
<1>4. QED
  BY <1>2, <1>3 DEF count

\* What a text or a key becomes does not submit.
LEMMA TextsFit ==
    ASSUME NEW text \in Texts \cup {Whole(n) : n \in 0 .. MaxText}
    PROVE  text \in Seq(StepType) /\ \A i \in 1 .. Len(text) : ~text[i].submits
<1>1. ASSUME NEW n \in Nat
      PROVE  Whole(n) \in Seq(StepType) /\ \A i \in 1 .. Len(Whole(n)) : ~Whole(n)[i].submits
  BY <1>1 DEF Whole, Step, StepType
<1>2. ASSUME NEW n \in Nat, NEW c \in Nat
      PROVE  /\ Chunks(n, c) \in Seq(StepType)
             /\ \A i \in 1 .. Len(Chunks(n, c)) : ~Chunks(n, c)[i].submits
  <2>1. PICK size \in Nat \ {0} : size = IF c = 0 THEN 1 ELSE c
    OBVIOUS
  <2> DEFINE left(i)  == n - (i - 1) * size
             step(i)  == Step(IF left(i) < size THEN left(i) ELSE size, FALSE)
             count    == (n + size - 1) \div size
  <2>2. Chunks(n, c) = [i \in 1 .. count |-> step(i)]
    BY <2>1 DEF Chunks
  <2>3. count \in Nat /\ \A i \in 1 .. count : left(i) \in Nat
    BY ChunksFit
  <2>4. ASSUME NEW i \in 1 .. count PROVE step(i) \in StepType /\ ~step(i).submits
    <3>1. left(i) \in Nat
      BY <2>3
    <3> HIDE DEF left
    <3>2. QED
      BY <3>1 DEF Step, StepType
  <2> HIDE DEF step, count
  <2>5. QED
    BY <2>2, <2>3, <2>4
<1>3. MaxText \in Nat /\ ChunkSizes \subseteq Nat
  BY TransactionAssumption
<1>4. CASE text \in {Chunks(n, c) : n \in 0 .. MaxText, c \in ChunkSizes}
  <2>1. PICK n \in 0 .. MaxText, c \in ChunkSizes : text = Chunks(n, c)
    BY <1>4
  <2>2. n \in Nat /\ c \in Nat
    BY <1>3
  <2>3. QED
    BY <1>2, <2>1, <2>2
<1>5. CASE text \in {Whole(n) : n \in 0 .. MaxText} \cup {Whole(n) : n \in 1 .. MaxText}
  <2>1. PICK n \in Nat : text = Whole(n)
    BY <1>3, <1>5
  <2>2. QED
    BY <1>1, <2>1
<1>6. QED
  BY <1>4, <1>5 DEF Texts

LEMMA PlansFit ==
    ASSUME plan \in Plans
    PROVE  PlanOK
<1>1. CASE plan \in Texts \cup {Whole(n) : n \in 0 .. MaxText}
  <2>1. plan \in Seq(StepType) /\ \A i \in 1 .. Len(plan) : ~plan[i].submits
    BY <1>1, TextsFit
  <2>2. QED
    BY <2>1 DEF PlanOK
<1>2. CASE plan \in {Append(text, Step(EnterBytes, TRUE)) : text \in Texts}
  <2>1. PICK text \in Texts : plan = Append(text, Step(EnterBytes, TRUE))
    BY <1>2
  <2>2. text \in Seq(StepType) /\ \A i \in 1 .. Len(text) : ~text[i].submits
    BY TextsFit
  <2>3. PICK enter \in StepType : enter = Step(EnterBytes, TRUE) /\ enter.bytes # 0
    <3>1. EnterBytes \in Nat /\ EnterBytes # 0
      BY TransactionAssumption
    <3>2. /\ [bytes |-> EnterBytes, submits |-> TRUE] \in StepType
          /\ [bytes |-> EnterBytes, submits |-> TRUE].bytes # 0
      BY <3>1 DEF StepType
    <3>3. QED
      BY <3>2 DEF Step
  <2>4. /\ plan \in Seq(StepType) /\ Len(plan) = Len(text) + 1
        /\ \A i \in 1 .. Len(text) : plan[i] = text[i]
        /\ plan[Len(text) + 1] = enter
    <3>1. plan = Append(text, enter)
      BY <2>1, <2>3
    <3>2. QED
      BY <2>2, <3>1, AppendProperties
  <2>5. ASSUME NEW i \in 1 .. Len(plan), plan[i].submits
        PROVE  i = Len(plan) /\ plan[i].bytes # 0
    <3>1. i \notin 1 .. Len(text)
      BY <2>2, <2>4, <2>5
    <3>2. i = Len(text) + 1
      BY <2>2, <2>4, <3>1
    <3>3. QED
      BY <2>3, <2>4, <3>2
  <2>6. QED
    BY <2>4, <2>5 DEF PlanOK
<1>3. QED
  BY <1>1, <1>2 DEF Plans

-----------------------------------------------------------------------------
(* The invariant is inductive: one lemma for each action. *)

\* The plan is fixed, and what is said of it.
LEMMA SamePlan ==
    ASSUME PlanOK, plan' = plan
    PROVE  PlanOK' /\ Pieces' = Pieces /\ Planned' = Planned /\ Submits' = Submits
BY DEF PlanOK, Pieces, Planned, Submits

LEMMA PlanLength ==
    ASSUME PlanOK
    PROVE  Len(plan) \in Nat /\ DOMAIN plan = 1 .. Len(plan)
BY DEF PlanOK

LEMMA StepFields ==
    ASSUME PlanOK
    PROVE  \A i \in 1 .. Len(plan) : plan[i].bytes \in Nat /\ plan[i].submits \in BOOLEAN
<1>1. ASSUME NEW i \in 1 .. Len(plan)
      PROVE  plan[i].bytes \in Nat /\ plan[i].submits \in BOOLEAN
  <2>1. plan[i] \in StepType
    BY DEF PlanOK
  <2>2. QED
    BY <2>1 DEF StepType
<1>2. QED
  BY <1>1

\* The fields of an outcome.
LEMMA OutcomeFields ==
    ASSUME outcome \in OutcomeType
    PROVE  /\ outcome.bytes_sent \in Nat /\ outcome.echoed \in BOOLEAN
           /\ outcome.submitted \in BOOLEAN /\ outcome.timed_out \in BOOLEAN
           /\ outcome.child_exited \in BOOLEAN
           /\ outcome.errors \in SUBSET {"ChildExited", "Write", "VerificationFailed"}
BY DEF OutcomeType

\* The outcome of a call that finds the child gone.
LEMMA ExitedOutcome ==
    ASSUME outcome \in OutcomeType, StopsExited
    PROVE  /\ outcome' \in OutcomeType
           /\ outcome'.bytes_sent = outcome.bytes_sent /\ outcome'.echoed = outcome.echoed
           /\ outcome'.submitted = outcome.submitted /\ outcome'.timed_out = outcome.timed_out
           /\ outcome'.child_exited /\ "ChildExited" \in outcome'.errors
BY DEF OutcomeType, StopsExited

\* What has been seen of the echo stays true while nothing is written.
LEMMA EchoKept ==
    ASSUME EchoOK, plan' = plan, asked' = asked, verified' = verified, accepted' = accepted,
           seen_at' = seen_at, Writing' => Writing \/ ~(asked /\ verified)
    PROVE  EchoOK'
BY DEF EchoOK, SubmitOnlyAfterEcho

LEMMA InitInv ==
    ASSUME Init
    PROVE  IInv
<1>1. PlanOK
  BY PlansFit DEF Init
<1>2. Len(plan) \in Nat
  BY <1>1 DEF PlanOK
<1>3. TypeOK
  <2>1. NoOutcome \in OutcomeType
    BY DEF OutcomeType, NoOutcome
  <2>2. << >> \in Seq(Place) /\ -1 \in Int
    OBVIOUS
  <2>3. QED
    BY <2>1, <2>2 DEF Init, TypeOK
<1>4. IndexOK
  BY <1>2 DEF Init, IndexOK, Writing
<1>5. AcceptedOK
  <2>1. To(0) = << >> /\ Planned \in Seq(Place)
    BY <1>1, PlannedBytes
  <2>2. index - 1 = 0 /\ accepted = << >> /\ at = "begin"
    BY DEF Init
  <2>3. Begins(accepted, Planned)
    BY <2>1, <2>2 DEF Begins
  <2>4. QED
    BY <2>1, <2>2, <2>3 DEF AcceptedOK, Writing
<1>6. SentOK
  BY DEF Init, SentOK, Writing, NoOutcome
<1>7. OutcomeOK
  <2>1. at = "begin" /\ index = 1 /\ ~verified
    BY DEF Init
  <2>2. ~SubmitBehind
    <3>1. ASSUME Submits PROVE Len(plan) # 0
      BY <1>2, <3>1 DEF Submits, PlanOK
    <3>2. QED
      BY <1>2, <2>1, <3>1 DEF SubmitBehind
  <2>3. QED
    BY <2>1, <2>2 DEF Init, OutcomeOK, NoOutcome
<1>8. DoneOK
  BY DEF Init, DoneOK
<1>9. VerifyOK
  BY DEF Init, VerifyOK, Writing
<1>10. EchoOK
  BY DEF Init, EchoOK, SubmitOnlyAfterEcho, Writing
<1>11. QED
  BY <1>1, <1>3, <1>4, <1>5, <1>6, <1>7, <1>8, <1>9, <1>10 DEF IInv

LEMMA BeginKeeps ==
    ASSUME IInv, Begin
    PROVE  IInv'
<1>1. /\ at = "begin" /\ plan' = plan /\ asked' = asked /\ index' = index
      /\ verified' = verified /\ written' = written /\ accepted' = accepted /\ seen_at' = seen_at
      /\ \/ ended' /\ StopsExited /\ at' = "done"
         \/ ~ended' /\ outcome' = outcome /\ at' = "step"
  BY DEF Begin, Goes
<1>2. PlanOK' /\ Pieces' = Pieces /\ Planned' = Planned /\ Submits' = Submits
  BY <1>1, SamePlan DEF IInv
<1>3. outcome \in OutcomeType /\ outcome' \in OutcomeType /\ outcome'.bytes_sent = outcome.bytes_sent
  BY <1>1, ExitedOutcome DEF IInv, TypeOK
<1>4. TypeOK'
  <2>1. ended' \in BOOLEAN
    BY DEF IInv, TypeOK, Begin, Poll
  <2>2. QED
    BY <1>1, <1>3, <2>1 DEF IInv, TypeOK
<1>5. IndexOK'
  BY <1>1 DEF IInv, IndexOK, Writing
<1>6. AcceptedOK'
  BY <1>1, <1>2 DEF IInv, AcceptedOK, Writing, To
<1>7. SentOK'
  BY <1>1, <1>3 DEF IInv, SentOK, Writing
<1>8. OutcomeOK'
  BY <1>1, <1>2 DEF IInv, OutcomeOK, SubmitBehind
<1>9. DoneOK'
  <2>1. ASSUME at' = "done" PROVE ended' /\ ~outcome'.submitted /\ outcome'.child_exited /\ ~IsSuccess'
    <3>1. ended' /\ StopsExited
      BY <1>1, <2>1
    <3>2. /\ outcome'.submitted = outcome.submitted
          /\ outcome'.child_exited /\ "ChildExited" \in outcome'.errors
      BY <1>3, <3>1, ExitedOutcome
    <3>3. ~SubmitBehind
      <4>1. ASSUME Submits PROVE Len(plan) # 0
        BY <4>1 DEF Submits, IInv, PlanOK
      <4>2. index = 1 /\ Len(plan) \in Nat
        BY <1>1, PlanLength DEF IInv, IndexOK
      <4>3. QED
        BY <1>1, <4>1, <4>2 DEF SubmitBehind
    <3>4. ~outcome.submitted
      BY <1>1, <3>3 DEF IInv, OutcomeOK
    <3>5. QED
      BY <3>1, <3>2, <3>4 DEF IsSuccess
  <2>2. QED
    BY <2>1 DEF DoneOK
<1>10. VerifyOK'
  BY <1>1 DEF IInv, VerifyOK, Writing
<1>11. EchoOK'
  BY <1>1, EchoKept DEF IInv, Writing
<1>12. QED
  BY <1>2, <1>4, <1>5, <1>6, <1>7, <1>8, <1>9, <1>10, <1>11 DEF IInv

LEMMA BeginStepKeeps ==
    ASSUME IInv, BeginStep
    PROVE  IInv'
<1>1. /\ at = "step" /\ plan' = plan /\ asked' = asked /\ index' = index
      /\ verified' = verified /\ written' = 0 /\ accepted' = accepted /\ seen_at' = seen_at
      /\ outcome' = outcome /\ ended' = ended
  BY DEF BeginStep, Goes
<1>2. PlanOK' /\ Pieces' = Pieces /\ Planned' = Planned /\ Submits' = Submits
  BY <1>1, SamePlan DEF IInv
<1>3. \/ index > Len(plan) /\ (verified \/ ~asked) /\ at' = "done"
      \/ index > Len(plan) /\ asked /\ ~verified /\ at' = "verify"
      \/ index \in 1 .. Len(plan) /\ plan[index].submits /\ asked /\ ~verified /\ at' = "verify"
      \/ /\ index \in 1 .. Len(plan) /\ ~(plan[index].submits /\ asked /\ ~verified)
         /\ plan[index].bytes = 0 /\ at' = "after"
      \/ /\ index \in 1 .. Len(plan) /\ ~(plan[index].submits /\ asked /\ ~verified)
         /\ at' = "write"
  <2>1. index \in 1 .. Len(plan) + 1 /\ Len(plan) \in Nat
    BY <1>1, PlanLength DEF IInv, IndexOK
  <2>2. asked \in BOOLEAN /\ verified \in BOOLEAN
    BY DEF IInv, TypeOK
  <2>3. at' = IF index > Len(plan) THEN IF verified \/ ~asked THEN "done" ELSE "verify"
              ELSE IF plan[index].submits /\ asked /\ ~verified THEN "verify"
              ELSE IF plan[index].bytes = 0 THEN "after"
              ELSE "write"
    BY DEF BeginStep, Goes
  <2>4. QED
    BY <2>1, <2>2, <2>3
<1>4. Len(plan) \in Nat /\ index \in 1 .. Len(plan) + 1 /\ accepted = To(index - 1)
  BY <1>1, PlanLength DEF IInv, IndexOK, AcceptedOK
<1>5. index \in 1 .. Len(plan) => plan[index].bytes \in Nat
  BY StepFields DEF IInv
<1>6. TypeOK'
  BY <1>1, <1>3 DEF IInv, TypeOK
<1>7. IndexOK'
  BY <1>1, <1>3, <1>4 DEF IndexOK, Writing
<1>8. AcceptedOK'
  <2>1. Begins(accepted, Planned)
    BY DEF IInv, AcceptedOK
  <2>2. To(index - 1) \in Seq(Place)
    BY <1>4, PlannedBytes DEF IInv
  <2>3. accepted = To(index - 1) \o Piece(index, 0)
    <3>1. Piece(index, 0) = << >>
      BY <1>4, Pieced
    <3>2. To(index - 1) \o << >> = To(index - 1)
      BY <2>2, ConcatEmptySeq
    <3>3. QED
      BY <1>4, <3>1, <3>2
  <2>4. ASSUME at' = "after" PROVE accepted = To(index)
    <3>1. index \in 1 .. Len(plan) /\ plan[index].bytes = 0
      BY <1>3, <2>4
    <3>2. To(index) = To(index - 1) \o Piece(index, plan[index].bytes)
      BY <3>1, PlannedBytes DEF IInv
    <3>3. QED
      BY <2>3, <3>1, <3>2
  <2>5. at' = "write" => 0 <= plan[index].bytes
    BY <1>3, <1>5
  <2>6. at' \notin {"begin", "flush"}
    BY <1>3
  <2>7. QED
    BY <1>1, <1>2, <1>4, <2>1, <2>3, <2>4, <2>5, <2>6 DEF AcceptedOK, Writing, To
<1>9. SentOK'
  <2>1. outcome.bytes_sent = Len(accepted)
    <3>1. outcome.bytes_sent + 0 = Len(accepted) /\ outcome.bytes_sent \in Nat
      BY <1>1, OutcomeFields DEF IInv, TypeOK, SentOK, Writing
    <3>2. QED
      BY <3>1
  <2>2. outcome.bytes_sent \in Nat
    BY OutcomeFields DEF IInv, TypeOK
  <2>3. QED
    BY <1>1, <2>1, <2>2 DEF SentOK
<1>10. SubmitBehind' <=> SubmitBehind
  <2>1. ASSUME Submits, index \in 1 .. Len(plan), plan[index].bytes = 0 PROVE index # Len(plan)
    <3>1. PICK i \in 1 .. Len(plan) : plan[i].submits
      BY <2>1, PlanLength DEF IInv, Submits
    <3>2. i = Len(plan) /\ plan[i].bytes # 0
      BY <3>1 DEF IInv, PlanOK
    <3>3. QED
      BY <2>1, <3>2
  <2>2. QED
    BY <1>1, <1>2, <1>3, <2>1 DEF SubmitBehind
<1>11. OutcomeOK'
  BY <1>1, <1>10 DEF IInv, OutcomeOK
<1>12. DoneOK'
  <2>1. ASSUME at' = "done"
        PROVE  /\ accepted = Planned /\ (asked => outcome.echoed)
               /\ outcome.submitted = Submits /\ "ChildExited" \notin outcome.errors
    <3>1. index > Len(plan) /\ (verified \/ ~asked)
      BY <1>3, <2>1
    <3>2. index - 1 = Len(plan)
      BY <1>4, <3>1
    <3>3. accepted = Planned
      BY <1>4, <3>2, PlannedBytes DEF IInv
    <3>4. outcome.errors = {} /\ (verified => outcome.echoed)
      BY <1>1 DEF IInv, OutcomeOK
    <3>5. outcome.submitted = Submits
      <4>1. outcome.submitted <=> Submits
        BY <1>1, <3>1 DEF IInv, OutcomeOK, SubmitBehind
      <4>2. outcome.submitted \in BOOLEAN /\ Submits \in BOOLEAN
        BY OutcomeFields DEF IInv, TypeOK, Submits
      <4>3. QED
        BY <4>1, <4>2
    <3>6. QED
      BY <3>1, <3>3, <3>4, <3>5
  <2>2. QED
    BY <1>1, <1>2, <2>1 DEF DoneOK, IsSuccess
<1>13. VerifyOK'
  BY <1>1, <1>3, <1>4 DEF IInv, VerifyOK, Writing
<1>14. EchoOK'
  <2>1. ~(asked' /\ verified' /\ Writing')
    BY <1>1, <1>3, <1>4 DEF IInv, VerifyOK, Writing
  <2>2. QED
    BY <1>1, <2>1, EchoKept DEF IInv
<1>15. QED
  BY <1>2, <1>6, <1>7, <1>8, <1>9, <1>11, <1>12, <1>13, <1>14 DEF IInv

LEMMA AfterStepKeeps ==
    ASSUME IInv, AfterStep
    PROVE  IInv'
<1>1. /\ at = "after" /\ plan' = plan /\ asked' = asked /\ index' = index + 1
      /\ verified' = verified /\ written' = written /\ accepted' = accepted /\ seen_at' = seen_at
      /\ \/ ended' /\ index < Len(plan) /\ StopsExited /\ at' = "done"
         \/ at' = "step" /\ outcome' = [outcome EXCEPT !.child_exited = @ \/ ended']
  BY DEF AfterStep, Goes
<1>2. PlanOK' /\ Pieces' = Pieces /\ Planned' = Planned /\ Submits' = Submits
  BY <1>1, SamePlan DEF IInv
<1>3. Len(plan) \in Nat /\ index \in 1 .. Len(plan)
  BY <1>1, PlanLength DEF IInv, IndexOK
<1>4. /\ outcome' \in OutcomeType /\ outcome'.bytes_sent = outcome.bytes_sent
      /\ outcome'.submitted = outcome.submitted /\ outcome'.echoed = outcome.echoed
      /\ outcome'.timed_out = outcome.timed_out
      /\ at' = "step" => outcome'.errors = outcome.errors
      /\ at' = "done" => ended' /\ outcome'.child_exited /\ "ChildExited" \in outcome'.errors
  <2>1. outcome \in OutcomeType
    BY DEF IInv, TypeOK
  <2>2. CASE StopsExited /\ at' = "done" /\ ended'
    BY <2>1, <2>2, ExitedOutcome
  <2>3. CASE at' = "step" /\ outcome' = [outcome EXCEPT !.child_exited = @ \/ ended']
    BY <2>1, <2>3 DEF OutcomeType
  <2>4. QED
    BY <1>1, <2>2, <2>3
<1>5. TypeOK'
  <2>1. ended' \in BOOLEAN
    BY DEF IInv, TypeOK, AfterStep, Poll
  <2>2. at' \in {"step", "done"} /\ index' \in Nat
    BY <1>1, <1>3
  <2>3. QED
    BY <1>1, <1>4, <2>1, <2>2 DEF IInv, TypeOK
<1>6. IndexOK'
  BY <1>1, <1>3 DEF IndexOK, Writing
<1>7. AcceptedOK'
  <2>1. Begins(accepted, Planned) /\ accepted = To(index)
    BY <1>1 DEF IInv, AcceptedOK
  <2>2. (index + 1) - 1 = index
    BY <1>3
  <2>3. at' \in {"step", "done"}
    BY <1>1
  <2>4. QED
    BY <1>1, <1>2, <2>1, <2>2, <2>3 DEF AcceptedOK, Writing, To
<1>8. SentOK'
  BY <1>1, <1>4 DEF IInv, SentOK, Writing
<1>9. OutcomeOK'
  <2>1. ASSUME at' = "step" PROVE SubmitBehind' <=> SubmitBehind
    BY <1>1, <1>2, <1>3, <2>1 DEF SubmitBehind
  <2>2. QED
    BY <1>1, <1>4, <2>1 DEF IInv, OutcomeOK
<1>10. DoneOK'
  <2>1. ASSUME at' = "done" PROVE ~outcome'.submitted
    <3>1. index < Len(plan)
      BY <1>1, <2>1
    <3>2. ~SubmitBehind
      BY <1>3, <3>1 DEF SubmitBehind
    <3>3. QED
      BY <1>1, <1>4, <3>2 DEF IInv, OutcomeOK
  <2>2. QED
    BY <1>4, <2>1 DEF DoneOK, IsSuccess
<1>11. VerifyOK'
  BY <1>1, <1>3 DEF IInv, VerifyOK, Writing
<1>12. EchoOK'
  BY <1>1, EchoKept DEF IInv, Writing
<1>13. QED
  BY <1>2, <1>5, <1>6, <1>7, <1>8, <1>9, <1>10, <1>11, <1>12 DEF IInv

LEMMA WriteAcceptsKeeps ==
    ASSUME IInv, WriteAccepts
    PROVE  IInv'
<1>1. /\ at = "write" /\ plan' = plan /\ asked' = asked /\ index' = index /\ verified' = verified
      /\ seen_at' = seen_at /\ outcome' = outcome /\ ended' = ended
  BY DEF WriteAccepts, Goes
<1>2. PlanOK' /\ Pieces' = Pieces /\ Planned' = Planned /\ Submits' = Submits
  BY <1>1, SamePlan DEF IInv
<1>3. /\ Len(plan) \in Nat /\ index \in 1 .. Len(plan) /\ index \in Nat
      /\ plan[index].bytes \in Nat /\ written \in Nat /\ written <= plan[index].bytes
  BY <1>1, PlanLength, StepFields DEF IInv, IndexOK, Writing, TypeOK, AcceptedOK
<1>4. PICK bytes \in Nat, had \in Nat, now \in Nat, n \in Nat :
          /\ bytes = plan[index].bytes /\ had = written
          /\ now = written' /\ now = had + n /\ now <= bytes
          /\ n # 0 /\ accepted' = accepted \o Places(n)
          /\ at' = IF now = bytes THEN "flush" ELSE "write"
  <2>1. PICK all \in Nat : all = plan[index].bytes
    BY <1>3
  <2>2. PICK n \in 1 .. all - written :
            /\ accepted' = accepted \o Places(n) /\ written' = written + n
            /\ at' = IF written' = all THEN "flush" ELSE "write"
    BY <2>1 DEF WriteAccepts, Goes
  <2>3. PICK had \in Nat : had = written /\ n \in 1 .. all - had
    BY <1>3, <2>2
  <2>4. n \in Nat /\ n # 0 /\ had + n \in Nat /\ had + n <= all
    BY <2>3
  <2>5. QED
    BY <2>1, <2>2, <2>3, <2>4
<1>5. at' = "flush" => now = bytes
  BY <1>4
<1>6. PICK more \in Seq(Place) :
          /\ accepted' = accepted \o more /\ Len(more) = n
          /\ Piece(index, now) = Piece(index, had) \o more
          /\ \A k \in 1 .. n : more[k] = <<index, had + k>>
  <2>1. Places(n) = After(index, had, n)
    BY <1>4 DEF Places, After
  <2>2. PICK i \in Nat : i = index
    BY <1>3
  <2>3. /\ Piece(i, had + n) = Piece(i, had) \o After(i, had, n)
        /\ After(i, had, n) \in Seq(Place) /\ Len(After(i, had, n)) = n
        /\ \A k \in 1 .. n : After(i, had, n)[k] = <<i, had + k>>
    BY PieceGrows
  <2>4. QED
    BY <1>4, <2>1, <2>2, <2>3
<1>7. /\ accepted \in Seq(Place) /\ Len(accepted) \in Nat
      /\ accepted' \in Seq(Place) /\ Len(accepted') = Len(accepted) + n
      /\ \A p \in 1 .. Len(accepted') :
            accepted'[p] = IF p <= Len(accepted) THEN accepted[p]
                           ELSE <<index, had + (p - Len(accepted))>>
  <2>1. accepted \in Seq(Place) /\ Len(accepted) \in Nat
    BY DEF IInv, TypeOK
  <2>2. /\ accepted' \in Seq(Place) /\ Len(accepted') = Len(accepted) + n
        /\ \A p \in 1 .. Len(accepted) + n :
              accepted'[p] = IF p <= Len(accepted) THEN accepted[p]
                             ELSE more[p - Len(accepted)]
    <3>1. PICK old \in Seq(Place) : old = accepted
      BY <2>1
    <3>2. /\ old \o more \in Seq(Place) /\ Len(old \o more) = Len(old) + Len(more)
          /\ \A p \in 1 .. Len(old) + Len(more) :
                (old \o more)[p] = IF p <= Len(old) THEN old[p] ELSE more[p - Len(old)]
      BY ConcatProperties
    <3>3. QED
      BY <1>6, <3>1, <3>2
  <2>3. ASSUME NEW p \in 1 .. Len(accepted'), ~(p <= Len(accepted))
        PROVE  accepted'[p] = <<index, had + (p - Len(accepted))>>
    <3>1. PICK k \in 1 .. n : k = p - Len(accepted)
      <4>1. PICK l \in Nat : l = Len(accepted) /\ Len(accepted') = l + n
        BY <2>1, <2>2
      <4>2. p - l \in 1 .. n
        BY <1>4, <2>3, <4>1
      <4>3. QED
        BY <4>1, <4>2
    <3>2. accepted'[p] = more[k]
      BY <2>2, <2>3, <3>1
    <3>3. QED
      BY <1>6, <3>1, <3>2
  <2>4. QED
    BY <2>1, <2>2, <2>3
<1>8. at' \in {"write", "flush"} /\ Writing' /\ Writing
  BY <1>1, <1>4 DEF Writing
<1>9. TypeOK'
  BY <1>1, <1>4, <1>7, <1>8 DEF IInv, TypeOK
<1>10. IndexOK'
  BY <1>1, <1>3, <1>8 DEF IndexOK
<1>11. AcceptedOK'
  <2>1. accepted' = To(index - 1) \o Piece(index, now)
    <3>1. accepted = To(index - 1) \o Piece(index, had)
      BY <1>4, <1>8 DEF IInv, AcceptedOK
    <3>2. To(index - 1) \in Seq(Place) /\ Piece(index, had) \in Seq(Place)
      <4>1. index - 1 \in 0 .. Len(plan)
        BY <1>3
      <4>2. QED
        BY <1>3, <4>1, PlannedBytes, Pieced DEF IInv
    <3>3. (To(index - 1) \o Piece(index, had)) \o more
            = To(index - 1) \o (Piece(index, had) \o more)
      <4>1. PICK before \in Seq(Place), step \in Seq(Place) :
                before = To(index - 1) /\ step = Piece(index, had)
        BY <3>2
      <4>2. (before \o step) \o more = before \o (step \o more)
        BY ConcatAssociative
      <4>3. QED
        BY <4>1, <4>2
    <3>4. QED
      BY <1>6, <3>1, <3>3
  <2>2. Begins(accepted', Planned)
    <3>1. PICK rest \in Nat : bytes = now + rest
      <4>1. now <= bytes
        BY <1>4
      <4>2. bytes - now \in Nat /\ bytes = now + (bytes - now)
        BY <4>1
      <4>3. QED
        BY <4>2
    <3> DEFINE tail == After(index, now, rest)
    <3>2. tail \in Seq(Place) /\ Piece(index, bytes) = Piece(index, now) \o tail
      BY <1>3, <3>1, PieceGrows
    <3> HIDE DEF tail
    <3>4. index - 1 \in 0 .. Len(plan) /\ index \in 0 .. Len(plan)
      BY <1>3
    <3>5. /\ To(index - 1) \in Seq(Place) /\ To(index) \in Seq(Place) /\ Planned \in Seq(Place)
          /\ Begins(To(index), Planned) /\ To(index) = To(index - 1) \o Piece(index, bytes)
      BY <1>3, <1>4, <3>4, PlannedBytes DEF IInv
    <3>6. Piece(index, now) \in Seq(Place)
      BY <1>3, Pieced
    <3>7. (To(index - 1) \o Piece(index, now)) \o tail
            = To(index - 1) \o (Piece(index, now) \o tail)
      <4>1. PICK before \in Seq(Place), step \in Seq(Place), left \in Seq(Place) :
                before = To(index - 1) /\ step = Piece(index, now) /\ left = tail
        BY <3>2, <3>5, <3>6
      <4>2. (before \o step) \o left = before \o (step \o left)
        BY ConcatAssociative
      <4>3. QED
        BY <4>1, <4>2
    <3>8. To(index) = accepted' \o tail
      BY <2>1, <3>2, <3>5, <3>7
    <3>9. Begins(accepted', To(index))
      BY <1>7, <3>2, <3>8, ConcatBegins
    <3>10. QED
      BY <1>7, <3>5, <3>9, BeginsTransitive
  <2>3. QED
    BY <1>1, <1>2, <1>4, <1>5, <1>8, <2>1, <2>2 DEF AcceptedOK, To
<1>12. SentOK'
  <2>1. outcome.bytes_sent + written = Len(accepted) /\ outcome.bytes_sent \in Nat
    BY <1>8, OutcomeFields DEF IInv, SentOK, TypeOK
  <2>2. PICK sent \in Nat : sent = outcome.bytes_sent
    BY <1>3, <2>1
  <2>3. sent + now = Len(accepted) + n
    <3>1. Len(accepted) = sent + had
      BY <1>4, <2>1, <2>2
    <3>2. QED
      BY <1>4, <3>1
  <2>4. QED
    BY <1>1, <1>4, <1>7, <1>8, <2>2, <2>3 DEF SentOK
<1>13. OutcomeOK'
  <2>1. SubmitBehind' <=> SubmitBehind
    BY <1>1, <1>2, <1>8 DEF SubmitBehind
  <2>2. QED
    BY <1>1, <1>8, <2>1 DEF IInv, OutcomeOK
<1>14. DoneOK'
  BY <1>8 DEF DoneOK
<1>15. VerifyOK'
  BY <1>1, <1>8 DEF IInv, VerifyOK
<1>16. EchoOK'
  <2>1. ASSUME NEW p \in 1 .. Len(accepted')
        PROVE  \/ p \in 1 .. Len(accepted) /\ accepted'[p] = accepted[p]
               \/ p > Len(accepted) /\ accepted'[p][1] = index
    BY <1>7
  <2>2. ASSUME NEW p \in 1 .. Len(accepted')
        PROVE  accepted'[p][1] \in 1 .. Len(plan)
    BY <1>3, <2>1 DEF IInv, EchoOK
  <2>3. ASSUME asked, ~verified, NEW p \in 1 .. Len(accepted')
        PROVE  ~plan[accepted'[p][1]].submits
    <3>1. ~plan[index].submits
      BY <1>8, <2>3 DEF IInv, VerifyOK
    <3>2. QED
      BY <2>1, <2>3, <3>1 DEF IInv, EchoOK
  <2>4. ASSUME asked, verified
        PROVE  /\ seen_at \in 0 .. Len(accepted)
               /\ \A p \in seen_at + 1 .. Len(accepted') : plan[accepted'[p][1]].submits
    <3>1. seen_at \in 0 .. Len(accepted)
      BY <1>8, <2>4 DEF IInv, EchoOK
    <3>2. plan[index].submits
      BY <1>8, <2>4 DEF IInv, VerifyOK
    <3>3. ASSUME NEW p \in seen_at + 1 .. Len(accepted') PROVE plan[accepted'[p][1]].submits
      <4>1. p \in 1 .. Len(accepted') /\ (p <= Len(accepted) => p \in seen_at + 1 .. Len(accepted))
        BY <1>4, <1>7, <3>1
      <4>2. CASE p <= Len(accepted)
        <5>1. plan[accepted[p][1]].submits
          BY <1>8, <2>4, <4>1, <4>2 DEF IInv, EchoOK
        <5>2. QED
          BY <1>7, <4>1, <4>2, <5>1
      <4>3. CASE ~(p <= Len(accepted))
        <5>1. accepted'[p] = <<index, had + (p - Len(accepted))>>
          BY <1>7, <4>1, <4>3
        <5>2. QED
          BY <3>2, <5>1
      <4>4. QED
        BY <4>2, <4>3
    <3>4. QED
      BY <3>1, <3>3
  <2>5. DOMAIN accepted = 1 .. Len(accepted) /\ DOMAIN accepted' = 1 .. Len(accepted')
    BY <1>7
  <2>6. ASSUME asked, NEW p \in 1 .. Len(accepted'), plan[accepted'[p][1]].submits
        PROVE  seen_at >= 0 /\ seen_at < p /\ \A r \in seen_at + 1 .. p : plan[accepted'[r][1]].submits
    <3>1. verified
      BY <2>3, <2>6
    <3>2. seen_at \in 0 .. Len(accepted)
      BY <2>4, <2>6, <3>1
    <3>3. seen_at < p
      <4>1. CASE p <= Len(accepted)
        <5>1. p \in 1 .. Len(accepted) /\ accepted'[p] = accepted[p]
          BY <1>7, <4>1
        <5>2. QED
          BY <2>5, <2>6, <5>1 DEF IInv, EchoOK, SubmitOnlyAfterEcho
      <4>2. CASE ~(p <= Len(accepted))
        BY <1>7, <3>2, <4>2
      <4>3. QED
        BY <4>1, <4>2
    <3>4. ASSUME NEW r \in seen_at + 1 .. p PROVE plan[accepted'[r][1]].submits
      <4>1. r \in seen_at + 1 .. Len(accepted')
        BY <1>4, <1>7, <3>2
      <4>2. QED
        BY <2>4, <2>6, <3>1, <4>1
    <3>5. QED
      BY <3>2, <3>3, <3>4
  <2>7. SubmitOnlyAfterEcho'
    BY <1>1, <2>5, <2>6 DEF SubmitOnlyAfterEcho
  <2>8. ASSUME asked, verified PROVE seen_at \in 0 .. Len(accepted')
    BY <1>4, <1>7, <2>4, <2>8
  <2>9. QED
    BY <1>1, <2>2, <2>3, <2>4, <2>7, <2>8 DEF EchoOK
<1>17. QED
  BY <1>2, <1>9, <1>10, <1>11, <1>12, <1>13, <1>14, <1>15, <1>16 DEF IInv

LEMMA RetryKeeps ==
    ASSUME IInv, Retry \/ Sleeps \/ UNCHANGED vars
    PROVE  IInv'
<1>1. /\ plan' = plan /\ asked' = asked /\ at' = at /\ index' = index /\ verified' = verified
      /\ written' = written /\ outcome' = outcome /\ ended' = ended
      /\ accepted' = accepted /\ seen_at' = seen_at
  BY DEF Retry, Sleeps, vars, call
<1>2. PlanOK' /\ Pieces' = Pieces /\ Planned' = Planned /\ Submits' = Submits
  BY <1>1, SamePlan DEF IInv
<1>3. TypeOK' /\ IndexOK' /\ SentOK' /\ VerifyOK'
  BY <1>1 DEF IInv, TypeOK, IndexOK, SentOK, VerifyOK, Writing
<1>4. AcceptedOK'
  BY <1>1, <1>2 DEF IInv, AcceptedOK, Writing, To
<1>5. OutcomeOK' /\ DoneOK'
  BY <1>1, <1>2 DEF IInv, OutcomeOK, DoneOK, SubmitBehind, IsSuccess
<1>6. EchoOK'
  BY <1>1, EchoKept DEF IInv, Writing
<1>7. QED
  BY <1>2, <1>3, <1>4, <1>5, <1>6 DEF IInv

LEMMA WriteFailsKeeps ==
    ASSUME IInv, WriteFails
    PROVE  IInv'
<1>1. /\ Writing /\ at' = "done" /\ plan' = plan /\ asked' = asked /\ index' = index
      /\ verified' = verified /\ written' = written /\ ended' = ended
      /\ accepted' = accepted /\ seen_at' = seen_at
      /\ outcome' = [outcome EXCEPT !.bytes_sent = @ + written, !.errors = @ \cup {"Write"}]
  BY DEF WriteFails, Goes, Writing
<1>2. PlanOK' /\ Pieces' = Pieces /\ Planned' = Planned /\ Submits' = Submits
  BY <1>1, SamePlan DEF IInv
<1>3. /\ outcome.bytes_sent \in Nat /\ outcome.errors = {} /\ written \in Nat
      /\ outcome' \in OutcomeType /\ outcome'.bytes_sent = outcome.bytes_sent + written
      /\ outcome'.errors = {"Write"} /\ outcome'.submitted = outcome.submitted
  <2>1. outcome \in OutcomeType /\ written \in Nat
    BY DEF IInv, TypeOK
  <2>2. outcome.errors = {}
    BY <1>1 DEF IInv, OutcomeOK, Writing
  <2>3. outcome.bytes_sent \in Nat
    BY <2>1, OutcomeFields
  <2>4. PICK sent \in Nat : sent = outcome.bytes_sent + written
    BY <2>1, <2>3
  <2>5. PICK errors \in SUBSET {"ChildExited", "Write", "VerificationFailed"} :
            errors = outcome.errors \cup {"Write"} /\ errors = {"Write"}
    BY <2>2
  <2>6. outcome' = [outcome EXCEPT !.bytes_sent = sent, !.errors = errors]
    BY <1>1, <2>4, <2>5
  <2>7. /\ outcome' \in OutcomeType /\ outcome'.bytes_sent = sent /\ outcome'.errors = errors
        /\ outcome'.submitted = outcome.submitted
    BY <2>1, <2>6 DEF OutcomeType
  <2>8. QED
    BY <2>1, <2>2, <2>3, <2>4, <2>5, <2>7
<1>4. TypeOK'
  BY <1>1, <1>3 DEF IInv, TypeOK
<1>5. IndexOK' /\ ~Writing'
  BY <1>1 DEF IndexOK, Writing
<1>6. AcceptedOK'
  BY <1>1, <1>2, <1>5 DEF IInv, AcceptedOK
<1>7. SentOK'
  <2>1. outcome.bytes_sent + written = Len(accepted)
    BY <1>1 DEF IInv, SentOK
  <2>2. Len(accepted) \in Nat
    BY DEF IInv, TypeOK
  <2>3. PICK sent \in Nat : sent = Len(accepted) /\ outcome'.bytes_sent = sent
    BY <1>3, <2>1, <2>2
  <2>4. QED
    BY <1>1, <1>5, <2>3 DEF SentOK
<1>8. OutcomeOK'
  BY <1>1 DEF OutcomeOK
<1>9. DoneOK'
  <2>1. ~outcome.submitted
    <3>1. ~SubmitBehind
      BY <1>1, PlanLength DEF IInv, IndexOK, SubmitBehind, Writing
    <3>2. QED
      BY <1>1, <3>1 DEF IInv, OutcomeOK, Writing
  <2>2. QED
    BY <1>3, <2>1 DEF DoneOK, IsSuccess
<1>10. VerifyOK'
  BY <1>1, <1>5 DEF VerifyOK
<1>11. EchoOK'
  BY <1>1, <1>5, EchoKept DEF IInv
<1>12. QED
  BY <1>2, <1>4, <1>5, <1>6, <1>7, <1>8, <1>9, <1>10, <1>11 DEF IInv

LEMMA FlushedKeeps ==
    ASSUME IInv, Flushed
    PROVE  IInv'
<1>1. /\ at = "flush" /\ at' = "after" /\ plan' = plan /\ asked' = asked /\ index' = index
      /\ verified' = verified /\ written' = written /\ ended' = ended
      /\ accepted' = accepted /\ seen_at' = seen_at
      /\ outcome' = [outcome EXCEPT !.bytes_sent = @ + written,
                                    !.submitted = @ \/ plan[index].submits]
  BY DEF Flushed, Goes
<1>2. PlanOK' /\ Pieces' = Pieces /\ Planned' = Planned /\ Submits' = Submits
  BY <1>1, SamePlan DEF IInv
<1>3. /\ Writing /\ ~Writing' /\ Len(plan) \in Nat /\ index \in 1 .. Len(plan)
      /\ plan[index].bytes \in Nat /\ plan[index].submits \in BOOLEAN
  <2>1. Writing /\ ~Writing'
    BY <1>1 DEF Writing
  <2>2. QED
    BY <2>1, PlanLength, StepFields DEF IInv, IndexOK
<1>4. /\ outcome.bytes_sent \in Nat /\ outcome.submitted \in BOOLEAN /\ written \in Nat
      /\ outcome' \in OutcomeType /\ outcome'.bytes_sent = outcome.bytes_sent + written
      /\ outcome'.submitted = (outcome.submitted \/ plan[index].submits)
      /\ outcome'.errors = outcome.errors /\ outcome'.timed_out = outcome.timed_out
      /\ outcome'.echoed = outcome.echoed
  <2>1. outcome \in OutcomeType /\ written \in Nat
    BY DEF IInv, TypeOK
  <2>2. outcome.bytes_sent \in Nat /\ outcome.submitted \in BOOLEAN
    BY <2>1, OutcomeFields
  <2>3. PICK submitted \in BOOLEAN : submitted = (outcome.submitted \/ plan[index].submits)
    OBVIOUS
  <2>4. PICK sent \in Nat : sent = outcome.bytes_sent + written
    BY <2>1, <2>2
  <2>5. outcome' = [outcome EXCEPT !.bytes_sent = sent, !.submitted = submitted]
    BY <1>1, <2>3, <2>4
  <2>6. /\ outcome' \in OutcomeType /\ outcome'.bytes_sent = sent /\ outcome'.submitted = submitted
        /\ outcome'.errors = outcome.errors /\ outcome'.timed_out = outcome.timed_out
        /\ outcome'.echoed = outcome.echoed
    BY <2>1, <2>5 DEF OutcomeType
  <2>7. QED
    BY <2>1, <2>2, <2>3, <2>4, <2>6
<1>5. TypeOK'
  BY <1>1, <1>4 DEF IInv, TypeOK
<1>6. IndexOK'
  BY <1>1, <1>3 DEF IndexOK
<1>7. AcceptedOK'
  <2>1. /\ Begins(accepted, Planned) /\ accepted = To(index - 1) \o Piece(index, written)
        /\ written = plan[index].bytes
    BY <1>1, <1>3 DEF IInv, AcceptedOK
  <2>2. accepted = To(index)
    BY <1>3, <2>1, PlannedBytes DEF IInv
  <2>3. QED
    BY <1>1, <1>2, <1>3, <2>1, <2>2 DEF AcceptedOK, To
<1>8. SentOK'
  <2>1. outcome.bytes_sent + written = Len(accepted)
    BY <1>3 DEF IInv, SentOK
  <2>2. Len(accepted) \in Nat
    BY DEF IInv, TypeOK
  <2>3. PICK sent \in Nat : sent = Len(accepted) /\ outcome'.bytes_sent = sent
    BY <1>4, <2>1, <2>2
  <2>4. QED
    BY <1>1, <1>3, <2>3 DEF SentOK
<1>9. OutcomeOK'
  <2>1. ~SubmitBehind
    BY <1>1, <1>3 DEF SubmitBehind
  <2>2. ~outcome.submitted /\ outcome.errors = {} /\ ~outcome.timed_out /\ (verified => outcome.echoed)
    BY <1>1, <2>1 DEF IInv, OutcomeOK
  <2>3. SubmitBehind' <=> plan[index].submits
    <3>1. plan[index].submits => Submits /\ index = Len(plan)
      BY <1>3, PlanLength DEF IInv, PlanOK, Submits
    <3>2. Submits /\ index = Len(plan) => plan[index].submits
      BY <1>3, PlanLength DEF IInv, PlanOK, Submits
    <3>3. SubmitBehind' <=> Submits /\ index = Len(plan)
      BY <1>1, <1>2, <1>3 DEF SubmitBehind
    <3>4. QED
      BY <3>1, <3>2, <3>3
  <2>4. outcome'.submitted <=> plan[index].submits
    BY <1>4, <2>2
  <2>5. QED
    BY <1>1, <1>4, <2>2, <2>3, <2>4 DEF OutcomeOK
<1>10. DoneOK'
  BY <1>1 DEF DoneOK
<1>11. VerifyOK'
  BY <1>1, <1>3 DEF IInv, VerifyOK
<1>12. EchoOK'
  BY <1>1, <1>3, EchoKept DEF IInv
<1>13. QED
  BY <1>2, <1>5, <1>6, <1>7, <1>8, <1>9, <1>10, <1>11, <1>12 DEF IInv

LEMMA MatchesKeeps ==
    ASSUME IInv, Matches
    PROVE  IInv'
<1>1. /\ at = "verify" /\ plan' = plan /\ asked' = asked /\ index' = index
      /\ verified' /\ verified' \in BOOLEAN /\ written' = written /\ accepted' = accepted
      /\ seen_at' = Len(accepted) /\ outcome' = [outcome EXCEPT !.echoed = TRUE]
      /\ at' = IF index > Len(plan) THEN "done" ELSE "write"
  BY DEF Matches, VerifiedGoes, Goes
<1>2. PlanOK' /\ Pieces' = Pieces /\ Planned' = Planned /\ Submits' = Submits
  BY <1>1, SamePlan DEF IInv
<1>3. /\ Len(plan) \in Nat /\ index \in 1 .. Len(plan) + 1
      /\ asked /\ ~verified /\ (index > Len(plan) \/ plan[index].submits)
      /\ written = 0 /\ accepted = To(index - 1)
  BY <1>1, PlanLength DEF IInv, IndexOK, VerifyOK, AcceptedOK
<1>4. \/ index > Len(plan) /\ at' = "done"
      \/ index \in 1 .. Len(plan) /\ index = Len(plan) /\ plan[index].submits /\ at' = "write"
  BY <1>1, <1>3 DEF IInv, PlanOK
<1>5. /\ outcome' \in OutcomeType /\ outcome'.echoed
      /\ outcome'.bytes_sent = outcome.bytes_sent /\ outcome'.submitted = outcome.submitted
      /\ outcome'.errors = outcome.errors /\ outcome'.timed_out = outcome.timed_out
  <2>1. outcome \in OutcomeType
    BY DEF IInv, TypeOK
  <2>2. QED
    BY <1>1, <2>1 DEF OutcomeType
<1>6. accepted \in Seq(Place) /\ Len(accepted) \in Nat
  BY DEF IInv, TypeOK
<1>7. TypeOK'
  <2>1. ended' \in BOOLEAN
    BY DEF IInv, TypeOK, Matches, Poll
  <2>2. at' \in {"done", "write"} /\ seen_at' \in Int
    BY <1>1, <1>6
  <2>3. QED
    BY <1>1, <1>5, <2>1, <2>2 DEF IInv, TypeOK
<1>8. IndexOK'
  BY <1>1, <1>3, <1>4 DEF IndexOK, Writing
<1>9. AcceptedOK'
  <2>1. Begins(accepted, Planned)
    BY DEF IInv, AcceptedOK
  <2>2. To(index - 1) \in Seq(Place)
    <3>1. index - 1 \in 0 .. Len(plan)
      BY <1>3
    <3>2. QED
      BY <3>1, PlannedBytes DEF IInv
  <2>3. accepted = To(index - 1) \o Piece(index, written)
    <3>1. Piece(index, written) = << >>
      BY <1>3, Pieced
    <3>2. To(index - 1) \o << >> = To(index - 1)
      BY <2>2, ConcatEmptySeq
    <3>3. QED
      BY <1>3, <3>1, <3>2
  <2>4. at' = "write" => written <= plan[index].bytes
    <3>1. index \in 1 .. Len(plan) => plan[index].bytes \in Nat
      BY StepFields DEF IInv
    <3>2. QED
      BY <1>3, <1>4, <3>1
  <2>5. at' \in {"done", "write"}
    BY <1>4
  <2>6. QED
    BY <1>1, <1>2, <2>1, <2>3, <2>4, <2>5 DEF AcceptedOK, Writing, To
<1>10. SentOK'
  <2>1. outcome.bytes_sent + 0 = Len(accepted) /\ outcome.bytes_sent \in Nat
    BY <1>1, OutcomeFields DEF IInv, TypeOK, SentOK, Writing
  <2>2. outcome.bytes_sent + 0 = outcome.bytes_sent
    BY <2>1
  <2>3. QED
    BY <1>1, <1>3, <1>5, <2>1, <2>2 DEF SentOK
<1>11. OutcomeOK'
  <2>1. at' = "write" => (SubmitBehind' <=> SubmitBehind)
    BY <1>1, <1>2 DEF SubmitBehind
  <2>2. QED
    BY <1>1, <1>4, <1>5, <2>1 DEF IInv, OutcomeOK
<1>12. DoneOK'
  <2>1. ASSUME at' = "done"
        PROVE  /\ accepted = Planned /\ outcome.submitted = Submits /\ "ChildExited" \notin outcome.errors
    <3>1. index > Len(plan) /\ index - 1 = Len(plan)
      BY <1>3, <1>4, <2>1
    <3>2. accepted = Planned
      BY <1>3, <3>1, PlannedBytes DEF IInv
    <3>3. outcome.errors = {} /\ (outcome.submitted <=> Submits)
      BY <1>1, <3>1 DEF IInv, OutcomeOK, SubmitBehind
    <3>4. outcome.submitted \in BOOLEAN /\ Submits \in BOOLEAN
      BY OutcomeFields DEF IInv, TypeOK, Submits
    <3>5. QED
      BY <3>2, <3>3, <3>4
  <2>2. QED
    BY <1>1, <1>2, <1>5, <2>1 DEF DoneOK, IsSuccess
<1>13. VerifyOK'
  BY <1>1, <1>4 DEF VerifyOK, Writing
<1>14. EchoOK'
  <2>1. DOMAIN accepted = 1 .. Len(accepted)
    BY <1>6
  <2>2. \A p \in 1 .. Len(accepted) : accepted[p][1] \in 1 .. Len(plan)
    BY DEF IInv, EchoOK
  <2>3. \A p \in 1 .. Len(accepted) : ~plan[accepted[p][1]].submits
    BY <1>3 DEF IInv, EchoOK
  <2>4. seen_at' \in 0 .. Len(accepted) /\ seen_at' + 1 .. Len(accepted) = {}
    BY <1>1, <1>6
  <2>5. SubmitOnlyAfterEcho'
    BY <1>1, <2>1, <2>3 DEF SubmitOnlyAfterEcho
  <2>6. QED
    BY <1>1, <2>2, <2>4, <2>5 DEF EchoOK
<1>15. QED
  BY <1>2, <1>7, <1>8, <1>9, <1>10, <1>11, <1>12, <1>13, <1>14 DEF IInv

LEMMA GivesUpKeeps ==
    ASSUME IInv, ChildExits \/ TimesOut
    PROVE  IInv'
<1>1. /\ at = "verify" /\ at' = "done" /\ plan' = plan /\ asked' = asked /\ index' = index
      /\ verified' /\ verified' \in BOOLEAN /\ written' = written /\ accepted' = accepted
      /\ seen_at' = seen_at /\ ~Writing'
  BY DEF ChildExits, TimesOut, GivesUp, Goes, Writing
<1>2. PlanOK' /\ Pieces' = Pieces /\ Planned' = Planned /\ Submits' = Submits
  BY <1>1, SamePlan DEF IInv
<1>3. /\ Len(plan) \in Nat /\ index \in 1 .. Len(plan) + 1 /\ accepted = To(index - 1)
      /\ outcome.errors = {}
  BY <1>1, PlanLength DEF IInv, IndexOK, AcceptedOK, OutcomeOK
<1>4. /\ outcome' \in OutcomeType /\ outcome'.bytes_sent = outcome.bytes_sent
      /\ outcome'.submitted = outcome.submitted /\ outcome'.errors = {"VerificationFailed"}
  <2>1. outcome \in OutcomeType
    BY DEF IInv, TypeOK
  <2>2. CASE ChildExits
    <3>1. PICK changed \in OutcomeType :
              /\ changed = [outcome EXCEPT !.child_exited = TRUE]
              /\ changed.bytes_sent = outcome.bytes_sent /\ changed.submitted = outcome.submitted
              /\ changed.errors = {}
      <4> DEFINE changed == [outcome EXCEPT !.child_exited = TRUE]
      <4>1. /\ changed \in OutcomeType /\ changed.bytes_sent = outcome.bytes_sent
            /\ changed.submitted = outcome.submitted /\ changed.errors = outcome.errors
        BY <2>1 DEF OutcomeType
      <4> HIDE DEF changed
      <4>2. QED
        BY <1>3, <4>1 DEF changed
    <3>2. outcome' = [changed EXCEPT !.errors = @ \cup {"VerificationFailed"}]
      BY <2>2, <3>1 DEF ChildExits, GivesUp
    <3>3. QED
      BY <3>1, <3>2 DEF OutcomeType
  <2>3. CASE TimesOut
    <3>1. PICK changed \in OutcomeType :
              /\ changed = [outcome EXCEPT !.timed_out = TRUE]
              /\ changed.bytes_sent = outcome.bytes_sent /\ changed.submitted = outcome.submitted
              /\ changed.errors = {}
      <4> DEFINE changed == [outcome EXCEPT !.timed_out = TRUE]
      <4>1. /\ changed \in OutcomeType /\ changed.bytes_sent = outcome.bytes_sent
            /\ changed.submitted = outcome.submitted /\ changed.errors = outcome.errors
        BY <2>1 DEF OutcomeType
      <4> HIDE DEF changed
      <4>2. QED
        BY <1>3, <4>1 DEF changed
    <3>2. outcome' = [changed EXCEPT !.errors = @ \cup {"VerificationFailed"}]
      BY <2>3, <3>1 DEF TimesOut, GivesUp
    <3>3. QED
      BY <3>1, <3>2 DEF OutcomeType
  <2>4. QED
    BY <2>2, <2>3
<1>5. TypeOK'
  <2>1. ended' \in BOOLEAN
    BY DEF IInv, TypeOK, ChildExits, TimesOut, Poll
  <2>2. QED
    BY <1>1, <1>4, <2>1 DEF IInv, TypeOK
<1>6. IndexOK'
  BY <1>1 DEF IndexOK
<1>7. AcceptedOK'
  BY <1>1, <1>2 DEF IInv, AcceptedOK
<1>8. SentOK'
  BY <1>1, <1>4 DEF IInv, SentOK, Writing
<1>9. OutcomeOK'
  BY <1>1 DEF OutcomeOK
<1>10. DoneOK'
  <2>1. ASSUME outcome.submitted PROVE Submits /\ accepted = Planned
    <3>1. SubmitBehind
      BY <1>1, <2>1 DEF IInv, OutcomeOK
    <3>2. Submits /\ index - 1 = Len(plan)
      BY <1>1, <1>3, <3>1 DEF SubmitBehind
    <3>3. QED
      BY <1>3, <3>2, PlannedBytes DEF IInv
  <2>2. QED
    BY <1>1, <1>2, <1>4, <2>1 DEF DoneOK, IsSuccess
<1>11. VerifyOK'
  BY <1>1 DEF VerifyOK
<1>12. EchoOK'
  <2>1. \A p \in 1 .. Len(accepted) : accepted[p][1] \in 1 .. Len(plan)
    BY DEF IInv, EchoOK
  <2>2. SubmitOnlyAfterEcho'
    BY <1>1 DEF IInv, EchoOK, SubmitOnlyAfterEcho
  <2>3. QED
    BY <1>1, <2>1, <2>2 DEF EchoOK
<1>13. QED
  BY <1>2, <1>5, <1>6, <1>7, <1>8, <1>9, <1>10, <1>11, <1>12 DEF IInv

LEMMA Inductive ==
    ASSUME IInv, [Next]_vars
    PROVE  IInv'
BY BeginKeeps, BeginStepKeeps, AfterStepKeeps, WriteAcceptsKeeps, RetryKeeps, WriteFailsKeeps,
   FlushedKeeps, MatchesKeeps, GivesUpKeeps DEF Next

LEMMA Invariance == Spec => []IInv
<1>1. Init => IInv
  BY InitInv
<1>2. IInv /\ [Next]_vars => IInv'
  BY Inductive
<1>3. QED
  BY <1>1, <1>2, PTL DEF Spec

-----------------------------------------------------------------------------
(* The theorems. *)

\* Every plan's outcome is the truth: the child is sent a beginning of the
\* plan, through partial writes, retries and errors in any step, bytes_sent
\* says how much, and only a call that has sent it all says submitted or
\* success (send_input_transaction, write_bytes_retrying).
THEOREM OutcomeIsTruth == Spec => []OutcomeTruthful
<1>1. IInv => OutcomeTruthful
  <2>1. SUFFICES ASSUME IInv PROVE OutcomeTruthful
    OBVIOUS
  <2>2. IsPrefix(accepted, Planned)
    BY <2>1, PlannedBytes, BeginsPrefix DEF IInv, TypeOK, AcceptedOK
  <2>3. at = "done" => outcome.bytes_sent = Len(accepted)
    <3>1. at = "done" => outcome.bytes_sent + 0 = Len(accepted)
      BY <2>1 DEF IInv, SentOK, Writing
    <3>2. outcome.bytes_sent \in Nat
      BY <2>1, OutcomeFields DEF IInv, TypeOK
    <3>3. QED
      BY <3>1, <3>2
  <2>4. QED
    BY <2>1, <2>2, <2>3 DEF OutcomeTruthful, IInv, DoneOK
<1>2. QED
  BY <1>1, Invariance, PTL

\* The submit step waits for the screen: however the text is chunked, no byte
\* of Enter is sent before a match made after all the text was out
\* (verify_input_transaction_echo before the first submit step).
THEOREM EchoBeforeSubmit == Spec => []SubmitOnlyAfterEcho
<1>1. IInv => SubmitOnlyAfterEcho
  BY DEF IInv, EchoOK
<1>2. QED
  BY <1>1, Invariance, PTL
=============================================================================
