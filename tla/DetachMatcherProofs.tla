------------------------- MODULE DetachMatcherProofs -------------------------
(***************************************************************************)
(* Proofs about DetachMatcher, for every chord, alphabet and timeout.      *)
(***************************************************************************)
EXTENDS DetachMatcher, SequenceTheorems, WellFoundedInduction, TLAPS

\* Bytes are only fed to a matcher that has not detached.
FeedingInv == feeding => ~detached

\* What is held is how the chord begins.
HeldBeginsChord == \A i \in 1 .. Len(held) : held[i] = Chord[i]

IInv == TypeOK /\ FeedingInv /\ HeldBeginsChord /\ NothingLost

-----------------------------------------------------------------------------
\* Splitting a sequence at any place of it loses nothing.
LEMMA SplitSequence ==
    ASSUME NEW S, NEW s \in Seq(S), NEW k \in 0 .. Len(s)
    PROVE  /\ Without(s, k) \in Seq(S) /\ Suffix(s, k) \in Seq(S)
           /\ Len(Without(s, k)) = Len(s) - k /\ Len(Suffix(s, k)) = k
           /\ Without(s, k) \o Suffix(s, k) = s
<1>1. /\ Len(s) \in Nat /\ Len(s) - k \in 0 .. Len(s)
      /\ (k > 0 => Len(s) - k + 1 \in 1 .. Len(s))
  BY LenProperties
<1>2. Without(s, k) \in Seq(S) /\ Len(Without(s, k)) = Len(s) - k
      /\ \A i \in 1 .. Len(s) - k : Without(s, k)[i] = s[i]
  BY <1>1, SMT DEF Without
<1>3. Suffix(s, k) \in Seq(S) /\ Len(Suffix(s, k)) = k
      /\ \A i \in 1 .. k : Suffix(s, k)[i] = s[Len(s) - k + i]
  BY <1>1, SMT DEF Suffix
<1>4. Len(Without(s, k) \o Suffix(s, k)) = Len(s)
  BY <1>1, <1>2, <1>3
<1>5. \A i \in 1 .. Len(s) : (Without(s, k) \o Suffix(s, k))[i] = s[i]
  <2> SUFFICES ASSUME NEW i \in 1 .. Len(s)
               PROVE  (Without(s, k) \o Suffix(s, k))[i] = s[i]
    OBVIOUS
  <2>1. (Without(s, k) \o Suffix(s, k))[i] =
          IF i <= Len(s) - k THEN Without(s, k)[i] ELSE Suffix(s, k)[i - (Len(s) - k)]
    <3> DEFINE w == Without(s, k)  u == Suffix(s, k)
    <3>1. w \in Seq(S) /\ u \in Seq(S) /\ Len(w) = Len(s) - k /\ Len(u) = k
      BY <1>2, <1>3
    <3> HIDE DEF w, u
    <3>3. i \in 1 .. Len(w) + Len(u)
      BY <1>1, <3>1
    <3>2. (w \o u)[i] = IF i <= Len(w) THEN w[i] ELSE u[i - Len(w)]
      BY <3>1, <3>3, ConcatProperties, Zenon
    <3> QED BY <3>1, <3>2 DEF w, u
  <2>2. CASE i <= Len(s) - k
    BY <1>1, <1>2, <2>1, <2>2
  <2>3. CASE ~ (i <= Len(s) - k)
    <3>1. i - (Len(s) - k) \in 1 .. k /\ Len(s) - k + (i - (Len(s) - k)) = i
      BY <1>1, <2>3
    <3>2. Suffix(s, k)[i - (Len(s) - k)] = s[i]
      BY <1>3, <3>1
    <3>3. ~ (i <= Len(s) - k)
      BY <1>1, <2>3
    <3> QED BY <2>1, <3>2, <3>3
  <2> QED BY <2>2, <2>3
<1> QED
  BY <1>2, <1>3, <1>4, <1>5, SeqEqual, ConcatProperties

\* Where the elements of a suffix are.
LEMMA SuffixAt ==
    ASSUME NEW S, NEW s \in Seq(S), NEW k \in 0 .. Len(s), NEW i \in 1 .. k
    PROVE  Suffix(s, k)[i] = s[Len(s) - k + i]
<1>1. PICK l \in Nat, m \in Nat : l = Len(s) /\ m = l - k + 1 /\ m \in 1 .. l + 1
  <2>1. Len(s) \in Nat
    BY LenProperties
  <2>2. Len(s) - k + 1 \in 1 .. Len(s) + 1
    BY <2>1
  <2>3. QED
    BY <2>1, <2>2
<1>2. \A j \in m .. l : s[j] \in S
  <2>1. \A j \in m .. l : j \in 1 .. Len(s)
    BY <1>1
  <2>2. QED
    BY <2>1, ElementOfSeq
<1>3. i \in 1 .. l - m + 1 /\ m + i - 1 = l - k + i
  BY <1>1
<1>4. m \in Int /\ l \in Int
  BY <1>1
<1>5. SubSeq(s, m, l)[i] = s[m + i - 1]
  BY <1>2, <1>3, <1>4, SubSeqProperties
<1>6. Suffix(s, k) = SubSeq(s, m, l)
  BY <1>1 DEF Suffix
<1>7. QED
  BY <1>1, <1>3, <1>5, <1>6

\* A beginning of the chord, element by element.
LEMMA PrefixAt ==
    ASSUME NEW k \in 0 .. Len(Chord)
    PROVE  /\ Prefix(k) \in Seq(Bytes) /\ Len(Prefix(k)) = k
           /\ \A i \in 1 .. k : Prefix(k)[i] = Chord[i]
<1>1. PICK c \in Nat : c = Len(Chord)
  BY MatcherAssumption, LenProperties
<1>2. \A i \in 1 .. k : Chord[i] \in Bytes
  <2>1. \A i \in 1 .. k : i \in 1 .. Len(Chord)
    BY <1>1
  <2>2. QED
    BY <2>1, MatcherAssumption, ElementOfSeq
<1>3. k \in Nat /\ 1 \in Int /\ k \in Int
  BY <1>1
<1>4. /\ SubSeq(Chord, 1, k) \in Seq(Bytes)
      /\ Len(SubSeq(Chord, 1, k)) = IF 1 <= k THEN k - 1 + 1 ELSE 0
      /\ \A i \in 1 .. k - 1 + 1 : SubSeq(Chord, 1, k)[i] = Chord[1 + i - 1]
  BY <1>2, <1>3, SubSeqProperties
<1>5. (IF 1 <= k THEN k - 1 + 1 ELSE 0) = k /\ k - 1 + 1 = k /\ \A i \in 1 .. k : 1 + i - 1 = i
  BY <1>3
<1>6. Prefix(k) = SubSeq(Chord, 1, k)
  BY DEF Prefix
<1>7. QED
  BY <1>4, <1>5, <1>6

\* A bounded, nonempty set of numbers has a greatest one.
LEMMA Greatest ==
    ASSUME NEW n \in Nat, NEW T \in SUBSET (0 .. n), T # {}
    PROVE  \E k \in T : \A j \in T : j <= k
<1> DEFINE R == {ss \in Nat \X Nat : ss[1] < ss[2]}
           D == {n - k : k \in T}
<1>1. IsWellFoundedOn(R, Nat)
  BY NatLessThanWellFounded DEF OpToRel
<1>2. D \in SUBSET Nat /\ D # {}
  <2>1. \A k \in T : n - k \in Nat
    OBVIOUS
  <2>2. PICK k \in T : TRUE
    OBVIOUS
  <2>3. n - k \in D
    BY <2>2
  <2> QED BY <2>1, <2>3
<1> HIDE DEF R, D
<1>3. PICK x \in D : \A y \in D : ~ (<<y, x>> \in R)
  BY <1>1, <1>2, WFMin, Zenon
<1>4. \A y \in D : x <= y
  <2> SUFFICES ASSUME NEW y \in D PROVE x <= y
    OBVIOUS
  <2>1. x \in Nat /\ y \in Nat
    BY <1>2
  <2>2. y < x => <<y, x>> \in R
    BY <2>1 DEF R
  <2> QED BY <1>3, <2>1, <2>2
<1>5. PICK k \in T : x = n - k
  BY DEF D
<1>6. \A j \in T : n - k <= n - j
  BY <1>4, <1>5 DEF D
<1> QED
  BY <1>5, <1>6

\* The overlap is one: a suffix of s that begins the chord, and no longer one
\* does; it exists since the empty suffix is one.
LEMMA OverlapIsLongest ==
    ASSUME NEW s \in Seq(Bytes)
    PROVE  /\ OverlapLength(s) \in 0 .. Len(s)
           /\ OverlapLength(s) <= Len(Chord)
           /\ Suffix(s, OverlapLength(s)) = Prefix(OverlapLength(s))
           /\ \A j \in OverlapLength(s) + 1 .. Len(s) :
                 j <= Len(Chord) => Suffix(s, j) # Prefix(j)
<1> DEFINE Fits(k) == k <= Len(Chord) /\ Suffix(s, k) = Prefix(k)
           Fitting == {k \in 0 .. Len(s) : Fits(k)}
<1>1. Len(s) \in Nat /\ Len(Chord) \in Nat
  BY MatcherAssumption
<1>2. 0 \in Fitting
  <2>1. Suffix(s, 0) = << >> /\ Prefix(0) = << >>
    BY <1>1, MatcherAssumption, SMT DEF Suffix, Prefix
  <2> QED BY <1>1, <2>1
<1>3. PICK k \in Fitting : \A j \in Fitting : j <= k
  <2>1. Fitting \in SUBSET (0 .. Len(s))
    OBVIOUS
  <2> HIDE DEF Fitting
  <2> QED BY <1>1, <1>2, <2>1, Greatest
<1>4. \E m \in 0 .. Len(s) : Fits(m) /\ \A j \in m + 1 .. Len(s) : ~Fits(j)
  BY <1>1, <1>3
<1> QED
  BY <1>4, Zenon DEF OverlapLength

-----------------------------------------------------------------------------
\* A new matcher satisfies the inductive invariant.
LEMMA InitIInv == Init => IInv
<1> SUFFICES ASSUME Init PROVE IInv
  OBVIOUS
<1> QED
  <2>1. << >> \in Seq(Bytes) /\ << >> \in Seq(0 .. Timeout) /\ Len(<< >>) = 0
    OBVIOUS
  <2>2. << >> \o << >> = << >>
    BY <2>1, ConcatEmptySeq, Zenon
  <2>3. TypeOK
    <3>1. held = << >> /\ held_at = << >> /\ typed = << >> /\ typed_at = << >>
          /\ forwarded = << >> /\ window = 0 /\ detached = FALSE /\ feeding = FALSE
      BY DEF Init
    <3>2. 0 \in 0 .. Len(<< >>)
      BY <2>1
    <3> QED BY <2>1, <3>1, <3>2, Zenon DEF TypeOK
  <2>4. NothingLost
    BY <2>2, Zenon DEF Init, NothingLost
  <2>5. FeedingInv /\ HeldBeginsChord
    BY <2>1 DEF Init, FeedingInv, HeldBeginsChord
  <2> QED BY <2>3, <2>4, <2>5 DEF IInv

\* A flushed partial match goes to the child as it is; otherwise nothing moves.
LEMMA FlushStep ==
    ASSUME IInv, ~detached, FlushExpired,
           typed' = typed, detached' = detached, typed_at' = typed_at
    PROVE  /\ NothingLost' /\ HeldBeginsChord'
           /\ held' \in Seq(Bytes) /\ held_at' \in Seq(0 .. Timeout)
           /\ Len(held_at') = Len(held') /\ (held' # << >> => Len(held') < Len(Chord))
           /\ forwarded' \in Seq(Bytes) /\ window' \in 0 .. Len(typed)
<1> USE DEF IInv, TypeOK, NothingLost, HeldBeginsChord
<1>1. CASE Expired
  <2>1. forwarded' = forwarded \o held /\ held' = << >> /\ held_at' = << >>
        /\ window' = Len(typed)
    BY <1>1 DEF FlushExpired
  <2>2. forwarded \o held \in Seq(Bytes)
    BY ConcatProperties
  <2>3. forwarded' \o << >> = forwarded'
    BY <2>1, <2>2, ConcatEmptySeq, Zenon
  <2>4. Len(typed) \in Nat
    OBVIOUS
  <2> QED BY SMTT(30), <2>1, <2>2, <2>3, <2>4
<1>2. CASE ~Expired
  BY <1>2 DEF FlushExpired
<1> QED BY <1>1, <1>2

\* A byte is appended to what was typed; TypeOK of the histories.
LEMMA TypeStep ==
    ASSUME IInv, NEW b \in Bytes, Type(b)
    PROVE  /\ typed' \in Seq(Bytes) /\ typed_at' \in Seq(0 .. Timeout)
           /\ Len(typed_at') = Len(typed')
           /\ window' \in 0 .. Len(typed')
           /\ typed' = Append(typed, b)
BY MatcherAssumption DEF Type, IInv, TypeOK

\* Appending associates with concatenation.
LEMMA AppendToConcat ==
    \A s, t \in Seq(Bytes), e \in Bytes : s \o Append(t, e) = Append(s \o t, e)
BY AppendIsConcat, ConcatAssociative, ConcatProperties

\* ConcatAssociative for sequences of bytes.
LEMMA ConcatThree ==
    \A s, t, u \in Seq(Bytes) : (s \o t) \o u = s \o (t \o u)
BY ConcatAssociative

\* Whatever a byte does, it is forwarded, kept, or completes the chord.
LEMMA ByteStep ==
    ASSUME IInv, ~detached, NEW b \in Bytes, HoldByte(b) \/ Detach(b) \/ Mismatch(b)
    PROVE  IInv'
<1> USE DEF IInv
<1> DEFINE combined == Append(held, b)
<1>0. /\ held \in Seq(Bytes) /\ forwarded \in Seq(Bytes)
      /\ held_at \in Seq(0 .. Timeout) /\ Len(held_at) = Len(held)
      /\ Len(held) \in Nat /\ Len(Chord) \in Nat /\ Timeout \in Nat
      /\ forwarded \o held = typed
  BY MatcherAssumption DEF TypeOK, NothingLost
<1>1. /\ combined \in Seq(Bytes) /\ Len(combined) = Len(held) + 1
      /\ \A i \in 1 .. Len(held) : combined[i] = held[i]
      /\ combined[Len(held) + 1] = b
      /\ forwarded \o combined = Append(typed, b)
  <2>1. forwarded \o combined = Append(typed, b)
    <3>1. forwarded \o Append(held, b) = Append(forwarded \o held, b)
      BY <1>0, AppendToConcat, Zenon
    <3> QED BY <1>0, <3>1
  <2> QED BY <1>0, <2>1, AppendProperties, Zenon
<1>t. Type(b)
  BY DEF HoldByte, Detach, Mismatch
<1> HIDE DEF combined
<1>2. CASE HoldByte(b)
  <2>1. /\ held' = combined /\ held_at' = Append(held_at, 0)
        /\ Len(held) + 1 < Len(Chord)
        /\ UNCHANGED <<detached, feeding, forwarded>>
    BY <1>2 DEF HoldByte, combined
  <2>2. NothingLost'
    BY <1>1, <1>t, <2>1, TypeStep DEF NothingLost
  <2>3. held_at' \in Seq(0 .. Timeout) /\ Len(held_at') = Len(held')
    BY SMTT(30), <1>0, <1>1, <2>1
  <2>4. TypeOK'
    BY <1>0, <1>1, <1>t, <2>1, <2>3, TypeStep DEF TypeOK
  <2>5. HeldBeginsChord'
    <3>1. b = Chord[Len(held) + 1]
      BY <1>2 DEF HoldByte, Continues
    <3>2. ASSUME NEW i \in 1 .. Len(combined) PROVE combined[i] = Chord[i]
      <4>1. i \in 1 .. Len(held) \/ i = Len(held) + 1
        BY SMTT(30), <1>0, <1>1
      <4>2. CASE i \in 1 .. Len(held)
        <5>1. held[i] = Chord[i]
          BY <4>2 DEF HeldBeginsChord
        <5>2. QED
          BY <1>1, <4>2, <5>1
      <4>3. CASE i = Len(held) + 1
        BY <1>1, <3>1, <4>3
      <4>4. QED
        BY <4>1, <4>2, <4>3
    <3>3. HeldBeginsChord' <=> \A i \in 1 .. Len(held') : held'[i] = Chord[i]
      BY Zenon DEF HeldBeginsChord
    <3>4. held' = combined
      BY <2>1
    <3>5. QED
      BY <3>2, <3>3, <3>4, Zenon
  <2> QED BY <2>1, <2>2, <2>4, <2>5 DEF FeedingInv
<1>3. CASE Detach(b)
  <2>1. /\ b = Chord[Len(held) + 1] /\ Len(held) + 1 = Len(Chord)
        /\ held' = << >> /\ held_at' = << >> /\ detached' = TRUE /\ feeding' = FALSE
        /\ forwarded' = forwarded
    BY <1>3 DEF Detach, Continues
  <2>2. combined = Chord
    <3>1. \A i \in 1 .. Len(held) : held[i] = Chord[i]
      BY DEF HeldBeginsChord
    <3>2. \A i \in 1 .. Len(combined) : combined[i] = Chord[i]
      <4> SUFFICES ASSUME NEW i \in 1 .. Len(combined) PROVE combined[i] = Chord[i]
        OBVIOUS
      <4>1. i \in 1 .. Len(held) \/ i = Len(held) + 1
        BY <1>0, <1>1
      <4> QED BY <1>1, <2>1, <3>1, <4>1
    <3> QED BY <1>1, <2>1, <3>2, MatcherAssumption, SeqEqual
  <2>3. NothingLost'
    BY <1>1, <1>t, <2>1, <2>2, TypeStep DEF NothingLost
  <2>4. TypeOK'
    <3>1. /\ held' \in Seq(Bytes) /\ held_at' \in Seq(0 .. Timeout)
          /\ Len(held_at') = Len(held') /\ ~(held' # << >>)
          /\ detached' \in BOOLEAN /\ feeding' \in BOOLEAN /\ forwarded' \in Seq(Bytes)
      <4>1. << >> \in Seq(Bytes) /\ << >> \in Seq(0 .. Timeout) /\ Len(<< >>) = Len(<< >>)
        OBVIOUS
      <4>2. feeding' \in BOOLEAN /\ detached' \in BOOLEAN
        BY <2>1
      <4> QED BY <1>0, <2>1, <4>1, <4>2, Zenon
    <3> QED BY <1>t, <3>1, TypeStep DEF TypeOK
  <2> QED BY <2>1, <2>3, <2>4 DEF FeedingInv, HeldBeginsChord
<1>4. CASE Mismatch(b)
  <2> DEFINE k == OverlapLength(combined)
  <2>1. /\ k \in 0 .. Len(combined) /\ k <= Len(Chord)
        /\ Suffix(combined, k) = Prefix(k)
    BY <1>1, OverlapIsLongest
  <2>2. /\ forwarded' = forwarded \o Without(combined, k)
        /\ held' = Suffix(combined, k) /\ held_at' = Suffix(Append(held_at, 0), k)
        /\ UNCHANGED <<detached, feeding>> /\ ~Continues(b)
    BY <1>4 DEF Mismatch, combined
  <2> HIDE DEF k
  <2>3. /\ Without(combined, k) \in Seq(Bytes) /\ held' \in Seq(Bytes)
        /\ Len(held') = k /\ Without(combined, k) \o held' = combined
    BY <1>1, <2>1, <2>2, SplitSequence
  <2>4. NothingLost'
    <3> DEFINE w == Without(combined, k)
    <3>2. (forwarded \o w) \o held' = forwarded \o (w \o held')
      <4> DEFINE h == held'
      <4>1. w \in Seq(Bytes) /\ h \in Seq(Bytes) /\ forwarded \in Seq(Bytes)
        BY <1>0, <2>3
      <4> HIDE DEF w, h
      <4>2. (forwarded \o w) \o h = forwarded \o (w \o h)
        BY <4>1, ConcatThree
      <4> QED BY <4>2 DEF h
    <3>1. forwarded' \o held' = forwarded \o combined
      BY <2>2, <2>3, <3>2
    <3> QED BY <1>1, <1>t, <2>2, <3>1, TypeStep DEF NothingLost
  <2>5. held_at' \in Seq(0 .. Timeout) /\ Len(held_at') = k
    <3>1. Append(held_at, 0) \in Seq(0 .. Timeout)
          /\ Len(Append(held_at, 0)) = Len(combined)
      BY SMTT(30), <1>0, <1>1
    <3> QED BY <2>1, <2>2, <3>1, SplitSequence
  <2>6. HeldBeginsChord'
    <3>1. \A i \in 1 .. k : Prefix(k)[i] = Chord[i]
      BY <1>0, <2>1, MatcherAssumption DEF Prefix
    <3> QED BY <2>1, <2>2, <2>3, <3>1 DEF HeldBeginsChord
  <2>7. held' # << >> => Len(held') < Len(Chord)
    <3> SUFFICES ASSUME held' # << >>, k = Len(Chord) PROVE FALSE
      BY <1>0, <1>1, <2>1, <2>3
    <3>1. k >= 1 /\ Chord # << >>
      BY SMTT(30), <1>0, <2>1, <2>3, EmptySeq, MatcherAssumption
    <3>2. Len(combined) <= Len(Chord)
      BY SMTT(30), <1>0, <1>1, <3>1 DEF TypeOK
    <3>3. Len(combined) = k
      BY <1>0, <1>1, <2>1, <3>2
    <3>4. Chord[k] = combined[k]
      <4>1. held'[k] = combined[k]
        BY SMTT(30), <1>1, <2>2, <3>1, <3>3 DEF Suffix
      <4> QED BY <2>3, <2>6, <3>1, <3>3, <4>1 DEF HeldBeginsChord
    <3> QED BY <1>1, <2>2, <3>1, <3>3, <3>4 DEF Continues
  <2>8. TypeOK'
    <3>1. forwarded' \in Seq(Bytes)
      BY <1>0, <2>2, <2>3, ConcatProperties, Zenon
    <3> QED BY <1>t, <2>2, <2>3, <2>5, <2>7, <3>1, TypeStep DEF TypeOK
  <2> QED BY <2>2, <2>4, <2>6, <2>8 DEF FeedingInv
<1> QED BY <1>2, <1>3, <1>4

\* Every byte, timeout check and tick keeps it.
LEMMA NextIInv == IInv /\ [Next]_vars => IInv'
<1> SUFFICES ASSUME IInv, [Next]_vars PROVE IInv'
  OBVIOUS
<1> USE DEF IInv
<1>1. CASE BeginFeed
  <2>1. /\ ~detached /\ FlushExpired /\ feeding' = TRUE /\ feeding' \in BOOLEAN
        /\ typed' = typed /\ detached' = detached /\ typed_at' = typed_at
    BY <1>1 DEF BeginFeed
  <2>2. TypeOK' /\ NothingLost' /\ HeldBeginsChord'
    BY <2>1, FlushStep DEF TypeOK
  <2> QED BY <2>1, <2>2 DEF FeedingInv
<1>2. CASE EndFeed
  BY <1>2 DEF EndFeed, TypeOK, FeedingInv, NothingLost, HeldBeginsChord
<1>3. CASE CheckTimeout
  <2>1. /\ ~detached /\ FlushExpired /\ feeding' = feeding
        /\ typed' = typed /\ detached' = detached /\ typed_at' = typed_at
    BY <1>3 DEF CheckTimeout
  <2>2. TypeOK' /\ NothingLost' /\ HeldBeginsChord'
    BY <2>1, FlushStep DEF TypeOK
  <2> QED BY <2>1, <2>2 DEF FeedingInv
<1>4. CASE Tick
  <2>1. ASSUME NEW ages \in Seq(0 .. Timeout)
        PROVE  Aged(ages) \in Seq(0 .. Timeout) /\ Len(Aged(ages)) = Len(ages)
    <3>1. DOMAIN ages = 1 .. Len(ages) /\ Len(ages) \in Nat
          /\ \A i \in 1 .. Len(ages) : ages[i] \in 0 .. Timeout
      BY LenProperties
    <3>2. \A i \in 1 .. Len(ages) :
             (IF ages[i] < Timeout THEN ages[i] + 1 ELSE Timeout) \in 0 .. Timeout
      BY SMTT(30), <3>1, MatcherAssumption
    <3> QED BY <3>1, <3>2 DEF Aged
  <2>2. /\ held_at' = Aged(held_at) /\ typed_at' = Aged(typed_at)
        /\ UNCHANGED <<held, detached, feeding, forwarded, typed, window>>
    BY <1>4 DEF Tick
  <2>3. /\ held_at' \in Seq(0 .. Timeout) /\ Len(held_at') = Len(held_at)
        /\ typed_at' \in Seq(0 .. Timeout) /\ Len(typed_at') = Len(typed_at)
    BY <2>1, <2>2 DEF TypeOK
  <2>4. TypeOK'
    BY <2>2, <2>3 DEF TypeOK
  <2> QED BY <2>2, <2>4 DEF FeedingInv, NothingLost, HeldBeginsChord
<1>5. ASSUME NEW b \in Bytes, HoldByte(b) \/ Detach(b) \/ Mismatch(b)
      PROVE  IInv'
  <2>1. ~detached
    BY <1>5 DEF HoldByte, Detach, Mismatch, Type, FeedingInv
  <2> QED BY <1>5, <2>1, ByteStep
<1>6. CASE UNCHANGED vars
  BY <1>6 DEF vars, TypeOK, FeedingInv, NothingLost, HeldBeginsChord
<1> QED
  BY <1>1, <1>2, <1>3, <1>4, <1>5, <1>6 DEF Next

\* The inductive invariant holds throughout feed_bytes and check_timeout.
THEOREM SafeIInv == Safe => []IInv
BY InitIInv, NextIInv, PTL DEF Safe

\* Whatever the chord, the keyboard and the timing: held bytes and their ages
\* stay aligned, and a complete chord is never left held (the debug
\* assertions of check_timeout).
THEOREM MatcherTypeCorrect == Safe => []TypeOK
BY SafeIInv, PTL DEF IInv

\* Every byte typed while attached is forwarded once and in order, still held,
\* or part of the chord that detached: neither a broken match, nor an overlap,
\* nor a timeout loses, repeats or reorders input.
THEOREM InputPreserved == Safe => []NothingLost
BY SafeIInv, PTL DEF IInv

-----------------------------------------------------------------------------
(* The match is exact, and prompt. *)

\* Of the first n bytes typed the last k begin the chord, and all of these
\* were typed since the last timeout.
Border(k, n) ==
    /\ k <= Len(Chord) /\ k <= n - window
    /\ \A i \in 1 .. k : typed[n - k + i] = Chord[i]

\* What is held is the longest border; the whole chord has been one only if
\* that has just detached.
MatchInv ==
    /\ ~detached => /\ Border(Len(held), Len(typed))
                    /\ \A k \in Nat : k > Len(held) => ~Border(k, Len(typed))
    /\ detached => Chord # << >> /\ Border(Len(Chord), Len(typed))
    /\ Chord # << >> =>
          \A n \in window + 1 .. Len(typed) :
              Border(Len(Chord), n) => detached /\ n = Len(typed)

\* What was typed earlier is no younger; held bytes have the ages at which they
\* were typed; and what a timeout took out of play ends in less than a chord
\* that began with a byte as old as the timeout.
AgeInv ==
    /\ \A i, j \in 1 .. Len(typed) : i <= j => typed_at[i] >= typed_at[j]
    /\ Len(held) <= Len(typed)
    /\ \A i \in 1 .. Len(held) : held_at[i] = typed_at[Len(typed) - Len(held) + i]
    /\ window # 0 =>
          \E q \in 1 .. window : q + Len(Chord) >= window + 2 /\ typed_at[q] >= Timeout

IInvs == IInv /\ MatchInv /\ AgeInv

\* The numbers of the matcher.
LEMMA Lengths ==
    ASSUME IInv
    PROVE  /\ Len(typed) \in Nat /\ Len(held) \in Nat /\ Len(Chord) \in Nat
           /\ window \in 0 .. Len(typed) /\ Len(typed_at) = Len(typed)
           /\ Len(held_at) = Len(held) /\ Timeout \in Nat
           /\ (held # << >> => Len(held) < Len(Chord))
           /\ (held = << >> <=> Len(held) = 0) /\ (Chord = << >> <=> Len(Chord) = 0)
           /\ \A i \in 1 .. Len(typed) : typed_at[i] \in 0 .. Timeout
<1>1. /\ held \in Seq(Bytes) /\ held_at \in Seq(0 .. Timeout) /\ typed \in Seq(Bytes)
      /\ typed_at \in Seq(0 .. Timeout) /\ Chord \in Seq(Bytes)
      /\ Len(typed_at) = Len(typed) /\ Len(held_at) = Len(held)
      /\ window \in 0 .. Len(typed) /\ (held # << >> => Len(held) < Len(Chord))
  BY MatcherAssumption DEF IInv, TypeOK
<1>2. ASSUME NEW i \in 1 .. Len(typed) PROVE typed_at[i] \in 0 .. Timeout
  <2>1. i \in 1 .. Len(typed_at) /\ typed_at \in Seq(0 .. Timeout)
    BY <1>1
  <2>2. QED
    BY <2>1, ElementOfSeq
<1>3. (held = << >> <=> Len(held) = 0) /\ (Chord = << >> <=> Len(Chord) = 0)
  BY <1>1, EmptySeq
<1>4. QED
  BY <1>1, <1>2, <1>3, MatcherAssumption

\* One byte more, of age 0.
LEMMA OneMore ==
    ASSUME IInv, NEW b \in Bytes, Type(b), NEW n \in Nat, n = Len(typed)
    PROVE  /\ Len(typed') = n + 1 /\ window' = window
           /\ typed'[n + 1] = b /\ \A i \in 1 .. n : typed'[i] = typed[i]
           /\ typed_at'[n + 1] = 0 /\ \A i \in 1 .. n : typed_at'[i] = typed_at[i]
<1>1. typed \in Seq(Bytes) /\ typed_at \in Seq(0 .. Timeout) /\ Len(typed_at) = n
  BY DEF IInv, TypeOK
<1>2. typed' = Append(typed, b) /\ typed_at' = Append(typed_at, 0) /\ window' = window
  BY DEF Type
<1>3. /\ Len(typed') = n + 1 /\ typed'[n + 1] = b /\ \A i \in 1 .. n : typed'[i] = typed[i]
  BY <1>1, <1>2
<1>4. typed_at'[n + 1] = 0 /\ \A i \in 1 .. n : typed_at'[i] = typed_at[i]
  BY <1>1, <1>2
<1>5. QED
  BY <1>2, <1>3, <1>4

\* It extends a border when it is the next byte of the chord, and makes no
\* other one; what was typed before has the borders it had.
LEMMA BorderStep ==
    ASSUME IInv, NEW b \in Bytes, Type(b), NEW n \in Nat, n = Len(typed)
    PROVE  /\ \A k \in Nat : Border(k + 1, n + 1)' <=>
                  Border(k, n) /\ k + 1 <= Len(Chord) /\ b = Chord[k + 1]
           /\ Border(0, n + 1)'
           /\ \A k \in Nat, m \in 0 .. n : Border(k, m)' <=> Border(k, m)
<1>1. /\ Len(typed') = n + 1 /\ window' = window /\ window \in 0 .. n
      /\ typed'[n + 1] = b /\ \A i \in 1 .. n : typed'[i] = typed[i]
      /\ Len(Chord) \in Nat
  BY OneMore, Lengths
<1>2. ASSUME NEW k \in Nat
      PROVE  Border(k + 1, n + 1)' <=> Border(k, n) /\ k + 1 <= Len(Chord) /\ b = Chord[k + 1]
  <2>1. k + 1 <= (n + 1) - window' <=> k <= n - window
    BY <1>1
  <2>2. ASSUME k <= n
        PROVE  (\A i \in 1 .. k + 1 : typed'[(n + 1) - (k + 1) + i] = Chord[i])
               <=> (\A i \in 1 .. k : typed[n - k + i] = Chord[i]) /\ b = Chord[k + 1]
    <3>1. ASSUME NEW i \in 1 .. k PROVE typed'[(n + 1) - (k + 1) + i] = typed[n - k + i]
      <4>1. PICK j \in 1 .. n : j = n - k + i /\ j = (n + 1) - (k + 1) + i
        <5>1. n - k + i = (n + 1) - (k + 1) + i
          OBVIOUS
        <5>2. n - k + i \in 1 .. n
          BY <2>2
        <5>3. QED
          BY <5>1, <5>2
      <4>2. QED
        BY <1>1, <4>1
    <3>2. typed'[(n + 1) - (k + 1) + (k + 1)] = b
      <4>1. (n + 1) - (k + 1) + (k + 1) = n + 1
        OBVIOUS
      <4>2. QED
        BY <1>1, <4>1
    <3>3. \A i \in 1 .. k + 1 : i \in 1 .. k \/ i = k + 1
      OBVIOUS
    <3>4. \A i \in 1 .. k : i \in 1 .. k + 1
      OBVIOUS
    <3>5. k + 1 \in 1 .. k + 1
      OBVIOUS
    <3>6. QED
      BY <3>1, <3>2, <3>3, <3>4, <3>5
  <2>3. k <= n - window => k <= n
    BY SMTT(30), <1>1
  <2>4. k + 1 <= Len(Chord) => k <= Len(Chord)
    BY <1>1
  <2>5. QED
    BY <2>1, <2>2, <2>3, <2>4 DEF Border
<1>3. Border(0, n + 1)'
  <2>1. 0 <= Len(Chord) /\ 0 <= (n + 1) - window' /\ 1 .. 0 = {}
    BY <1>1
  <2>2. QED
    BY <2>1 DEF Border
<1>4. ASSUME NEW k \in Nat, NEW m \in 0 .. n PROVE Border(k, m)' <=> Border(k, m)
  <2>1. ASSUME k <= m - window, NEW i \in 1 .. k PROVE typed'[m - k + i] = typed[m - k + i]
    <3>1. m - k + i \in 1 .. n
      BY <1>1, <2>1
    <3>2. QED
      BY <1>1, <3>1
  <2>2. QED
    BY <1>1, <2>1 DEF Border
<1>5. QED
  BY <1>2, <1>3, <1>4

\* What is held is the end of what was typed.
LEMMA HeldAtEnd ==
    ASSUME IInv, MatchInv, ~detached
    PROVE  /\ Len(held) <= Len(typed)
           /\ \A i \in 1 .. Len(held) : held[i] = typed[Len(typed) - Len(held) + i]
<1>1. Border(Len(held), Len(typed))
  BY DEF MatchInv
<1>2. Len(held) <= Len(typed)
  BY <1>1, Lengths DEF Border
<1>3. ASSUME NEW i \in 1 .. Len(held)
      PROVE  held[i] = typed[Len(typed) - Len(held) + i]
  BY <1>1 DEF Border, IInv, HeldBeginsChord
<1>4. QED
  BY <1>2, <1>3

\* A byte that the match can grow by makes the longest border longer by one.
LEMMA HoldMatch ==
    ASSUME IInvs, ~detached, NEW b \in Bytes, HoldByte(b)
    PROVE  MatchInv'
<1>1. PICK n \in Nat, h \in Nat, c \in Nat :
          n = Len(typed) /\ h = Len(held) /\ c = Len(Chord) /\ h + 1 < c
  BY Lengths DEF IInvs, HoldByte
<1>2. /\ Type(b) /\ b = Chord[h + 1] /\ Len(held') = h + 1 /\ ~detached'
  BY <1>1 DEF HoldByte, Continues, IInvs, IInv, TypeOK
<1>3. /\ Len(typed') = n + 1 /\ window' = window /\ window \in 0 .. n
  BY <1>1, <1>2, OneMore, Lengths DEF IInvs
<1>4. /\ \A k \in Nat : Border(k + 1, n + 1)' <=>
            Border(k, n) /\ k + 1 <= c /\ b = Chord[k + 1]
      /\ \A k \in Nat, m \in 0 .. n : Border(k, m)' <=> Border(k, m)
  BY <1>1, <1>2, BorderStep DEF IInvs
<1>5. Border(h, n) /\ \A k \in Nat : k > h => ~Border(k, n)
  BY <1>1 DEF IInvs, MatchInv
<1>6. Border(h + 1, n + 1)'
  <2>1. Border(h + 1, n + 1)' <=> Border(h, n) /\ h + 1 <= c /\ b = Chord[h + 1]
    BY <1>4
  <2>2. h + 1 <= c
    BY <1>1
  <2>3. QED
    BY <1>2, <1>5, <2>1, <2>2
<1>7. ASSUME NEW k \in Nat, k > h + 1 PROVE ~Border(k, n + 1)'
  <2>1. PICK j \in Nat : k = j + 1 /\ j > h
    <3>1. k - 1 \in Nat /\ k = (k - 1) + 1 /\ k - 1 > h
      BY <1>7
    <3>2. QED
      BY <3>1
  <2>2. QED
    BY <1>4, <1>5, <2>1
<1>8. ASSUME NEW m \in window' + 1 .. n + 1 PROVE ~Border(c, m)'
  <2>1. CASE m = n + 1
    BY <1>1, <1>7, <2>1
  <2>2. CASE m # n + 1
    <3>1. m \in 0 .. n /\ m \in window + 1 .. n
      BY <1>3, <2>2
    <3>2. Chord # << >>
      BY <1>1, Lengths DEF IInvs
    <3>3. ~Border(c, m)
      BY <1>1, <3>1, <3>2 DEF IInvs, MatchInv
    <3>4. QED
      BY <1>4, <3>1, <3>3
  <2>3. QED
    BY <2>1, <2>2
<1>9. QED
  BY <1>1, <1>2, <1>3, <1>6, <1>7, <1>8 DEF MatchInv

\* The last byte of the chord makes the whole chord a border, for the first time.
LEMMA DetachMatch ==
    ASSUME IInvs, ~detached, NEW b \in Bytes, Detach(b)
    PROVE  MatchInv'
<1>1. PICK n \in Nat, h \in Nat, c \in Nat :
          n = Len(typed) /\ h = Len(held) /\ c = Len(Chord)
  BY Lengths DEF IInvs
<1>0. c = h + 1
  BY <1>1 DEF Detach
<1>2. Type(b) /\ b = Chord[h + 1] /\ detached' /\ Chord # << >>
  BY <1>1 DEF Detach, Continues
<1>3. Len(typed') = n + 1 /\ window' = window /\ window \in 0 .. n
  BY <1>1, <1>2, OneMore, Lengths DEF IInvs
<1>4. /\ \A k \in Nat : Border(k + 1, n + 1)' <=>
            Border(k, n) /\ k + 1 <= c /\ b = Chord[k + 1]
      /\ \A k \in Nat, m \in 0 .. n : Border(k, m)' <=> Border(k, m)
  BY <1>1, <1>2, BorderStep DEF IInvs
<1>5. Border(h, n)
  BY <1>1 DEF IInvs, MatchInv
<1>6. Border(c, n + 1)'
  <2>1. Border(h + 1, n + 1)' <=> Border(h, n) /\ h + 1 <= c /\ b = Chord[h + 1]
    BY <1>4
  <2>2. h + 1 <= c
    BY <1>0
  <2>3. Border(h + 1, n + 1)'
    BY <1>2, <1>5, <2>1, <2>2
  <2>4. QED
    BY <1>0, <2>3
<1>7. ASSUME NEW m \in window' + 1 .. n + 1, Border(c, m)' PROVE m = n + 1
  <2>1. SUFFICES ASSUME m # n + 1 PROVE FALSE
    OBVIOUS
  <2>2. m \in 0 .. n /\ m \in window + 1 .. n
    BY <1>3, <2>1
  <2>3. ~Border(c, m)
    BY <1>1, <1>2, <2>2 DEF IInvs, MatchInv
  <2>4. QED
    BY <1>4, <1>7, <2>2, <2>3
<1>8. QED
  BY <1>1, <1>2, <1>3, <1>6, <1>7 DEF MatchInv

\* After a mismatch the overlap is the longest border: a longer one would be
\* one of the bytes held, without its last byte, and the overlap is longest.
LEMMA MismatchMatch ==
    ASSUME IInvs, ~detached, NEW b \in Bytes, Mismatch(b), IInv'
    PROVE  MatchInv'
<1>1. PICK n \in Nat, h \in Nat, c \in Nat :
          n = Len(typed) /\ h = Len(held) /\ c = Len(Chord)
  BY Lengths DEF IInvs
<1>2. PICK combined \in Seq(Bytes) :
          /\ combined = Append(held, b) /\ Len(combined) = h + 1
          /\ combined[h + 1] = b /\ \A i \in 1 .. h : combined[i] = held[i]
  <2> DEFINE t == Append(held, b)
  <2>1. /\ t \in Seq(Bytes) /\ Len(t) = Len(held) + 1
        /\ t[Len(held) + 1] = b /\ \A i \in 1 .. Len(held) : t[i] = held[i]
    <3>1. held \in Seq(Bytes)
      BY DEF IInvs, IInv, TypeOK
    <3>2. QED
      BY <3>1, AppendProperties
  <2>2. t = Append(held, b)
    OBVIOUS
  <2> HIDE DEF t
  <2>3. QED
    BY <1>1, <2>1, <2>2
<1>3. PICK o \in Nat :
          /\ o = OverlapLength(combined) /\ o <= h + 1 /\ o <= c
          /\ Suffix(combined, o) = Prefix(o)
          /\ \A j \in o + 1 .. h + 1 : j <= c => Suffix(combined, j) # Prefix(j)
  <2> DEFINE k == OverlapLength(combined)
  <2>1. /\ k \in 0 .. Len(combined) /\ k <= Len(Chord) /\ Suffix(combined, k) = Prefix(k)
        /\ \A j \in k + 1 .. Len(combined) : j <= Len(Chord) => Suffix(combined, j) # Prefix(j)
    BY OverlapIsLongest
  <2>2. k = OverlapLength(combined)
    OBVIOUS
  <2> HIDE DEF k
  <2>3. QED
    BY <1>1, <1>2, <2>1, <2>2
<1>4. Type(b) /\ held' = Suffix(combined, o) /\ ~detached'
  BY <1>2, <1>3 DEF Mismatch, IInvs, IInv, TypeOK
<1>5. Len(held') = o /\ (c # 0 => o < c)
  <2>1. Len(held') = o
    <3>1. o \in 0 .. Len(combined)
      BY <1>2, <1>3
    <3>2. Len(Suffix(combined, o)) = o
      BY <3>1, SplitSequence
    <3>3. QED
      BY <1>4, <3>2
  <2>2. held' \in Seq(Bytes) /\ (held' # << >> => Len(held') < c)
    BY <1>1 DEF IInv, TypeOK
  <2>3. QED
    BY <1>1, <2>1, <2>2, EmptySeq
<1>6. /\ Len(typed') = n + 1 /\ window' = window /\ window \in 0 .. n
      /\ typed'[n + 1] = b /\ \A i \in 1 .. n : typed'[i] = typed[i]
  BY <1>1, <1>4, OneMore, Lengths DEF IInvs
<1>7. /\ \A k \in Nat : Border(k + 1, n + 1)' <=>
            Border(k, n) /\ k + 1 <= c /\ b = Chord[k + 1]
      /\ Border(0, n + 1)'
      /\ \A k \in Nat, m \in 0 .. n : Border(k, m)' <=> Border(k, m)
  BY <1>1, <1>4, BorderStep DEF IInvs
<1>8. Border(h, n) /\ \A k \in Nat : k > h => ~Border(k, n)
  BY <1>1 DEF IInvs, MatchInv
<1>9. h <= n - window /\ h <= n /\ \A i \in 1 .. h : held[i] = typed[n - h + i]
  <2>1. h <= n - window
    BY <1>8 DEF Border
  <2>2. QED
    BY <1>1, <1>6, <2>1, HeldAtEnd DEF IInvs
\* A suffix of what was held, with the byte at hand, is one of what was typed.
<1>10. ASSUME NEW k \in 1 .. h + 1, NEW i \in 1 .. k
       PROVE  combined[h + 1 - k + i] = typed'[n + 1 - k + i]
  <2>1. CASE i = k
    <3>1. h + 1 - k + i = h + 1 /\ n + 1 - k + i = n + 1
      BY <2>1
    <3>2. QED
      BY <1>2, <1>6, <3>1
  <2>2. CASE i # k
    <3>1. PICK j \in 1 .. h : j = h + 1 - k + i
      <4>1. h + 1 - k + i \in 1 .. h
        BY <2>2
      <4>2. QED
        BY <4>1
    <3>2. n - h + j = n + 1 - k + i /\ n - h + j \in 1 .. n
      BY <1>9, <3>1
    <3>3. QED
      BY <1>2, <1>6, <1>9, <3>1, <3>2
  <2>3. QED
    BY <2>1, <2>2
<1>11. ASSUME NEW k \in 1 .. h + 1
       PROVE  /\ Len(Suffix(combined, k)) = k /\ Suffix(combined, k) \in Seq(Bytes)
              /\ \A i \in 1 .. k : Suffix(combined, k)[i] = combined[h + 1 - k + i]
  <2>1. k \in 0 .. Len(combined)
    BY <1>2
  <2>2. Len(Suffix(combined, k)) = k /\ Suffix(combined, k) \in Seq(Bytes)
    BY <2>1, SplitSequence
  <2>3. ASSUME NEW i \in 1 .. k PROVE Suffix(combined, k)[i] = combined[h + 1 - k + i]
    <3>1. Suffix(combined, k)[i] = combined[Len(combined) - k + i]
      BY <2>1, SuffixAt
    <3>2. QED
      BY <1>2, <3>1
  <2>4. QED
    BY <2>2, <2>3
<1>12. ASSUME NEW k \in 1 .. h + 1, k <= c
       PROVE  /\ Len(Prefix(k)) = k /\ Prefix(k) \in Seq(Bytes)
              /\ \A i \in 1 .. k : Prefix(k)[i] = Chord[i]
  <2>1. k \in 0 .. Len(Chord)
    BY <1>1, <1>12
  <2>2. QED
    BY <2>1, PrefixAt
<1>13. Border(o, n + 1)'
  <2>1. CASE o = 0
    BY <1>7, <2>1
  <2>2. CASE o # 0
    <3>1. o \in 1 .. h + 1
      BY <1>3, <2>2
    <3>2. ASSUME NEW i \in 1 .. o PROVE typed'[(n + 1) - o + i] = Chord[i]
      <4>1. combined[h + 1 - o + i] = typed'[n + 1 - o + i]
        BY <1>10, <3>1
      <4>2. Suffix(combined, o)[i] = combined[h + 1 - o + i]
        BY <1>11, <3>1
      <4>3. Prefix(o)[i] = Chord[i]
        <5>1. o <= c
          BY <1>3
        <5>2. QED
          BY <1>12, <3>1, <5>1
      <4>4. Suffix(combined, o) = Prefix(o)
        BY <1>3
      <4>5. QED
        BY <4>1, <4>2, <4>3, <4>4
    <3>3. o <= (n + 1) - window'
      BY <1>3, <1>6, <1>9
    <3>4. o <= Len(Chord)
      BY <1>1, <1>3
    <3>5. QED
      BY <3>2, <3>3, <3>4 DEF Border
  <2>3. QED
    BY <2>1, <2>2
<1>14. ASSUME NEW k \in Nat, k > o PROVE ~Border(k, n + 1)'
  <2>1. SUFFICES ASSUME Border(k, n + 1)' PROVE FALSE
    OBVIOUS
  <2>2. PICK j \in Nat : k = j + 1
    <3>1. k - 1 \in Nat /\ k = (k - 1) + 1
      BY <1>14
    <3>2. QED
      BY <3>1
  <2>3. Border(j, n) /\ k <= c
    <3>1. Border(j + 1, n + 1)' <=> Border(j, n) /\ j + 1 <= c /\ b = Chord[j + 1]
      BY <1>7
    <3>2. QED
      BY <2>1, <2>2, <3>1
  <2>4. k \in 1 .. h + 1 /\ k \in o + 1 .. h + 1
    <3>1. ~(j > h)
      BY <1>8, <2>3
    <3>2. QED
      BY <1>14, <2>2, <3>1
  <2>5. \A i \in 1 .. k : typed'[n + 1 - k + i] = Chord[i]
    BY <2>1 DEF Border
  <2>6. /\ Len(Suffix(combined, k)) = k /\ Suffix(combined, k) \in Seq(Bytes)
        /\ Len(Prefix(k)) = k /\ Prefix(k) \in Seq(Bytes)
    BY <1>11, <1>12, <2>3, <2>4
  <2>7. ASSUME NEW i \in 1 .. k PROVE Suffix(combined, k)[i] = Prefix(k)[i]
    <3>1. combined[h + 1 - k + i] = typed'[n + 1 - k + i]
      BY <1>10, <2>4
    <3>2. Suffix(combined, k)[i] = combined[h + 1 - k + i]
      BY <1>11, <2>4
    <3>3. Prefix(k)[i] = Chord[i]
      BY <1>12, <2>3, <2>4
    <3>4. typed'[n + 1 - k + i] = Chord[i]
      BY <2>5
    <3>5. QED
      BY <3>1, <3>2, <3>3, <3>4
  <2>8. Suffix(combined, k) = Prefix(k)
    BY <2>6, <2>7, SeqEqual
  <2>9. QED
    BY <1>3, <2>3, <2>4, <2>8
<1>15. ASSUME Chord # << >>, NEW m \in window' + 1 .. n + 1 PROVE ~Border(c, m)'
  <2>1. c > o /\ c \in Nat
    BY <1>1, <1>5, <1>15, Lengths DEF IInvs
  <2>2. CASE m = n + 1
    BY <1>14, <2>1, <2>2
  <2>3. CASE m # n + 1
    <3>1. m \in 0 .. n /\ m \in window + 1 .. n
      BY <1>6, <2>3
    <3>2. ~Border(c, m)
      BY <1>1, <1>15, <3>1 DEF IInvs, MatchInv
    <3>3. QED
      BY <1>7, <3>1, <3>2
  <2>4. QED
    BY <2>2, <2>3
<1>16. QED
  BY <1>1, <1>4, <1>5, <1>6, <1>13, <1>14, <1>15 DEF MatchInv

\* A byte is held at age 0, and one that stays held keeps its age.
LEMMA ByteAges ==
    ASSUME IInvs, ~detached, NEW b \in Bytes, HoldByte(b) \/ Detach(b) \/ Mismatch(b), IInv'
    PROVE  AgeInv'
<1>1. PICK n \in Nat, h \in Nat, ages \in Seq(0 .. Timeout) :
          /\ n = Len(typed) /\ h = Len(held) /\ h <= n
          /\ ages = Append(held_at, 0) /\ Len(ages) = h + 1
          /\ ages[h + 1] = 0 /\ \A i \in 1 .. h : ages[i] = held_at[i]
  <2>1. /\ held_at \in Seq(0 .. Timeout) /\ 0 \in 0 .. Timeout
        /\ Len(typed) \in Nat /\ Len(held) \in Nat /\ Len(held_at) = Len(held)
    BY Lengths DEF IInvs, IInv, TypeOK
  <2> DEFINE t == Append(held_at, 0)
  <2>2. /\ t \in Seq(0 .. Timeout) /\ Len(t) = Len(held_at) + 1
        /\ t[Len(held_at) + 1] = 0 /\ \A i \in 1 .. Len(held_at) : t[i] = held_at[i]
    BY <2>1, AppendProperties
  <2>3. t = Append(held_at, 0)
    OBVIOUS
  <2>4. Len(held) <= Len(typed)
    BY DEF IInvs, AgeInv
  <2> HIDE DEF t
  <2>5. QED
    BY <2>1, <2>2, <2>3, <2>4
<1>2. Type(b)
  BY DEF HoldByte, Detach, Mismatch
<1>3. /\ Len(typed') = n + 1 /\ window' = window /\ window \in 0 .. n
      /\ typed_at'[n + 1] = 0 /\ \A i \in 1 .. n : typed_at'[i] = typed_at[i]
  BY <1>1, <1>2, OneMore, Lengths DEF IInvs
<1>4. \A i \in 1 .. n : typed_at[i] \in 0 .. Timeout
  BY <1>1, Lengths DEF IInvs
<1>5. Timeout \in Nat
  BY MatcherAssumption
<1>6. ASSUME NEW i \in 1 .. n + 1, NEW j \in 1 .. n + 1, i <= j
      PROVE  typed_at'[i] >= typed_at'[j]
  <2>1. CASE j = n + 1
    <3>1. i \in 1 .. n \/ i = n + 1
      OBVIOUS
    <3>2. typed_at'[j] = 0
      BY <1>3, <2>1
    <3>3. typed_at'[i] \in Nat
      BY SMTT(30), <1>3, <1>4, <1>5, <3>1
    <3>4. QED
      BY <3>2, <3>3
  <2>2. CASE j # n + 1
    <3>1. i \in 1 .. n /\ j \in 1 .. n
      BY <1>6, <2>2
    <3>2. typed_at[i] >= typed_at[j]
      BY <1>1, <1>6, <3>1 DEF IInvs, AgeInv
    <3>3. QED
      BY <1>3, <3>1, <3>2
  <2>3. QED
    BY <2>1, <2>2
\* The ages of the held bytes and of the one at hand.
<1>7. ASSUME NEW i \in 1 .. h + 1 PROVE ages[i] = typed_at'[n - h + i]
  <2>1. CASE i = h + 1
    <3>1. n - h + i = n + 1
      BY <1>1, <2>1
    <3>2. QED
      BY <1>1, <1>3, <2>1, <3>1
  <2>2. CASE i # h + 1
    <3>1. i \in 1 .. h
      BY <2>2
    <3>2. n - h + i \in 1 .. n
      BY <1>1, <3>1
    <3>3. held_at[i] = typed_at[n - h + i]
      BY <1>1, <3>1 DEF IInvs, AgeInv
    <3>4. QED
      BY <1>1, <1>3, <3>1, <3>2, <3>3
  <2>3. QED
    BY <2>1, <2>2
<1>8. /\ Len(held') <= n + 1
      /\ \A i \in 1 .. Len(held') : held_at'[i] = typed_at'[(n + 1) - Len(held') + i]
  <2>1. CASE HoldByte(b)
    <3>1. Len(held') = h + 1 /\ held_at' = ages
      BY <1>1, <2>1 DEF HoldByte, IInvs, IInv, TypeOK
    <3>2. (n + 1) - (h + 1) = n - h
      BY <1>1
    <3>3. \A i \in 1 .. h + 1 : held_at'[i] = typed_at'[(n + 1) - (h + 1) + i]
      BY <1>7, <3>1, <3>2
    <3>4. h + 1 <= n + 1
      BY <1>1
    <3>5. QED
      BY <3>1, <3>3, <3>4
  <2>2. CASE Detach(b)
    <3>1. held' = << >> /\ Len(<< >>) = 0
      BY <2>2 DEF Detach
    <3>2. QED
      BY <1>1, <3>1
  <2>3. CASE Mismatch(b)
    <3>1. PICK o \in Nat : o <= h + 1 /\ held_at' = Suffix(ages, o) /\ Len(held') = o
      <4> DEFINE combined == Append(held, b)
                 k == OverlapLength(combined)
      <4>1. combined \in Seq(Bytes) /\ Len(combined) = h + 1
        BY <1>1 DEF IInvs, IInv, TypeOK
      <4>2. held' = Suffix(combined, k) /\ held_at' = Suffix(ages, k)
        BY <1>1, <2>3 DEF Mismatch
      <4> HIDE DEF combined
      <4>3. k \in 0 .. Len(combined)
        BY <4>1, OverlapIsLongest
      <4> HIDE DEF k
      <4>4. Len(held') = k
        <5>1. Len(Suffix(combined, k)) = k
          BY <4>1, <4>3, SplitSequence
        <5>2. QED
          BY <4>2, <5>1
      <4>5. k \in Nat /\ k <= h + 1
        BY <1>1, <4>1, <4>3
      <4>6. QED
        BY <4>2, <4>4, <4>5
    <3>2. ASSUME NEW i \in 1 .. o PROVE held_at'[i] = typed_at'[(n + 1) - o + i]
      <4>1. PICK j \in 1 .. h + 1 : j = h + 1 - o + i /\ n - h + j = (n + 1) - o + i
        <5>1. h + 1 - o + i \in 1 .. h + 1 /\ n - h + (h + 1 - o + i) = (n + 1) - o + i
          BY <1>1, <3>1
        <5>2. QED
          BY <5>1
      <4>2. Suffix(ages, o)[i] = ages[j]
        <5>1. o \in 0 .. Len(ages) /\ Len(ages) \in Nat /\ Len(ages) - o + i = j
          BY SMTT(30), <1>1, <3>1, <4>1
        <5>2. Suffix(ages, o)[i] = ages[Len(ages) - o + i]
          BY <5>1, SuffixAt
        <5>3. QED
          BY <5>1, <5>2
      <4>3. QED
        BY <1>7, <3>1, <4>1, <4>2
    <3>3. o <= n + 1
      BY <1>1, <3>1
    <3>4. QED
      BY <3>1, <3>2, <3>3
  <2>4. QED
    BY <2>1, <2>2, <2>3
<1>9. ASSUME window' # 0
      PROVE  \E q \in 1 .. window' : q + Len(Chord) >= window' + 2 /\ typed_at'[q] >= Timeout
  <2>1. PICK q \in 1 .. window : q + Len(Chord) >= window + 2 /\ typed_at[q] >= Timeout
    BY <1>3, <1>9 DEF IInvs, AgeInv
  <2>2. typed_at'[q] = typed_at[q]
    BY <1>3, <2>1
  <2>3. QED
    BY <1>3, <2>1, <2>2
<1>10. QED
  BY <1>3, <1>6, <1>8, <1>9 DEF AgeInv

\* A timeout takes what was typed out of play; the oldest held byte is as old
\* as the timeout, and fewer bytes are held than the chord has.
LEMMA FlushMatch ==
    ASSUME IInvs, ~detached, ~detached', FlushExpired, typed' = typed, typed_at' = typed_at
    PROVE  MatchInv' /\ AgeInv'
<1>1. PICK n \in Nat, h \in Nat :
          n = Len(typed) /\ h = Len(held) /\ h <= n /\ n = Len(typed')
  <2>1. Len(held) <= Len(typed)
    BY DEF IInvs, AgeInv
  <2>2. QED
    BY <2>1, Lengths DEF IInvs
<1>2. CASE Expired
  <2>1. held' = << >> /\ Len(held') = 0 /\ window' = n
    BY <1>1, <1>2 DEF FlushExpired
  <2>2. h # 0 /\ h < Len(Chord) /\ Len(Chord) \in Nat /\ held_at[1] >= Timeout
    BY <1>1, <1>2, Lengths DEF Expired, IInvs
  <2>3. \A k \in Nat : Border(k, n)' => k = 0
    BY <1>1, <2>1 DEF Border
  <2>4. Border(0, n)'
    BY <1>1, <2>1, <2>2 DEF Border
  <2>5. MatchInv'
    <3>1. \A k \in Nat : k > 0 => ~Border(k, n)'
      BY <2>3
    <3>2. window' + 1 .. n = {}
      BY <1>1, <2>1
    <3>3. QED
      BY <1>1, <2>1, <2>4, <3>1, <3>2 DEF MatchInv
  <2>6. PICK q \in 1 .. n : q = n - h + 1
    <3>1. n - h + 1 \in 1 .. n
      BY <1>1, <2>2
    <3>2. QED
      BY <3>1
  <2>7. typed_at[q] >= Timeout /\ q + Len(Chord) >= n + 2
    <3>1. 1 \in 1 .. h
      BY <2>2
    <3>2. held_at[1] = typed_at[n - h + 1]
      BY <1>1, <3>1 DEF IInvs, AgeInv
    <3>3. q + Len(Chord) >= n + 2
      BY <1>1, <2>2, <2>6
    <3>4. QED
      BY <2>2, <2>6, <3>2, <3>3
  <2>8. AgeInv'
    <3>1. \A i, j \in 1 .. n : i <= j => typed_at[i] >= typed_at[j]
      BY <1>1 DEF IInvs, AgeInv
    <3>2. \E r \in 1 .. n : r + Len(Chord) >= n + 2 /\ typed_at[r] >= Timeout
      BY <2>7
    <3>3. 0 <= n /\ 1 .. 0 = {}
      BY <1>1
    <3>4. QED
      BY <1>1, <2>1, <3>1, <3>2, <3>3 DEF AgeInv
  <2>9. QED
    BY <2>5, <2>8
<1>3. CASE ~Expired
  <2>1. held' = held /\ held_at' = held_at /\ window' = window
    BY <1>3 DEF FlushExpired
  <2>2. MatchInv'
    BY <2>1 DEF IInvs, MatchInv, Border
  <2>3. AgeInv'
    BY <2>1 DEF IInvs, AgeInv
  <2>4. QED
    BY <2>2, <2>3
<1>4. QED
  BY <1>2, <1>3

\* All ages grow alike, up to the timeout.
LEMMA TickMatch ==
    ASSUME IInvs, Tick
    PROVE  MatchInv' /\ AgeInv'
<1>1. PICK n \in Nat, h \in Nat :
          n = Len(typed) /\ h = Len(held) /\ h <= n /\ n = Len(typed') /\ h = Len(held')
  <2>1. Len(held) <= Len(typed)
    BY DEF IInvs, AgeInv
  <2>2. QED
    BY <2>1, Lengths DEF IInvs, Tick
<1>2. /\ held' = held /\ typed' = typed /\ window' = window /\ detached' = detached
      /\ held_at' = Aged(held_at) /\ typed_at' = Aged(typed_at)
  BY DEF Tick
<1>3. MatchInv'
  BY <1>2 DEF IInvs, MatchInv, Border
<1>4. Timeout \in Nat /\ \A i \in 1 .. n : typed_at[i] \in 0 .. Timeout
  BY <1>1, Lengths DEF IInvs
<1> DEFINE Older(age) == IF age < Timeout THEN age + 1 ELSE Timeout
<1>5. \A i \in 1 .. n : typed_at'[i] = Older(typed_at[i])
  <2>1. typed_at \in Seq(0 .. Timeout) /\ Len(typed_at) = n
    BY <1>1, Lengths DEF IInvs, IInv, TypeOK
  <2>2. DOMAIN typed_at = 1 .. n
    BY <2>1
  <2>3. QED
    BY <1>2, <2>2 DEF Aged
<1>6. \A i \in 1 .. h : held_at'[i] = Older(held_at[i])
  <2>1. held_at \in Seq(0 .. Timeout) /\ Len(held_at) = h
    BY <1>1, Lengths DEF IInvs, IInv, TypeOK
  <2>2. DOMAIN held_at = 1 .. h
    BY <2>1
  <2>3. QED
    BY <1>2, <2>2 DEF Aged
<1>7. ASSUME NEW i \in 1 .. n, NEW j \in 1 .. n, i <= j PROVE typed_at'[i] >= typed_at'[j]
  <2>1. PICK old \in 0 .. Timeout, young \in 0 .. Timeout :
            old = typed_at[i] /\ young = typed_at[j] /\ old >= young
    BY <1>1, <1>4, <1>7 DEF IInvs, AgeInv
  <2>2. Older(old) >= Older(young)
    BY <1>4, <2>1
  <2>3. QED
    BY <1>5, <2>1, <2>2
<1>8. ASSUME NEW i \in 1 .. h PROVE held_at'[i] = typed_at'[n - h + i]
  <2>1. n - h + i \in 1 .. n
    BY <1>1
  <2>2. held_at[i] = typed_at[n - h + i]
    BY <1>1 DEF IInvs, AgeInv
  <2>3. QED
    BY <1>5, <1>6, <2>1, <2>2
<1>9. ASSUME window # 0
      PROVE  \E q \in 1 .. window : q + Len(Chord) >= window + 2 /\ typed_at'[q] >= Timeout
  <2>1. PICK q \in 1 .. window : q + Len(Chord) >= window + 2 /\ typed_at[q] >= Timeout
    BY <1>9 DEF IInvs, AgeInv
  <2>2. q \in 1 .. n
    BY <1>1, Lengths DEF IInvs
  <2>3. typed_at'[q] >= Timeout
    <3>1. PICK age \in 0 .. Timeout : age = typed_at[q] /\ age >= Timeout
      BY <1>4, <2>1, <2>2
    <3>2. Older(age) >= Timeout
      BY <1>4, <3>1
    <3>3. QED
      BY <1>5, <2>2, <3>1, <3>2
  <2>4. QED
    BY <2>1, <2>3
<1>10. AgeInv'
  BY <1>1, <1>2, <1>7, <1>8, <1>9 DEF AgeInv
<1>11. QED
  BY <1>3, <1>10

LEMMA InitIInvs == Init => IInvs
<1>1. SUFFICES ASSUME Init PROVE IInvs
  OBVIOUS
<1>2. IInv
  BY <1>1, InitIInv
<1>3. /\ held = << >> /\ typed = << >> /\ window = 0 /\ ~detached
      /\ Len(<< >>) = 0 /\ Len(Chord) \in Nat
  BY <1>1, MatcherAssumption DEF Init
<1>4. MatchInv
  <2>1. Border(0, 0) /\ \A k \in Nat : k > 0 => ~Border(k, 0)
    BY <1>3 DEF Border
  <2>2. QED
    BY <1>3, <2>1 DEF MatchInv
<1>5. AgeInv
  BY <1>3 DEF AgeInv
<1>6. QED
  BY <1>2, <1>4, <1>5 DEF IInvs

LEMMA NextIInvs == IInvs /\ [Next]_vars => IInvs'
<1> SUFFICES ASSUME IInvs, [Next]_vars PROVE IInvs'
  OBVIOUS
<1>0. IInv'
  BY NextIInv DEF IInvs
<1>1. CASE BeginFeed \/ CheckTimeout
  <2>1. ~detached /\ ~detached' /\ FlushExpired /\ typed' = typed /\ typed_at' = typed_at
    BY <1>1 DEF BeginFeed, CheckTimeout
  <2>2. QED
    BY <1>0, <2>1, FlushMatch DEF IInvs
<1>2. CASE Tick
  BY <1>0, <1>2, TickMatch DEF IInvs
<1>3. CASE EndFeed \/ UNCHANGED vars
  <2>1. /\ held' = held /\ held_at' = held_at /\ detached' = detached
        /\ typed' = typed /\ typed_at' = typed_at /\ window' = window
    BY <1>3 DEF EndFeed, vars
  <2>2. MatchInv' /\ AgeInv'
    BY <2>1 DEF IInvs, MatchInv, AgeInv, Border
  <2>3. QED
    BY <1>0, <2>2 DEF IInvs
<1>4. ASSUME NEW b \in Bytes, HoldByte(b) \/ Detach(b) \/ Mismatch(b)
      PROVE  IInvs'
  <2>1. ~detached
    BY <1>4 DEF HoldByte, Detach, Mismatch, Type, FeedingInv, IInvs, IInv
  <2>2. MatchInv'
    BY <1>0, <1>4, <2>1, HoldMatch, DetachMatch, MismatchMatch
  <2>3. AgeInv'
    BY <1>0, <1>4, <2>1, ByteAges
  <2>4. QED
    BY <1>0, <2>2, <2>3 DEF IInvs
<1>5. QED
  BY <1>1, <1>2, <1>3, <1>4 DEF Next

LEMMA SafeIInvs == Safe => []IInvs
BY InitIInvs, NextIInvs, PTL DEF Safe

\* A sequence of bytes ends in the chord where the chord is a border of it.
LEMMA ChordAtEnd ==
    ASSUME NEW s \in Seq(Bytes)
    PROVE  EndsInChord(s) <=>
              /\ Chord # << >> /\ Len(Chord) <= Len(s)
              /\ \A i \in 1 .. Len(Chord) : s[Len(s) - Len(Chord) + i] = Chord[i]
<1>1. Len(s) \in Nat /\ Chord \in Seq(Bytes) /\ Len(Chord) \in Nat
  BY MatcherAssumption
<1>2. ASSUME Len(Chord) <= Len(s)
      PROVE  Suffix(s, Len(Chord)) = Chord <=>
                \A i \in 1 .. Len(Chord) : s[Len(s) - Len(Chord) + i] = Chord[i]
  <2>1. PICK c \in 0 .. Len(s) : c = Len(Chord)
    BY <1>1, <1>2
  <2>2. Suffix(s, c) \in Seq(Bytes) /\ Len(Suffix(s, c)) = c
    BY SplitSequence
  <2>3. ASSUME NEW i \in 1 .. c PROVE Suffix(s, c)[i] = s[Len(s) - c + i]
    BY SuffixAt
  <2>4. (\A i \in 1 .. c : Suffix(s, c)[i] = Chord[i]) => Suffix(s, c) = Chord
    BY <1>1, <2>1, <2>2, SeqEqual
  <2>5. QED
    BY <2>1, <2>3, <2>4
<1>3. QED
  BY <1>2 DEF EndsInChord

\* DetachExact, of the state that satisfies the invariant.
LEMMA Exact == IInvs => DetachExact
<1> SUFFICES ASSUME IInvs PROVE DetachExact
  OBVIOUS
<1>1. PICK n \in Nat, h \in Nat, c \in Nat, w \in Nat :
          n = Len(typed) /\ h = Len(held) /\ c = Len(Chord) /\ w = window /\ w <= n
  BY Lengths DEF IInvs
<1>2. PICK recent \in Seq(Bytes) :
          /\ recent = InPlay /\ Len(recent) = n - w
          /\ \A i \in 1 .. n - w : recent[i] = typed[w + i]
  <2>1. typed \in Seq(Bytes)
    BY DEF IInvs, IInv, TypeOK
  <2>2. /\ SubSeq(typed, w + 1, n) \in Seq(Bytes) /\ Len(SubSeq(typed, w + 1, n)) = n - w
        /\ \A i \in 1 .. n - w : SubSeq(typed, w + 1, n)[i] = typed[w + i]
    BY <1>1, <2>1
  <2>3. InPlay = SubSeq(typed, w + 1, n)
    BY <1>1 DEF InPlay
  <2>4. QED
    BY <2>2, <2>3
<1>3. ASSUME NEW m \in 1 .. n - w
      PROVE  EndsInChord(SubSeq(recent, 1, m)) <=> Chord # << >> /\ Border(c, w + m)
  <2>1. PICK s \in Seq(Bytes) :
            /\ s = SubSeq(recent, 1, m) /\ Len(s) = m
            /\ \A i \in 1 .. m : s[i] = typed[w + i]
    <3>1. /\ SubSeq(recent, 1, m) \in Seq(Bytes) /\ Len(SubSeq(recent, 1, m)) = m
          /\ \A i \in 1 .. m : SubSeq(recent, 1, m)[i] = recent[i]
      BY <1>2
    <3>2. \A i \in 1 .. m : i \in 1 .. n - w
      OBVIOUS
    <3>3. QED
      BY <1>2, <3>1, <3>2
  <2>2. ASSUME c <= m
        PROVE  (\A i \in 1 .. c : s[m - c + i] = Chord[i])
               <=> \A i \in 1 .. c : typed[(w + m) - c + i] = Chord[i]
    <3>1. ASSUME NEW i \in 1 .. c PROVE s[m - c + i] = typed[(w + m) - c + i]
      <4>1. PICK j \in 1 .. m : j = m - c + i /\ w + j = (w + m) - c + i
        <5>1. m - c + i \in 1 .. m /\ w + (m - c + i) = (w + m) - c + i
          BY <2>2
        <5>2. QED
          BY <5>1
      <4>2. QED
        BY <2>1, <4>1
    <3>2. QED
      BY <3>1
  <2>3. c <= m <=> c <= (w + m) - window
    BY <1>1
  <2>4. EndsInChord(s) <=> /\ Chord # << >> /\ c <= m
                           /\ \A i \in 1 .. c : s[m - c + i] = Chord[i]
    BY <1>1, <2>1, ChordAtEnd
  <2>5. Border(c, w + m) <=> /\ c <= m
                             /\ \A i \in 1 .. c : typed[(w + m) - c + i] = Chord[i]
    BY <1>1, <2>3 DEF Border
  <2>6. QED
    BY <2>1, <2>2, <2>4, <2>5
<1>4. ASSUME NEW m \in 1 .. n - w
      PROVE  EndsInChord(SubSeq(recent, 1, m)) <=> detached /\ m = n - w
  <2>1. w + m \in window + 1 .. n /\ (w + m = n <=> m = n - w)
    BY <1>1
  <2>2. ASSUME EndsInChord(SubSeq(recent, 1, m)) PROVE detached /\ m = n - w
    BY <1>1, <1>3, <2>1, <2>2 DEF IInvs, MatchInv
  <2>3. ASSUME detached, m = n - w PROVE EndsInChord(SubSeq(recent, 1, m))
    BY <1>1, <1>3, <2>1, <2>3 DEF IInvs, MatchInv
  <2>4. QED
    BY <2>2, <2>3
<1>5. ASSUME ~detached
      PROVE  /\ h <= n - w
             /\ held = Suffix(recent, h) /\ held = Prefix(h)
             /\ \A k \in h + 1 .. n - w : k <= c => Suffix(recent, k) # Prefix(k)
  <2>1. Border(h, n) /\ \A k \in Nat : k > h => ~Border(k, n)
    BY <1>1, <1>5 DEF IInvs, MatchInv
  <2>2. h <= c /\ h <= n - w /\ \A i \in 1 .. h : typed[n - h + i] = Chord[i]
    BY <1>1, <2>1 DEF Border
  <2>3. ASSUME NEW k \in 0 .. n - w
        PROVE  /\ Suffix(recent, k) \in Seq(Bytes) /\ Len(Suffix(recent, k)) = k
               /\ \A i \in 1 .. k : Suffix(recent, k)[i] = typed[n - k + i]
    <3>1. k \in 0 .. Len(recent)
      BY <1>2
    <3>2. Suffix(recent, k) \in Seq(Bytes) /\ Len(Suffix(recent, k)) = k
      BY <3>1, SplitSequence
    <3>3. ASSUME NEW i \in 1 .. k PROVE Suffix(recent, k)[i] = typed[n - k + i]
      <4>1. Suffix(recent, k)[i] = recent[Len(recent) - k + i]
        BY <3>1, SuffixAt
      <4>2. PICK j \in 1 .. n - w : j = Len(recent) - k + i /\ w + j = n - k + i
        <5>1. /\ (n - w) - k + i \in 1 .. n - w
              /\ w + ((n - w) - k + i) = n - k + i
          BY <1>1
        <5>2. QED
          BY <1>2, <5>1
      <4>3. QED
        BY <1>2, <4>1, <4>2
    <3>4. QED
      BY <3>2, <3>3
  <2>4. ASSUME NEW k \in 0 .. c
        PROVE  /\ Prefix(k) \in Seq(Bytes) /\ Len(Prefix(k)) = k
               /\ \A i \in 1 .. k : Prefix(k)[i] = Chord[i]
    BY <1>1, PrefixAt
  <2>5. held \in Seq(Bytes) /\ Len(held) = h /\ \A i \in 1 .. h : held[i] = Chord[i]
    BY <1>1 DEF IInvs, IInv, TypeOK, HeldBeginsChord
  <2>6. h \in 0 .. c /\ h \in 0 .. n - w
    BY <2>2
  <2>7. held = Prefix(h)
    <3>1. /\ Prefix(h) \in Seq(Bytes) /\ Len(Prefix(h)) = h
          /\ \A i \in 1 .. h : Prefix(h)[i] = Chord[i]
      BY <2>4, <2>6
    <3>2. QED
      BY <2>5, <3>1, SeqEqual
  <2>8. held = Suffix(recent, h)
    <3>1. /\ Suffix(recent, h) \in Seq(Bytes) /\ Len(Suffix(recent, h)) = h
          /\ \A i \in 1 .. h : Suffix(recent, h)[i] = typed[n - h + i]
      BY <2>3, <2>6
    <3>2. QED
      BY <2>2, <2>5, <3>1, SeqEqual
  <2>9. ASSUME NEW k \in h + 1 .. n - w, k <= c, Suffix(recent, k) = Prefix(k) PROVE FALSE
    <3>1. k \in 0 .. c /\ k \in 0 .. n - w /\ k \in Nat /\ k > h
      BY <2>9
    <3>2. \A i \in 1 .. k : typed[n - k + i] = Chord[i]
      <4>1. \A i \in 1 .. k : Suffix(recent, k)[i] = typed[n - k + i]
        <5>1. k \in 0 .. n - w
          BY <3>1
        <5>2. QED
          BY <2>3, <5>1
      <4>2. \A i \in 1 .. k : Prefix(k)[i] = Chord[i]
        <5>1. k \in 0 .. c
          BY <3>1
        <5>2. QED
          BY <2>4, <5>1
      <4>3. Suffix(recent, k) = Prefix(k)
        BY <2>9
      <4>4. QED
        BY <4>1, <4>2, <4>3
    <3>3. k <= Len(Chord) /\ k <= n - window
      BY <1>1, <3>1
    <3>4. Border(k, n)
      BY <3>2, <3>3 DEF Border
    <3>5. ~Border(k, n)
      BY <2>1, <3>1
    <3>6. QED
      BY <3>4, <3>5
  <2>10. QED
    BY <2>2, <2>7, <2>8, <2>9
<1>6. QED
  BY <1>1, <1>2, <1>4, <1>5 DEF DetachExact

\* PromptChordDetaches, likewise: a timeout since the chord began would have
\* let a byte as old as the timeout stay among those that count.
LEMMA Prompt == IInvs => PromptChordDetaches
<1> DEFINE oldest == IF Len(typed) < 2 * Len(Chord) - 2 THEN 1
                     ELSE Len(typed) - 2 * Len(Chord) + 3
<1> SUFFICES ASSUME IInvs, Len(Chord) > 1, EndsInChord(typed), typed_at[oldest] < Timeout, ~detached
             PROVE  FALSE
  BY DEF PromptChordDetaches
<1>1. PICK n \in Nat, c \in Nat, w \in Nat :
          n = Len(typed) /\ c = Len(Chord) /\ w = window /\ w <= n /\ c > 1
  BY Lengths DEF IInvs
<1>2. c <= n /\ \A i \in 1 .. c : typed[n - c + i] = Chord[i]
  <2>1. typed \in Seq(Bytes)
    BY DEF IInvs, IInv, TypeOK
  <2>2. QED
    BY <1>1, <2>1, ChordAtEnd
\* All of the chord was typed in play, or the matcher timed out meanwhile.
<1>3. CASE c <= n - w
  <2>1. Border(c, n)
    BY <1>1, <1>2, <1>3 DEF Border
  <2>2. n \in window + 1 .. n /\ Chord # << >>
    BY <1>1, <1>3, Lengths DEF IInvs
  <2>3. QED
    BY <1>1, <2>1, <2>2 DEF IInvs, MatchInv
<1>4. CASE ~(c <= n - w)
  <2>1. PICK q \in 1 .. w : q + c >= w + 2 /\ typed_at[q] >= Timeout
    <3>1. w # 0
      BY <1>1, <1>2, <1>4
    <3>2. QED
      BY <1>1, <3>1 DEF IInvs, AgeInv
  <2>2. PICK o \in 1 .. n : o = oldest /\ o <= q
    <3>1. oldest = IF n < 2 * c - 2 THEN 1 ELSE n - 2 * c + 3
      BY <1>1
    <3>2. (IF n < 2 * c - 2 THEN 1 ELSE n - 2 * c + 3) \in 1 .. n
      BY <1>1, <1>2
    <3>3. (IF n < 2 * c - 2 THEN 1 ELSE n - 2 * c + 3) <= q
      BY <1>1, <1>4, <2>1
    <3> HIDE DEF oldest
    <3>4. QED
      BY <3>1, <3>2, <3>3
  <2>3. q \in 1 .. n
    BY <1>1
  <2>4. typed_at[o] >= typed_at[q]
    BY <1>1, <2>2, <2>3 DEF IInvs, AgeInv
  <2>5. typed_at[o] \in Nat /\ typed_at[q] \in Nat /\ Timeout \in Nat
    <3>1. Timeout \in Nat /\ \A i \in 1 .. n : typed_at[i] \in 0 .. Timeout
      BY <1>1, Lengths DEF IInvs
    <3>2. typed_at[o] \in 0 .. Timeout /\ typed_at[q] \in 0 .. Timeout
      BY <2>3, <3>1
    <3>3. QED
      BY <3>1, <3>2
  <2>6. typed_at[o] < Timeout
    BY <2>2
  <2>7. QED
    BY <2>1, <2>4, <2>5, <2>6
<1>5. QED
  BY <1>3, <1>4

\* The matcher detaches exactly when the chord has just been typed for the
\* first time since the last timeout, wherever in a broken match it began, and
\* holds no more of the input than may still become the chord
\* (feed_byte_inner, overlap_len).
THEOREM DetachesExactly == Safe => []DetachExact
BY SafeIInvs, Exact, PTL

\* A chord of n > 1 bytes detaches if it and the n - 2 bytes before it, as far
\* as there are any, were all typed within the timeout, whatever checks of the
\* timeout come in between (check_timeout).
THEOREM PromptDetach == Safe => []PromptChordDetaches
BY SafeIInvs, Prompt, PTL
=============================================================================
