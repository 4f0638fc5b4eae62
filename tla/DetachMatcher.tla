---------------------------- MODULE DetachMatcher ----------------------------
(***************************************************************************)
(* The matcher that watches what the user types while attached and finds   *)
(* the detach chord in it (DetachMatcher in panesmith-attach/src/detach.rs *)
(* and its twin ManagerDetachMatcher in panesmith-core).                   *)
(*                                                                         *)
(* feed_bytes is a check of the timeout and then one step per byte; no     *)
(* time passes in between, which the variable `feeding' says.  An idle     *)
(* poll checks the timeout only.  Instants are modelled by ages: how long  *)
(* ago, at most Timeout.  The terminal encodings of a one-byte chord       *)
(* (parse_ctrl_detach_encoding) are decoded before the step modelled here. *)
(***************************************************************************)
EXTENDS Naturals, Sequences

CONSTANTS Chord,     \* the configured chord, a sequence of bytes
          Timeout,   \* its partial_timeout, in ticks
          Bytes,     \* what can be typed
          MaxTyped   \* bound: bytes typed

ASSUME MatcherAssumption == /\ Chord \in Seq(Bytes)
                            /\ Timeout \in Nat \ {0}
                            /\ MaxTyped \in Nat

VARIABLES
    held,       \* bytes of a partial match
    held_at,    \* their ages
    detached,   \* the chord was found; no more is fed
    feeding,    \* inside feed_bytes
    forwarded,  \* history: what was returned for the child
    typed,      \* history: what was fed
    typed_at,   \* history: its ages
    window      \* history: how much of it the last timeout took out of play

vars == <<held, held_at, detached, feeding, forwarded, typed, typed_at, window>>

Init ==
    /\ held = << >> /\ held_at = << >>
    /\ detached = FALSE /\ feeding = FALSE
    /\ forwarded = << >>
    /\ typed = << >> /\ typed_at = << >> /\ window = 0

-----------------------------------------------------------------------------
Suffix(s, k) == SubSeq(s, Len(s) - k + 1, Len(s))
Without(s, k) == SubSeq(s, 1, Len(s) - k)
Prefix(k) == SubSeq(Chord, 1, k)

\* mutant: after a mismatch only the byte at hand can start the chord again
OverlapOfOneByte(s) ==
    IF Len(s) > 0 /\ Len(Chord) > 0 /\ Suffix(s, 1) = Prefix(1) THEN 1 ELSE 0

\* The longest suffix of s that is a prefix of the chord.
OverlapLength(s) ==
    CHOOSE k \in 0 .. Len(s) :
        /\ k <= Len(Chord) /\ Suffix(s, k) = Prefix(k)
        /\ \A j \in k + 1 .. Len(s) : ~(j <= Len(Chord) /\ Suffix(s, j) = Prefix(j))

Expired == held # << >> /\ held_at[1] >= Timeout

\* mutant: a partial match never times out
FlushNever == UNCHANGED <<held, held_at, forwarded, window>>

\* mutant: held bytes that time out are dropped
FlushDrops ==
    IF Expired
    THEN /\ held' = << >> /\ held_at' = << >>
         /\ window' = Len(typed)
         /\ UNCHANGED forwarded
    ELSE UNCHANGED <<held, held_at, forwarded, window>>

\* check_timeout: the age of the oldest held byte decides for all of them.
FlushExpired ==
    IF Expired
    THEN /\ forwarded' = forwarded \o held
         /\ held' = << >> /\ held_at' = << >>
         /\ window' = Len(typed)
    ELSE UNCHANGED <<held, held_at, forwarded, window>>

BeginFeed ==
    /\ ~feeding /\ ~detached
    /\ Len(typed) < MaxTyped
    /\ feeding' = TRUE
    /\ FlushExpired
    /\ UNCHANGED <<detached, typed, typed_at>>

EndFeed ==
    /\ feeding
    /\ feeding' = FALSE
    /\ UNCHANGED <<held, held_at, detached, forwarded, typed, typed_at, window>>

CheckTimeout ==
    /\ ~feeding /\ ~detached
    /\ FlushExpired
    /\ UNCHANGED <<detached, feeding, typed, typed_at>>

\* One byte of the input reaches feed_byte_inner.
Type(b) ==
    /\ feeding
    /\ Len(typed) < MaxTyped
    /\ typed' = Append(typed, b) /\ typed_at' = Append(typed_at, 0)
    /\ UNCHANGED window

Continues(b) == Chord # << >> /\ b = Chord[Len(held) + 1]

HoldByte(b) ==
    /\ Type(b)
    /\ Continues(b) /\ Len(held) + 1 < Len(Chord)
    /\ held' = Append(held, b) /\ held_at' = Append(held_at, 0)
    /\ UNCHANGED <<detached, feeding, forwarded>>

Detach(b) ==
    /\ Type(b)
    /\ Continues(b) /\ Len(held) + 1 = Len(Chord)
    /\ held' = << >> /\ held_at' = << >>
    /\ detached' = TRUE
    /\ feeding' = FALSE
    /\ UNCHANGED forwarded

\* mutant: the bytes kept after a mismatch keep the age of the old match
MismatchKeepsAges(b) ==
    /\ Type(b)
    /\ ~Continues(b)
    /\ LET combined == Append(held, b)
           k        == OverlapLength(combined)
       IN  /\ forwarded' = forwarded \o Without(combined, k)
           /\ held' = Suffix(combined, k)
           /\ held_at' = SubSeq(Append(held_at, 0), 1, k)
    /\ UNCHANGED <<detached, feeding>>

\* The match is broken: all but the longest suffix that may still become the
\* chord is forwarded.  With an empty chord that is everything.
Mismatch(b) ==
    /\ Type(b)
    /\ ~Continues(b)
    /\ LET combined == Append(held, b)
           k        == OverlapLength(combined)
       IN  /\ forwarded' = forwarded \o Without(combined, k)
           /\ held' = Suffix(combined, k)
           /\ held_at' = Suffix(Append(held_at, 0), k)
    /\ UNCHANGED <<detached, feeding>>

Aged(ages) == [i \in DOMAIN ages |-> IF ages[i] < Timeout THEN ages[i] + 1 ELSE Timeout]

Tick ==
    /\ ~feeding /\ ~detached
    /\ held_at' = Aged(held_at) /\ typed_at' = Aged(typed_at)
    /\ UNCHANGED <<held, detached, feeding, forwarded, typed, window>>

Next == \/ BeginFeed \/ EndFeed \/ CheckTimeout \/ Tick
        \/ \E b \in Bytes : HoldByte(b) \/ Detach(b) \/ Mismatch(b)

Safe == Init /\ [][Next]_vars

\* Time passes whatever is typed, the attach loop checks the timeout again and
\* again while nothing is, and the bytes of one read come to an end.
Spec == Safe /\ SF_vars(Tick) /\ WF_vars(CheckTimeout) /\ WF_vars(EndFeed)

-----------------------------------------------------------------------------
(* Properties. *)

\* The debug assertion of check_timeout (held bytes and timestamps stay
\* aligned) and that a complete chord is never merely held.
TypeOK ==
    /\ held \in Seq(Bytes)
    /\ held_at \in Seq(0 .. Timeout) /\ Len(held_at) = Len(held)
    /\ held # << >> => Len(held) < Len(Chord)
    /\ detached \in BOOLEAN /\ feeding \in BOOLEAN
    /\ forwarded \in Seq(Bytes) /\ typed \in Seq(Bytes)
    /\ typed_at \in Seq(0 .. Timeout) /\ Len(typed_at) = Len(typed)
    /\ window \in 0 .. Len(typed)

\* Whatever is typed reaches the child once and in order, or is still held;
\* only the chord itself is taken out, at its end.
NothingLost == forwarded \o (IF detached THEN Chord ELSE held) = typed

\* What was typed since the last timeout; earlier bytes cannot take part in a
\* match any more.
InPlay == SubSeq(typed, window + 1, Len(typed))
EndsInChord(s) == Chord # << >> /\ Len(s) >= Len(Chord) /\ Suffix(s, Len(Chord)) = Chord

\* Overlapping partial matches included: detached exactly when the chord has
\* just been typed for the first time, and until then the longest possible
\* beginning of it is held, so that neither a restart inside a broken match
\* is missed nor ordinary input held without need.
DetachExact ==
    /\ \A n \in 1 .. Len(InPlay) :
          EndsInChord(SubSeq(InPlay, 1, n)) <=> detached /\ n = Len(InPlay)
    /\ ~detached =>
          /\ Len(held) <= Len(InPlay)
          /\ held = Suffix(InPlay, Len(held)) /\ held = Prefix(Len(held))
          /\ \A k \in Len(held) + 1 .. Len(InPlay) :
                k <= Len(Chord) => Suffix(InPlay, k) # Prefix(k)

\* A chord typed within the timeout, counted from the n - 2 bytes before it,
\* detaches, whatever polls come in between and wherever the match restarted in
\* it.  Those bytes count as they may be held with its beginning, and time out
\* together with it; earlier ones cannot.
PromptChordDetaches ==
    LET n      == Len(Chord)
        oldest == IF Len(typed) < 2 * n - 2 THEN 1 ELSE Len(typed) - 2 * n + 3
    IN  n > 1 /\ EndsInChord(typed) /\ typed_at[oldest] < Timeout => detached

\* Nothing that was typed is held forever: it is forwarded in the end unless
\* the user detaches.
EverythingForwarded ==
    \A n \in 1 .. MaxTyped :
        Len(typed) >= n ~> detached \/ Len(forwarded) >= n
=============================================================================
