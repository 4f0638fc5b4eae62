------------------------------ MODULE Transcript ------------------------------
(***************************************************************************)
(* The transcript of one pane (panesmith-core/src/transcript.rs): raw      *)
(* bytes and stripped text are appended in chunks, incomplete sequences at *)
(* the end of a frame are held back, and the oldest chunks are dropped to  *)
(* keep to the limits.                                                     *)
(*                                                                         *)
(* A transcript is a record, and its methods are operators on it; the      *)
(* streams next_raw_offset and next_plain_offset count into are kept by    *)
(* PaneOutput.  Both scanners are here as far as TerminalBytes goes:       *)
(* escapes, control sequences and strings ended by BEL, not UTF-8.         *)
(***************************************************************************)
EXTENDS TerminalBytes

CONSTANT MaxPendingPrefix   \* MAX_PENDING_PREFIX_BYTES
ASSUME PrefixAssumption == MaxPendingPrefix \in Nat

\* config: the mode, and max_bytes and max_lines of which 0 is no limit
NewTranscript(config) ==
    [config |-> config, raw |-> << >>, plain |-> << >>, chunks |-> << >>,
     next_raw_offset |-> 0, next_plain_offset |-> 0, total_lines |-> 0,
     pending_plain_prefix |-> << >>]

KeepsRaw(t)   == t.config.mode \in {"RawBytes", "Both"}
KeepsPlain(t) == t.config.mode \in {"PlainText", "Both"}

Smaller(a, b) == IF a <= b THEN a ELSE b
Larger(a, b)  == IF a >= b THEN a ELSE b

-----------------------------------------------------------------------------
(* The scanners. *)

\* Letters and brackets end a control sequence.
Final(b) == b \notin Params \cup {Esc, Bel}

\* trailing_incomplete_bytes, one symbol: which sequence is open, and how many
\* symbols it has so far.  A control sequence inside a string is skipped whole.
ScanOpen(s, b) ==
    LET Into(in) == [in |-> in, open |-> s.open + 1]
        None     == [in |-> "text", open |-> 0]
    IN  CASE s.in = "text"     -> IF b = Esc THEN Into("escape") ELSE None
          [] s.in = "escape"   -> IF b = Csi THEN Into("csi")
                                  ELSE IF b = Osc THEN Into("string") ELSE None
          [] s.in = "csi"      -> IF Final(b) THEN None ELSE Into("csi")
          [] s.in = "string"   -> IF b = Bel THEN None
                                  ELSE Into(IF b = Esc THEN "string escape" ELSE "string")
          [] s.in = "string escape" -> Into(IF b = Csi THEN "string csi" ELSE "string")
          [] s.in = "string csi"    -> Into(IF Final(b) THEN "string" ELSE "string csi")

TrailingIncomplete(bytes) == Scan(ScanOpen, [in |-> "text", open |-> 0], bytes).open

\* strip_ansi, one symbol: an escape that begins nothing known stays in the
\* text, and a string ends at the first BEL.
ScanText(s, b) ==
    LET Text(in, out) == [in |-> in, out |-> s.out \o out]
        Literally(prefix) == IF b = Esc THEN Text("escape", prefix)
                                        ELSE Text("text", Append(prefix, b))
    IN  CASE s.in = "text"   -> Literally(<< >>)
          [] s.in = "escape" -> IF b = Csi THEN Text("csi", << >>)
                                ELSE IF b = Osc THEN Text("string", << >>)
                                ELSE Literally(<<Esc>>)
          [] s.in = "csi"    -> Text(IF Final(b) THEN "text" ELSE "csi", << >>)
          [] s.in = "string" -> Text(IF b = Bel THEN "text" ELSE "string", << >>)

StripAnsi(bytes) ==
    LET s == Scan(ScanText, [in |-> "text", out |-> << >>], bytes)
    IN  IF s.in = "escape" THEN Append(s.out, Esc) ELSE s.out

-----------------------------------------------------------------------------
(* Retention. *)

Chunk(raw_len, plain_len, lines) ==
    [raw_len |-> raw_len, plain_len |-> plain_len, lines |-> lines]

\* The sum of one field over the first n chunks of a sequence.
SumOf(cs, field, n) ==
    Scan(LAMBDA sum, chunk : sum + chunk[field], 0, SubSeq(cs, 1, n))

\* After its first n chunks are dropped, does t still exceed a limit?
OverLimit(t, n) ==
    \/ /\ t.config.max_bytes > 0
       /\ Len(t.raw) - SumOf(t.chunks, "raw_len", n)
            + Len(t.plain) - SumOf(t.chunks, "plain_len", n) > t.config.max_bytes
    \/ /\ t.config.max_lines > 0
       /\ t.total_lines - SumOf(t.chunks, "lines", n) > t.config.max_lines

\* mutant: one chunk too few is dropped
DroppedChunksTooFew(t) ==
    CHOOSE n \in 0 .. Len(t.chunks) :
        /\ n = Len(t.chunks) \/ ~OverLimit(t, n + 1)
        /\ \A m \in 0 .. n - 1 : OverLimit(t, m + 1)

\* The oldest chunks go first, as few as restore the limits, or all.
DroppedChunks(t) ==
    CHOOSE n \in 0 .. Len(t.chunks) :
        /\ n = Len(t.chunks) \/ ~OverLimit(t, n)
        /\ \A m \in 0 .. n - 1 : OverLimit(t, m)

Without(s, n) == SubSeq(s, n + 1, Len(s))

\* enforce_limits, and the rotation it reports
EnforceLimits(t) ==
    LET n          == DroppedChunks(t)
        raw_drop   == SumOf(t.chunks, "raw_len", n)
        plain_drop == SumOf(t.chunks, "plain_len", n)
    IN  [transcript |-> [t EXCEPT !.chunks = Without(@, n),
                                  !.raw = Without(@, raw_drop),
                                  !.plain = Without(@, Smaller(plain_drop, Len(@))),
                                  !.total_lines = @ - SumOf(t.chunks, "lines", n)],
         raw_dropped |-> raw_drop]

-----------------------------------------------------------------------------
(* record *)

\* What all modes have in common, once the buffers are appended to.
AppendChunk(t, bytes, text, lines) ==
    EnforceLimits([t EXCEPT !.chunks = Append(@, Chunk(IF KeepsRaw(t) THEN Len(bytes) ELSE 0,
                                                       Len(text), lines)),
                            !.next_raw_offset = @ + Len(bytes),
                            !.next_plain_offset = @ + Len(text),
                            !.total_lines = @ + lines])

RecordRaw(t, bytes) ==
    AppendChunk([t EXCEPT !.raw = @ \o bytes], bytes, << >>, Newlines(bytes))

\* The prefix held back from the frame before goes in front; what is
\* incomplete at the end is held back again.
Combined(t, bytes) == t.pending_plain_prefix \o bytes
Held(t, bytes) == LastOf(Combined(t, bytes), TrailingIncomplete(Combined(t, bytes)))

\* mutant: each frame is stripped by itself
CompleteWithoutPrefix(t, bytes) == bytes

Complete(t, bytes) ==
    SubSeq(Combined(t, bytes), 1, Len(Combined(t, bytes)) - Len(Held(t, bytes)))

\* A prefix that grew too long is stripped and appended at once; what comes
\* of it as text counts neither in the frame's chunk nor in the offset.
Forced(t, bytes) ==
    IF Len(Held(t, bytes)) > MaxPendingPrefix THEN StripAnsi(Held(t, bytes)) ELSE << >>

PrefixAfter(t, bytes) ==
    IF Len(Held(t, bytes)) > MaxPendingPrefix THEN << >> ELSE Held(t, bytes)

RecordPlain(t, bytes) ==
    LET text     == StripAnsi(Complete(t, bytes))
        appended == [t EXCEPT !.raw = IF KeepsRaw(t) THEN @ \o bytes ELSE @,
                              !.plain = @ \o text \o Forced(t, bytes),
                              !.pending_plain_prefix = PrefixAfter(t, bytes)]
    IN  AppendChunk(appended, bytes, text,
                    IF KeepsRaw(t) THEN Larger(Newlines(bytes), Newlines(text))
                                   ELSE Newlines(text))

RecordDisabled(t, bytes) ==
    [transcript |-> [t EXCEPT !.next_raw_offset = @ + Len(bytes)], raw_dropped |-> 0]

Record(t, bytes) ==
    CASE t.config.mode = "Disabled" -> RecordDisabled(t, bytes)
      [] t.config.mode = "RawBytes" -> RecordRaw(t, bytes)
      [] OTHER                      -> RecordPlain(t, bytes)

-----------------------------------------------------------------------------
(* flush_pending, when the PTY's stream ends *)

\* mutant: as in a forced flush, no chunk is recorded and no offset advanced
FlushPendingUncounted(t) ==
    EnforceLimits([t EXCEPT !.plain = @ \o StripAnsi(t.pending_plain_prefix),
                            !.pending_plain_prefix = << >>])

FlushPending(t) ==
    LET text == StripAnsi(t.pending_plain_prefix)
    IN  EnforceLimits([t EXCEPT !.plain = @ \o text,
                                !.pending_plain_prefix = << >>,
                                !.chunks = Append(@, Chunk(0, Len(text), Newlines(text))),
                                !.next_plain_offset = @ + Len(text),
                                !.total_lines = @ + Newlines(text)])

-----------------------------------------------------------------------------
retained_raw_start_offset(t) == Larger(0, t.next_raw_offset - Len(t.raw))
retained_plain_start_offset(t) == Larger(0, t.next_plain_offset - Len(t.plain))
=============================================================================
