------------------------------ MODULE PaneOutput ------------------------------
(***************************************************************************)
(* What becomes of the output of one pane (record_output_frame, resize and *)
(* dump_repro of manager.rs, and the viewport of its attach loop): each    *)
(* frame goes through the mode overlay, the transcript and the surface;    *)
(* sizes are noted by their place in the stream, so that a repro dump can  *)
(* be replayed; and an attached user may look back into history meanwhile. *)
(*                                                                         *)
(* The child writes units - lines and whole control sequences - and the    *)
(* reader thread cuts them into frames anywhere.  The attach is one with   *)
(* UseRealTerminalSize and FanoutToSurfaceAndStdout; how it begins, fails  *)
(* and ends is PaneAttach's.  It begins with a rendering at the tail, so   *)
(* what precedes it, and a detach and an attach after it, are to the user  *)
(* what pressing End is.  A turn of the attach loop takes one frame, which  *)
(* is the finest the user's keys and the output can interleave.            *)
(***************************************************************************)
EXTENDS Transcript, ReproDump, Viewport

CONSTANTS
    Configs,             \* transcript configurations
    Units,               \* what the child writes
    Sizes,               \* terminal heights
    InitialSize,
    ScrollbackCapacity,
    WheelRows,           \* rows a turn of the wheel scrolls
    MaxFrames,           \* bound: output frames
    MaxResizes           \* bound: resizes

ASSUME OutputAssumption ==
    /\ InitialSize \in Sizes /\ \A n \in Sizes : n \in Nat /\ n >= 2
    /\ {ScrollbackCapacity, WheelRows, MaxFrames, MaxResizes} \subseteq Nat
    /\ << >> \notin Units

VARIABLES
    transcript, mode_overlay, surface, size_history,
    scrollback_lines_dropped,    \* of PaneStats
    viewport,       \* of the attach loop
    unwritten,      \* the end of a unit that the last frame cut off
    frames,         \* bounds the run
    output,         \* history: all bytes of the pane
    plain_stream,   \* history: all text ever appended to plain
    raw_reported,   \* history: the raw bytes rotations reported dropped
    flushed,        \* history: the held-back prefix was forced out, or flushed at the end
    uncounted,      \* history: how much text was forced out, in no chunk's account
    fed,            \* history: what the frame just fed was said to do, and did
    unseen          \* history: is output missing on the attached terminal?

streams == <<output, plain_stream, raw_reported, flushed, uncounted>>
pane == <<transcript, mode_overlay, surface, size_history, scrollback_lines_dropped>>
vars == <<pane, viewport, unwritten, frames, streams, fed, unseen>>

NotFed == [reported |-> FALSE, changed |-> FALSE, moved |-> FALSE]

Init ==
    /\ \E config \in Configs : transcript = NewTranscript(config)
    /\ mode_overlay = NewOverlay
    /\ surface = NewSurface(InitialSize, ScrollbackCapacity)
    /\ size_history = <<ReproSizeEvent(0, InitialSize)>>
    /\ scrollback_lines_dropped = 0
    /\ viewport = FollowTail
    /\ unwritten = << >> /\ frames = 0
    /\ output = << >> /\ plain_stream = << >> /\ raw_reported = 0
    /\ flushed = FALSE /\ uncounted = 0
    /\ fed = NotFed
    /\ unseen = "nothing"

-----------------------------------------------------------------------------
(* The window of an attached user. *)

MetricsOf(v, s) ==
    Metrics(v, s.screen.rows, Len(Scrollback(s.screen)), s.screen.rows)
AtTail(v, s) == MetricsOf(v, s).effective_scroll_offset = 0

\* Rows below the last line are blank.
RowAt(s, i) ==
    LET rows == Scrollback(s.screen) \o VisibleRows(s.screen)
    IN  IF i \in DOMAIN rows THEN rows[i] ELSE "blank"
TopRow(v, s) == RowAt(s, MetricsOf(v, s).start_row + 1)

\* Did output that only added to history take the window to other rows?
WindowMoves(before, after, v) ==
    /\ ~AtTail(viewport, before)
    /\ OnAlternate(before.screen) = OnAlternate(after.screen)
    /\ IsPrefix(Scrollback(before.screen), Scrollback(after.screen))
    /\ TopRow(v, after) # TopRow(viewport, before)

\* A rendering at the tail shows all there is.
Rendered(v, s) == IF AtTail(v, s) THEN "nothing" ELSE unseen

-----------------------------------------------------------------------------
(* Operations. *)

\* A frame ends in what the last one cut off, or in or after another unit.
Frames ==
    LET Cuts(w, from) == {<<SubSeq(w, 1, n), Without(w, n)>> : n \in from + 1 .. Len(w)}
    IN  Cuts(unwritten, 0) \cup UNION {Cuts(unwritten \o u, Len(unwritten)) : u \in Units}

\* record_output_frame, and what the attach loop does around it: at the tail
\* the bytes go to the terminal as they are, and otherwise not at all.
OutputFrame ==
    /\ frames < MaxFrames
    /\ \E frame \in Frames :
       LET bytes    == frame[1]
           recorded == Record(transcript, bytes)
           update   == Feed(surface, bytes)
           forces   == KeepsPlain(transcript)
                         /\ Len(Held(transcript, bytes)) > MaxPendingPrefix
           forced   == IF forces THEN Forced(transcript, bytes) ELSE << >>
           before   == MetricsOf(viewport, surface)
           after    == MetricsOf(viewport, update.surface)
           scrolled == ~AtTail(viewport, surface)
           next     == IF scrolled THEN Stabilize(viewport, before, after) ELSE viewport
       IN  /\ unwritten' = frame[2]
           /\ mode_overlay' = UpdateFromOutput(mode_overlay, bytes)
           /\ transcript' = recorded.transcript
           /\ surface' = update.surface
           /\ scrollback_lines_dropped' =
                scrollback_lines_dropped + update.scrollback_lines_dropped
           /\ viewport' = next
           /\ output' = output \o bytes
           /\ plain_stream' = IF KeepsPlain(transcript)
                              THEN plain_stream \o StripAnsi(Complete(transcript, bytes))
                                                \o forced
                              ELSE plain_stream
           /\ raw_reported' = raw_reported + recorded.raw_dropped
           /\ flushed' = (flushed \/ forces)
           /\ uncounted' = uncounted + Len(forced)
           /\ fed' = [reported |-> update.scrollback_changed,
                      changed  |-> Scrollback(update.surface.screen)
                                     # Scrollback(surface.screen),
                      moved    |-> WindowMoves(surface, update.surface, next)]
           /\ unseen' = IF ~scrolled THEN unseen
                        ELSE IF AtTail(next, update.surface) THEN "history went" ELSE "output"
    /\ frames' = frames + 1
    /\ UNCHANGED size_history

\* The stream ends: exit, a failed read and removal flush, and no frame follows.
StreamEnds ==
    /\ transcript.pending_plain_prefix # << >>
    /\ LET ended == FlushPending(transcript)
       IN  /\ transcript' = ended.transcript
           /\ raw_reported' = raw_reported + ended.raw_dropped
    /\ plain_stream' = plain_stream \o StripAnsi(transcript.pending_plain_prefix)
    /\ flushed' = TRUE /\ fed' = NotFed
    /\ frames' = MaxFrames
    /\ UNCHANGED <<mode_overlay, surface, size_history, scrollback_lines_dropped,
                   viewport, unwritten, output, uncounted, unseen>>

\* mutant: the place in the text, not in the raw bytes
RecordSizeHistoryPlain(rows) ==
    size_history' = Append(size_history, ReproSizeEvent(transcript.next_plain_offset, rows))

RecordSizeHistory(rows) ==
    size_history' = Append(size_history, ReproSizeEvent(transcript.next_raw_offset, rows))

\* resize by the host, or of an attached terminal, which is rendered anew
ResizePane ==
    /\ Len(size_history) <= MaxResizes /\ frames < MaxFrames
    /\ \E rows \in Sizes \ {surface.screen.rows} :
         /\ surface' = Resize(surface, rows)
         /\ RecordSizeHistory(rows)
         /\ unseen' = Rendered(viewport, surface')
    /\ fed' = NotFed
    /\ UNCHANGED <<transcript, mode_overlay, scrollback_lines_dropped,
                   viewport, unwritten, frames, streams>>

\* mutant: a read with both keys for the viewport and input for the child is
\* only forwarded
PressKeyForwards ==
    /\ \E key \in Keys, with_input \in BOOLEAN :
         LET next == AfterKey(key, WheelRows, MetricsOf(viewport, surface))
         IN  /\ next # viewport
             /\ viewport' = next
             /\ unseen' = IF with_input THEN unseen ELSE Rendered(next, surface)
    /\ fed' = NotFed
    /\ UNCHANGED <<pane, unwritten, frames, streams>>

\* A change of the viewport renders it, whatever else was read with the key.
PressKey ==
    /\ \E key \in Keys :
         LET next == AfterKey(key, WheelRows, MetricsOf(viewport, surface))
         IN  /\ next # viewport
             /\ viewport' = next
             /\ unseen' = Rendered(next, surface)
    /\ fed' = NotFed
    /\ UNCHANGED <<pane, unwritten, frames, streams>>

Next == OutputFrame \/ StreamEnds \/ ResizePane \/ PressKey

Safe == Init /\ [][Next]_vars

\* dump_repro: what it keeps of this state
Dump == [ has_raw      |-> KeepsRaw(transcript),
          start_offset |-> retained_raw_start_offset(transcript),
          raw          |-> transcript.raw,
          size_history |-> size_history,
          final_surface |-> [Snapshot(surface) EXCEPT !.modes = MergeWith(mode_overlay, @)] ]

-----------------------------------------------------------------------------
(* Properties. *)

\* Each retained raw byte stands in the pane's output where the start offset
\* says, and that is as far as the rotations so far have reported.
RawOffsetsExact ==
    /\ transcript.raw = IF KeepsRaw(transcript)
                        THEN Without(output, retained_raw_start_offset(transcript)) ELSE << >>
    /\ KeepsRaw(transcript) => retained_raw_start_offset(transcript) = raw_reported

\* Likewise for text, in the stream of all text recorded.
PlainOffsetsExact ==
    transcript.plain = Without(plain_stream, retained_plain_start_offset(transcript))

\* Readers of the transcript can place what is retained in what was output; of
\* text, as long as none was forced out.
OffsetsExact == RawOffsetsExact /\ (uncounted = 0 => PlainOffsetsExact)

\* What enforce_limits guarantees after every call, held-back bytes aside.  No
\* chunk accounts for text that was forced out, and no limit is kept for it: it
\* alone can exceed max_bytes, and then nothing else is retained; its lines do
\* not count.  Otherwise the limits hold, and the chunks account for both
\* buffers exactly, so that no subtraction in enforce_limits underflows.
LimitsHold ==
    LET t == transcript  n == Len(t.chunks)
    IN  /\ t.config.max_bytes > 0 =>
               Len(t.raw) + Len(t.plain) <= t.config.max_bytes \/ t.chunks = << >>
        /\ t.config.max_lines > 0 => t.total_lines <= t.config.max_lines
        /\ SumOf(t.chunks, "raw_len", n) = Len(t.raw)
        /\ SumOf(t.chunks, "lines", n) = t.total_lines
        /\ SumOf(t.chunks, "plain_len", n) + uncounted = Len(t.plain)

\* However the reader thread cuts the output into frames, the text recorded
\* is the text of the whole, but for an end not yet complete.
PlainTextExact ==
    KeepsPlain(transcript) /\ ~flushed =>
        /\ transcript.pending_plain_prefix = LastOf(output, TrailingIncomplete(output))
        /\ plain_stream = StripAnsi(SubSeq(output, 1, Len(output) - TrailingIncomplete(output)))

\* The modes the pane reports are those the child has set on a terminal that
\* reads its output byte by byte, wherever sequences were cut.
ModesExact ==
    Dump.final_surface.modes = ModesOf(surface.screen.on)

\* A host that redraws history when told so always shows it as it is, and is
\* never told so in vain: resets that refill history, eviction from a full
\* history and alternate screens included.  And no row is counted as dropped
\* that was not (that some are missed is in the README).
ScrollbackReported ==
    /\ fed.reported = fed.changed
    /\ scrollback_lines_dropped <= surface.screen.evicted

\* A dump that can be replayed replays to the surface the pane showed, though
\* it is fed in one piece between two resizes.
ReplayMatches == Replayable(Dump) => FinalSurface(Dump) = Dump.final_surface

\* An attached user who is shown the tail is shown all output, also what came
\* while they looked back - except that the code does not render anew when
\* output takes the history away that they looked at.
SeenAtTail == AtTail(viewport, surface) => unseen # "output"

\* Output leaves the rows alone that a user who looks back is looking at, as
\* long as they are retained.
ViewStays == ~fed.moved
=============================================================================
