------------------------------ MODULE ReproDump ------------------------------
(***************************************************************************)
(* Repro dumps (dump_repro of manager.rs, repro.rs): what a dump keeps of  *)
(* a pane, and how PaneReplay makes its final surface again from it.  The  *)
(* metadata of the spawn, and its redaction, are left out.                 *)
(***************************************************************************)
EXTENDS Vt100Surface

CONSTANT DefaultScrollback   \* rows enough for ScrollbackConfig::default, which is unbounded
ASSUME DefaultScrollbackAssumption == DefaultScrollback \in Nat

ReproSizeEvent(transcript_offset, size) ==
    [transcript_offset |-> transcript_offset, size |-> size]

\* from_dump refuses a dump without raw bytes, or without their beginning.
Replayable(dump) == dump.has_raw /\ dump.start_offset = 0

Until(dump, offset) == IF offset < Len(dump.raw) THEN offset ELSE Len(dump.raw)

\* Nothing is fed for an empty range.
FeedRange(r, dump, end) ==
    LET bytes == SubSeq(dump.raw, r.consumed + 1, end)
    IN  IF bytes = << >> THEN r
        ELSE [surface  |-> Feed(r.surface, bytes).surface,
              overlay  |-> UpdateFromOutput(r.overlay, bytes),
              consumed |-> end]

ReplayResize(r, dump, event) ==
    LET fed == FeedRange(r, dump, Until(dump, event.transcript_offset))
    IN  [fed EXCEPT !.surface = Resize(@, event.size)]

\* final_surface: of the sizes at offset 0, the last is the initial one.
FinalSurface(dump) ==
    LET AtStart(e) == e.transcript_offset <= dump.start_offset
        Later(e)   == ~AtStart(e)
        initial == Last(SelectSeq(dump.size_history, AtStart)).size
        start   == [surface |-> NewSurface(initial, DefaultScrollback),
                    overlay |-> NewOverlay, consumed |-> 0]
        Step(r, e) == ReplayResize(r, dump, e)
        sized   == Scan(Step, start, SelectSeq(dump.size_history, Later))
        final   == FeedRange(sized, dump, Len(dump.raw))
        shown   == Snapshot(final.surface)
    IN  [shown EXCEPT !.modes = MergeWith(final.overlay, @)]
=============================================================================
