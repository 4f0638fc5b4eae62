---------------------------- MODULE PtyFrameQueue ----------------------------
(***************************************************************************)
(* The bounded frame queue between a pane's PTY reader thread and the      *)
(* manager (PtyFrameQueueState in panesmith-core/src/pty.rs).              *)
(*                                                                         *)
(* A queue is a record; every operation below runs under the queue's       *)
(* mutex, so a module that uses it makes each one part of a single step.   *)
(* A frame is a record whatever its kind:                                  *)
(*   kind    "Output", "Overflow", "Error" or "Exited"                     *)
(*   seq     the reader's sequence number (of the FIRST lost frame, for an *)
(*           overflow summary)                                             *)
(*   frames  how many of the reader's frames it stands for                 *)
(*   bytes   how many output bytes it carries, or reports lost             *)
(* Bytes are counted, never spelled out; timestamps and messages are left  *)
(* out.                                                                    *)
(***************************************************************************)
EXTENDS Naturals, Sequences

CONSTANT ConfiguredCapacity     \* PaneConfig's output_queue_capacity; 0 asks for the default

ASSUME CapacityAssumption == ConfiguredCapacity \in Nat

\* DEFAULT_PTY_OUTPUT_FRAME_QUEUE_CAPACITY
DefaultCapacity == 128

\* What spawn gives the queue; its own clamp to 1 never bites.
OutputCapacity == IF ConfiguredCapacity = 0 THEN DefaultCapacity ELSE ConfiguredCapacity

FrameKinds == {"Output", "Overflow", "Error", "Exited"}
Frame == [kind : FrameKinds, seq : Nat, frames : Nat, bytes : Nat]

OutputFrame(seq, bytes) ==
    [kind |-> "Output", seq |-> seq, frames |-> 1, bytes |-> bytes]
OverflowSummary(seq, frames, bytes) ==
    [kind |-> "Overflow", seq |-> seq, frames |-> frames, bytes |-> bytes]
ControlFrame(kind, seq) ==
    [kind |-> kind, seq |-> seq, frames |-> 1, bytes |-> 0]

QueueState == [ frames                  : Seq(Frame),
                queued_output_frames    : Nat,
                overflow_summary_queued : BOOLEAN,
                dropped_frames          : Nat,
                dropped_bytes           : Nat ]

EmptyQueue == [ frames                  |-> << >>,
                queued_output_frames    |-> 0,
                overflow_summary_queued |-> FALSE,
                dropped_frames          |-> 0,
                dropped_bytes           |-> 0 ]

-----------------------------------------------------------------------------
Summaries(frames) == {i \in DOMAIN frames : frames[i].kind = "Overflow"}
FirstSummary(frames) ==
    CHOOSE i \in Summaries(frames) : \A j \in Summaries(frames) : i <= j

\* (Operators marked "mutant" are plausible bugs; no specification uses them.)
\* mutant: the bytes of a coalesced frame are not added to its summary
RecordOutputOverflowForgetsBytes(q, f) ==
    LET counted == [q EXCEPT !.dropped_frames = @ + 1,
                             !.dropped_bytes  = @ + f.bytes]
        i       == FirstSummary(q.frames)
    IN  IF Summaries(q.frames) # {}
        THEN [counted EXCEPT !.frames[i].frames = @ + 1]
        ELSE [counted EXCEPT
                !.frames = Append(@, OverflowSummary(f.seq, 1, f.bytes)),
                !.overflow_summary_queued = TRUE]

\* One more output frame is lost: it is added to the summary that is already
\* queued, or a summary that starts with it is queued.
RecordOutputOverflow(q, f) ==
    LET counted == [q EXCEPT !.dropped_frames = @ + 1,
                             !.dropped_bytes  = @ + f.bytes]
        i       == FirstSummary(q.frames)
        old     == q.frames[i]
    IN  IF Summaries(q.frames) # {}
        THEN [counted EXCEPT !.frames[i] =
                OverflowSummary(old.seq, old.frames + 1, old.bytes + f.bytes)]
        ELSE [counted EXCEPT
                !.frames = Append(@, OverflowSummary(f.seq, 1, f.bytes)),
                !.overflow_summary_queued = TRUE]

\* mutant: output is queued behind a waiting summary as soon as there is room
PushOutputOvertakesSummary(q, f) ==
    IF q.queued_output_frames >= OutputCapacity THEN RecordOutputOverflow(q, f)
    ELSE [q EXCEPT !.frames = Append(@, f), !.queued_output_frames = @ + 1]

\* Nothing may overtake a summary, so output is also dropped while one waits.
PushOutput(q, f) ==
    IF q.overflow_summary_queued \/ q.queued_output_frames >= OutputCapacity
    THEN RecordOutputOverflow(q, f)
    ELSE [q EXCEPT !.frames = Append(@, f),
                   !.queued_output_frames = @ + 1]

\* mutant: exit and error frames are subject to the capacity
PushBoundsEveryFrame(q, f) == PushOutput(q, f)

\* Exit and error frames are exempt from the capacity.
Push(q, f) ==
    IF f.kind = "Output" THEN PushOutput(q, f)
    ELSE [q EXCEPT !.frames = Append(@, f)]

\* mutant: every frame taken gives room for an output frame
PoppedCountsEveryFrame(q) ==
    [q EXCEPT !.frames = Tail(@),
              !.queued_output_frames = @ - 1,
              !.overflow_summary_queued = @ /\ Head(q.frames).kind # "Overflow"]

\* The queue after its head frame was taken (there must be one).
Popped(q) ==
    LET kind == Head(q.frames).kind
    IN  [q EXCEPT !.frames = Tail(@),
                  !.queued_output_frames =
                      IF kind = "Output" /\ @ > 0 THEN @ - 1 ELSE @,
                  !.overflow_summary_queued = @ /\ kind # "Overflow"]

-----------------------------------------------------------------------------
\* What a sequence of numbers adds up to, for what is said of many frames.
Total(numbers) ==
    LET sum[n \in 0 .. Len(numbers)] == IF n = 0 THEN 0 ELSE sum[n - 1] + numbers[n]
    IN  sum[Len(numbers)]
=============================================================================
