------------------------------ MODULE PaneAttach ------------------------------
(***************************************************************************)
(* Fullscreen attach of one pane (PaneManager::attach_blocking): the host  *)
(* hands its terminal over, a loop bridges it to the child's PTY, and on   *)
(* detach, child exit or any error everything is handed back.              *)
(*                                                                         *)
(* The calls of attach_blocking follow each other through attach.stage;    *)
(* each call to the terminal, the PTY or the surface can fail.  Meanwhile  *)
(* the reader thread pushes frames and the real terminal changes its size. *)
(* The child may flood without end: of its output only one frame, any one, *)
(* is told from the others ("Watched"), so the states stay finite.  Stdin  *)
(* is what DetachMatcher makes of it; the viewport is left out, it only    *)
(* keeps output off the screen while the user has scrolled back.           *)
(***************************************************************************)
EXTENDS Naturals, Sequences

CONSTANTS
    Sizes,            \* sizes the real terminal can have
    UnsupportedSizes, \* those the surface backend rejects
    InitialSize,      \* the pane's embedded size
    FramesPerTick,    \* DEFAULT_ATTACH_MAX_PTY_FRAMES_PER_TICK
    DrainPasses,      \* passes that fit in DEFAULT_ATTACH_DETACH_DRAIN_MAX_WAIT
    QueueCapacity,    \* output frames the queue holds
    ResizePolicies, OutputPolicies \* the AttachOptions to consider

ASSUME AttachAssumption ==
    /\ UnsupportedSizes \subseteq Sizes /\ InitialSize \in Sizes \ UnsupportedSizes
    /\ {FramesPerTick, DrainPasses, QueueCapacity} \subseteq Nat \ {0}
    /\ ResizePolicies \subseteq {"UseRealTerminalSize", "KeepEmbeddedSize"}
    /\ OutputPolicies \subseteq {"FanoutToSurfaceAndStdout", "StdoutOnlyThenReplay"}

VARIABLES
    pane,       \* what attach reads and writes of the PaneRuntimeState
    attach,     \* the locals of the call, and how the last call ended
    terminal,   \* "host", "suspended", or "lost": given up on restoring it
    queue,      \* kinds of the frames the reader thread has pushed
    reader,     \* "reading", "waiting" (a read failed) or "done"
    watched,    \* history, of the watched frame: "unread", "queued", "taken" in
                \* the latest attach, or "settled": dropped or taken otherwise
    real_size,  \* the real terminal's size
    chord       \* the user has typed the detach chord

vars == <<pane, attach, terminal, queue, reader, watched, real_size, chord>>
outside == <<reader, real_size, chord>>

NoAttach(outcome) ==
    [ stage |-> "idle", outcome |-> outcome,
      resize |-> "KeepEmbeddedSize", output |-> "FanoutToSurfaceAndStdout",
      embedded_size |-> InitialSize, terminal_size |-> InitialSize, replay |-> {},
      drained |-> 0, passes |-> 0, child_exited |-> FALSE,
      restored |-> FALSE,        \* restored_embedded_size
      resize_refused |-> FALSE,  \* history: giving the size back failed for good
      refusals |-> 0 ]           \* history: failed restores of the terminal

Init ==
    /\ pane = [ state |-> "Running", interaction_mode |-> "Embedded",
                surface_size |-> InitialSize, pty_size |-> InitialSize,
                last_recorded_size |-> InitialSize,
                pending |-> FALSE,       \* the transcript holds bytes back
                kept |-> FALSE,          \* the watched frame is in the transcript
                exit_event_observed |-> FALSE ]
    /\ attach = NoAttach("none")
    /\ terminal = "host"
    /\ queue = << >>
    /\ reader = "reading"
    /\ watched = "unread"
    /\ real_size \in Sizes
    /\ chord = FALSE

Output == {"Output", "Watched"}
Idle == attach.stage = "idle"
Attached == attach.stage \in {"size", "stdin", "output"}
Goes(stage) == attach' = [attach EXCEPT !.stage = stage]
Abandons == Goes("abort")
Ended(outcome) == [NoAttach(outcome) EXCEPT !.embedded_size = attach.embedded_size]

-----------------------------------------------------------------------------
(* The pane: frames and sizes. *)

FailPane(p) ==
    [p EXCEPT !.pending = FALSE, !.state = IF @ = "Running" THEN "Failed" ELSE @]

HandleExitFrame(p) ==
    [p EXCEPT !.pending = FALSE, !.exit_event_observed = TRUE,
              !.state = IF @ = "Running" THEN "Exited" ELSE @]

\* record_output_frame of the frames fs as one; held: it ends in a sequence
\* the transcript holds back
RecordOutputFrame(p, fs, held) ==
    [p EXCEPT !.pending = held, !.kept = @ \/ "Watched" \in fs]

Resized(p, size) ==
    [p EXCEPT !.surface_size = size, !.last_recorded_size = size,
              !.pty_size = IF p.state = "Running" THEN size ELSE @]

Done(ok, p) == [ok |-> ok, pane |-> p]

\* mutant: the PTY is resized before the surface has validated the size
ResizesPtyFirst(p, size) ==
    IF size \in UnsupportedSizes THEN {Done(FALSE, [p EXCEPT !.pty_size = size])}
    ELSE {Done(TRUE, Resized(p, size)), Done(FALSE, p)}

\* How resize_attached_pane can end: the surface refuses the size, the PTY
\* fails - only a running child's is resized -, or all three agree on it.
Resizes(p, size) ==
    IF size \in UnsupportedSizes THEN {Done(FALSE, p)}
    ELSE {Done(TRUE, Resized(p, size))}
         \cup (IF p.state = "Running" THEN {Done(FALSE, p)} ELSE {})

\* The same under the attach's resize policy.
ResizesIfReal(p, size) ==
    IF attach.resize = "UseRealTerminalSize" THEN Resizes(p, size) ELSE {Done(TRUE, p)}

-----------------------------------------------------------------------------
(* attach_blocking: begin *)

\* The terminal cannot be measured, or not suspended: nothing has changed by
\* the time the error is returned.
Refused ==
    /\ Idle /\ pane.state = "Running"
    /\ attach' = [attach EXCEPT !.outcome = "Refused"]
    /\ UNCHANGED <<pane, terminal, queue, watched, outside>>

Suspend(resize, output) ==
    /\ Idle /\ pane.state = "Running"
    /\ terminal' = "suspended"
    /\ attach' = [NoAttach("none") EXCEPT !.stage = "enter", !.resize = resize,
                                          !.output = output, !.terminal_size = real_size,
                                          !.embedded_size = pane.surface_size]
    /\ pane' = [pane EXCEPT !.interaction_mode = "Attaching"]
    /\ watched' = IF watched = "taken" THEN "settled" ELSE watched
    /\ UNCHANGED <<queue, outside>>

\* Resize, mode, first rendering.
EnterAttached ==
    /\ attach.stage = "enter"
    /\ \E done \in ResizesIfReal(pane, attach.terminal_size), rendered \in BOOLEAN :
         /\ pane' = IF done.ok THEN [done.pane EXCEPT !.interaction_mode = "Attached"]
                    ELSE done.pane
         /\ IF done.ok /\ rendered THEN Goes("size") ELSE Abandons
    /\ UNCHANGED <<terminal, queue, watched, outside>>

-----------------------------------------------------------------------------
(* run_attached_pane: each tick looks at the size, stdin and the output. *)

CheckSize ==
    /\ attach.stage = "size"
    /\ \/ \* size() or the rendering after a change fails
          Abandons /\ UNCHANGED pane
       \/ \E done \in IF real_size = attach.terminal_size THEN {Done(TRUE, pane)}
                       ELSE ResizesIfReal(pane, real_size),
             rendered \in BOOLEAN :
            /\ pane' = done.pane
            /\ IF done.ok /\ (rendered \/ real_size = attach.terminal_size)
               THEN attach' = [attach EXCEPT !.stage = "stdin", !.terminal_size = real_size]
               ELSE Abandons
    /\ UNCHANGED <<terminal, queue, watched, outside>>

\* The chord, once typed, is in the next chunk read; input before it is
\* written first.
PollStdin ==
    /\ attach.stage = "stdin"
    /\ \/ Abandons /\ UNCHANGED <<pane, chord>>   \* reading or writing fails
       \/ /\ ~chord
          /\ attach' = [attach EXCEPT !.stage = "output", !.drained = 0]
          /\ UNCHANGED <<pane, chord>>
       \/ /\ chord
          /\ chord' = FALSE
          /\ attach' = [attach EXCEPT !.stage = "drain", !.drained = 0,
                                      !.outcome = "UserChord"]
          /\ pane' = [pane EXCEPT !.interaction_mode = "Detaching"]
    /\ UNCHANGED <<terminal, queue, watched, reader, real_size>>

Take(how) == /\ queue' = Tail(queue)
             /\ watched' = IF Head(queue) = "Watched" THEN how ELSE watched

OutputFrame(f, held) ==
    \/ \* write_stdout fails, and the frame is gone
       Abandons /\ UNCHANGED pane
    \/ /\ attach.output = "FanoutToSurfaceAndStdout"
       /\ \/ /\ pane' = RecordOutputFrame(pane, {f}, held)
             /\ attach' = [attach EXCEPT !.drained = @ + 1]
          \/ /\ pane' = FailPane(RecordOutputFrame(pane, {f}, held))
             /\ Abandons
    \/ /\ attach.output = "StdoutOnlyThenReplay"
       /\ attach' = [attach EXCEPT !.drained = @ + 1, !.replay = @ \cup {f}]
       /\ UNCHANGED pane

HandleFrame(f) ==
    \/ f \in Output /\ \E held \in BOOLEAN : OutputFrame(f, held)
    \/ /\ f = "Exited"
       /\ pane' = HandleExitFrame(pane)
       /\ attach' = [attach EXCEPT !.drained = @ + 1, !.child_exited = TRUE]
    \/ f = "Error" /\ pane' = FailPane(pane) /\ Abandons
    \/ f = "Overflow" /\ UNCHANGED pane /\ attach' = [attach EXCEPT !.drained = @ + 1]

Draining == attach.stage \in {"output", "drain"}

\* mutant: a tick drains until the queue is empty
DrainFrameUnlimited ==
    /\ Draining
    /\ queue # << >>
    /\ Take("taken")
    /\ \E f \in {Head(queue)} \cap Output :
         pane' = RecordOutputFrame(pane, {f}, FALSE) /\ UNCHANGED attach
    /\ UNCHANGED <<terminal, outside>>

\* One round of drain_attach_output, in the loop or while detaching.
DrainFrame ==
    /\ Draining
    /\ queue # << >> /\ attach.drained < FramesPerTick
    /\ Take("taken")
    /\ HandleFrame(Head(queue))
    /\ UNCHANGED <<terminal, outside>>

DrainEnds(stage) ==
    /\ attach.stage = stage
    /\ queue = << >> \/ attach.drained = FramesPerTick
    /\ UNCHANGED <<terminal, queue, watched, outside>>

TickEnds ==
    /\ DrainEnds("output")
    /\ IF attach.child_exited
       THEN /\ attach' = [attach EXCEPT !.stage = "drain", !.drained = 0,
                                        !.outcome = "ChildExited"]
            /\ pane' = [pane EXCEPT !.interaction_mode = "Detaching"]
       ELSE Goes("size") /\ UNCHANGED pane

-----------------------------------------------------------------------------
(* finish_detach *)

\* drain_detaching_output: another pass, or it was quiet, or long, enough.
DetachDrainPass ==
    /\ DrainEnds("drain")
    /\ \/ /\ attach.passes + 1 < DrainPasses
          /\ attach' = [attach EXCEPT !.drained = 0, !.passes = @ + 1]
       \/ Goes("replay")
    /\ UNCHANGED pane

\* mutant: after the child's exit nothing is replayed
ReplayUnlessExited ==
    /\ attach.stage = "replay"
    /\ IF attach.replay = {} \/ attach.child_exited
       THEN attach' = [attach EXCEPT !.stage = "restore_size", !.replay = {}]
            /\ UNCHANGED pane
       ELSE /\ pane' = RecordOutputFrame(pane, attach.replay, FALSE)
            /\ attach' = [attach EXCEPT !.stage = "restore_size", !.replay = {}]
    /\ UNCHANGED <<terminal, queue, watched, outside>>

Replay ==
    /\ attach.stage = "replay"
    /\ IF attach.replay = {}
       THEN Goes("restore_size") /\ UNCHANGED pane
       ELSE \E held, fed \in BOOLEAN :
              LET recorded == RecordOutputFrame(pane, attach.replay, held)
              IN  /\ pane' = IF fed THEN recorded ELSE FailPane(recorded)
                  /\ attach' = [attach EXCEPT
                         !.stage = IF fed THEN "restore_size" ELSE "abort",
                         !.replay = {}]
    /\ UNCHANGED <<terminal, queue, watched, outside>>

RestoreSize ==
    /\ attach.stage = "restore_size"
    /\ \E done \in ResizesIfReal(pane, attach.embedded_size) :
         /\ pane' = done.pane
         /\ attach' = [attach EXCEPT !.stage = IF done.ok THEN "hand_back" ELSE "abort",
                                     !.restored = done.ok]
    /\ UNCHANGED <<terminal, queue, watched, outside>>

HandBack ==
    /\ attach.stage = "hand_back"
    /\ \/ /\ terminal' = "host"
          /\ pane' = [pane EXCEPT !.interaction_mode = "Embedded"]
          /\ attach' = Ended(attach.outcome)
       \/ /\ attach' = [attach EXCEPT !.stage = "abort", !.refusals = @ + 1]
          /\ UNCHANGED <<pane, terminal>>
    /\ UNCHANGED <<queue, watched, outside>>

-----------------------------------------------------------------------------
(* best_effort_abort_attach, after any error; its calls meet no other thread. *)

AbortSizes ==
    IF attach.restored THEN {Done(TRUE, pane)} ELSE ResizesIfReal(pane, attach.embedded_size)

\* mutant: the terminal is given up after one failed restore
AbortTriesOnce ==
    /\ attach.stage = "abort"
    /\ \E done \in AbortSizes, refused \in 0 .. 1 :
         /\ pane' = [done.pane EXCEPT !.interaction_mode = "Embedded"]
         /\ terminal' = IF refused = 1 THEN "lost" ELSE "host"
         /\ attach' = [Ended("Error") EXCEPT !.resize_refused = ~done.ok,
                                             !.refusals = attach.refusals + refused]
    /\ UNCHANGED <<queue, watched, outside>>

Abort ==
    /\ attach.stage = "abort"
    /\ \E done \in AbortSizes, refused \in 0 .. 2 :
         /\ pane' = [done.pane EXCEPT !.interaction_mode = "Embedded"]
         /\ terminal' = IF refused = 2 THEN "lost" ELSE "host"
         /\ attach' = [Ended("Error") EXCEPT !.resize_refused = ~done.ok,
                                             !.refusals = attach.refusals + refused]
    /\ UNCHANGED <<queue, watched, outside>>

AttachStep == \/ EnterAttached \/ CheckSize \/ PollStdin \/ DrainFrame \/ TickEnds
              \/ DetachDrainPass \/ Replay \/ RestoreSize \/ HandBack \/ Abort

-----------------------------------------------------------------------------
(* Between attaches the host resizes the pane, and polls: handle_pty_frame. *)

\* PaneManager::resize: the calls of resize_attached_pane in the same order.
Resize ==
    /\ Idle
    /\ \E size \in Sizes : \E done \in Resizes(pane, size) : pane' = done.pane
    /\ attach' = [attach EXCEPT !.outcome = "none"]
    /\ UNCHANGED <<terminal, queue, watched, outside>>

PollFrame ==
    /\ Idle
    /\ queue # << >>
    /\ Take("settled")
    /\ \E held, fed \in BOOLEAN :
         LET f        == Head(queue)
             recorded == RecordOutputFrame(pane, {f}, held)
         IN  pane' = CASE f \in Output   -> IF fed THEN recorded ELSE FailPane(recorded)
                       [] f = "Overflow" -> pane
                       [] f = "Error"    -> FailPane(pane)
                       [] f = "Exited"   -> HandleExitFrame(pane)
    /\ UNCHANGED <<attach, terminal, outside>>

-----------------------------------------------------------------------------
(* The reader thread, the user and the real terminal. *)

QueuedOutput == Len(SelectSeq(queue, LAMBDA f : f \in Output))
HasSummary == \E i \in DOMAIN queue : queue[i] = "Overflow"

\* Output that finds the queue full becomes, or joins, an overflow summary.
ReadOutput(f) ==
    /\ reader = "reading"
    /\ f = "Watched" => watched = "unread"
    /\ LET room == QueuedOutput < QueueCapacity /\ ~HasSummary
       IN  /\ queue' = IF room THEN Append(queue, f)
                       ELSE IF HasSummary THEN queue ELSE Append(queue, "Overflow")
           /\ watched' = IF f # "Watched" THEN watched
                         ELSE IF room THEN "queued" ELSE "settled"
    /\ UNCHANGED <<pane, attach, terminal, reader, real_size, chord>>

ReadFails ==
    /\ reader = "reading"
    /\ queue' = Append(queue, "Error")
    /\ reader' = "waiting"
    /\ UNCHANGED <<pane, attach, terminal, watched, real_size, chord>>

ReaderEnds ==
    /\ reader # "done"
    /\ \E last \in {"Exited", "Error"} : queue' = Append(queue, last)
    /\ reader' = "done"
    /\ UNCHANGED <<pane, attach, terminal, watched, real_size, chord>>

TypeChord ==
    /\ Attached
    /\ chord' = TRUE
    /\ UNCHANGED <<pane, attach, terminal, queue, reader, watched, real_size>>

ResizeTerminal ==
    /\ \E size \in Sizes : real_size' = size
    /\ UNCHANGED <<pane, attach, terminal, queue, reader, watched, chord>>

Environment == \/ \E f \in Output : ReadOutput(f)
               \/ ReadFails \/ ReaderEnds \/ TypeChord \/ ResizeTerminal

Begin == \/ Refused
         \/ \E resize \in ResizePolicies, output \in OutputPolicies : Suspend(resize, output)

Next == Begin \/ AttachStep \/ Resize \/ PollFrame \/ Environment

Safe == Init /\ [][Next]_vars

(***************************************************************************)
(* Fairness: the call runs on.  It blocks its thread, and the calls it     *)
(* makes return; nothing is assumed of the child, the user or the terminal *)
(* - the child may push a frame for each frame taken.                      *)
(***************************************************************************)
Spec == Safe /\ WF_vars(AttachStep)

-----------------------------------------------------------------------------
(* Properties. *)

\* However attach_blocking ends, on whichever error in whichever stage, the
\* pane is embedded again and the host has its terminal back, unless restoring
\* it failed twice in a row; and while it runs the terminal is suspended.
HandedBack ==
    IF Idle
    THEN /\ pane.interaction_mode = "Embedded"
         /\ terminal = "host" \/ (terminal = "lost" /\ attach.refusals >= 2)
    ELSE terminal = "suspended"

\* After the attach the pane has its embedded size again, whatever the real
\* terminal's sizes were and wherever the attach broke off - unless giving it
\* back was tried in the abort, too, and failed.  And while the child runs,
\* the PTY, the surface and the size history agree on the size in every
\* stage, after failed resizes too.
Over == Idle /\ attach.outcome \in {"UserChord", "ChildExited", "Error"}
SizesAgree ==
    /\ Over /\ ~attach.resize_refused => pane.surface_size = attach.embedded_size
    /\ pane.state = "Running" => pane.pty_size = pane.surface_size
    /\ pane.last_recorded_size = pane.surface_size

\* An attach that ends without an error has put into the transcript every
\* frame it took from the queue, under either output policy, also what came
\* while detaching and what came before the child's exit.
OutputKeptOnDetach ==
    Over /\ attach.outcome # "Error" /\ watched = "taken" => pane.kept

\* A child that floods the queue without end, or resizes without end, cannot
\* keep the user attached: once the chord is typed, or the child has ended,
\* the call returns, as ticks and detach drain are bounded.
DetachUnderFlood ==
    (~Idle /\ (chord \/ reader = "done")) ~> Idle

\* The comment in handle_exit_frame: pending incomplete sequences are flushed
\* so that trailing bytes are not lost from the final plain transcript.  So
\* the transcript of a pane whose exit was handled holds nothing back.
FinalTranscriptWhole ==
    Idle /\ pane.exit_event_observed => ~pane.pending
=============================================================================
