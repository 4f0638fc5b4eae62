----------------------------- MODULE PaneManager -----------------------------
(***************************************************************************)
(* PaneManager (panesmith-core/src/manager.rs): the registry of panes, the *)
(* life of each from spawn to removal, and how the frames of its PTY turn  *)
(* into events, transcript, surface and state.                             *)
(*                                                                         *)
(* The manager is single-threaded (every operation takes &mut self), but   *)
(* each pane's reader thread goes on pushing frames between any two takes  *)
(* of the manager.  Operations that loop over try_recv (remove) or block   *)
(* (kill) are therefore several steps, kept apart by the variable manager; *)
(* every other operation is one step.  A poll takes one frame at a time,   *)
(* which max_pty_frames_per_drain = 1 does and larger limits refine.       *)
(*                                                                         *)
(* The PTY side is that of PtyProcess with its invisible steps merged:     *)
(* the reader pushes output, then at most one read error, then the exit    *)
(* or a wait error.  Attached panes, and sizes, are the subject of         *)
(* PaneAttach.                                                             *)
(***************************************************************************)
EXTENDS PtyFrameQueue, FiniteSets, Functions

CONSTANTS
    MaxId,            \* bound: the largest pane id
    MaxSpawns,        \* bound: successful spawns
    MaxReads,         \* bound: output frames of one child
    MaxInputs,        \* bound: writes to one pane
    Outcomes          \* what one output frame can do, see OutputOutcome

ASSUME ManagerAssumption ==
    /\ MaxId \in Nat /\ MaxSpawns \in Nat /\ MaxReads \in Nat /\ MaxInputs \in Nat

\* The effect of an output frame outside the manager: whether the transcript
\* holds back an incomplete sequence at its end, whether retention dropped
\* something, whether the surface accepts the bytes, whether it changed.
OutputOutcome == [held : BOOLEAN, rotated : BOOLEAN, fed : BOOLEAN, changed : BOOLEAN]
ASSUME OutcomesAssumption == Outcomes \subseteq OutputOutcome /\ Outcomes # {}
MayRotate == \E o \in Outcomes : o.rotated

VARIABLES
    panes,         \* id -> PaneRuntimeState, for the panes the manager has
    pty,           \* id -> the pane's frame queue and reader thread
    next_pane_id,
    manager,       \* the operation the manager's thread is inside of
    used,          \* history: every id a pane was spawned under
    removed        \* history: the panes removed, with their PTY, in order

vars == <<panes, pty, next_pane_id, manager, used, removed>>

Ids == 1 .. MaxId
Live == DOMAIN panes

Terminal == {"Exited", "Killed", "Failed"}

IdleManager == [op |-> "idle", id |-> 0, then_remove |-> FALSE]
Inside(op, id) == manager.op = op /\ manager.id = id
Idle == manager = IdleManager
Enter(op, id, then_remove) ==
    manager' = [op |-> op, id |-> id, then_remove |-> then_remove]

-----------------------------------------------------------------------------
(* A pane's runtime state. *)

NewPane == [ state               |-> "Starting",
             exit                |-> "none",
             exit_event_observed |-> FALSE,
             next_seq            |-> 0,
             event_log           |-> << >>,
             pending             |-> FALSE,      \* the transcript holds bytes back
             recorded            |-> 0,          \* its next_raw_offset
             inputs              |-> 0 ]         \* bounds writes

\* `what' is the payload the properties look at: the two states of a
\* StateChanged, the lost bytes of an Overflow, << >> otherwise.
PushEvent(p, kind, what) ==
    [p EXCEPT !.next_seq = @ + 1,
              !.event_log = Append(@, [kind |-> kind, seq |-> p.next_seq + 1,
                                       what |-> what])]

TransitionState(p, new) ==
    IF p.state = new THEN p
    ELSE PushEvent([p EXCEPT !.state = new], "StateChanged", <<p.state, new>>)

SetExitIfNotKilledOrFailed(p, exit) ==
    IF p.exit \in {"Killed", "Failed"} THEN p ELSE [p EXCEPT !.exit = exit]

\* Flushing held-back bytes can push retained chunks out.
FlushPending(p, rotated) ==
    LET flushed == [p EXCEPT !.pending = FALSE]
    IN  IF p.pending /\ rotated
        THEN PushEvent(flushed, "TranscriptRotated", << >>) ELSE flushed

\* mutant: only the Error event, as for a pane that has already ended
FailPaneOnlyReports(p, rotated) == PushEvent(FlushPending(p, rotated), "Error", << >>)

\* mutant: an error fails the pane even after its end
FailPaneRelabels(p, rotated) ==
    TransitionState(
        SetExitIfNotKilledOrFailed(
            PushEvent(FlushPending(p, rotated), "Error", << >>), "Failed"), "Failed")

FailPane(p, rotated) ==
    LET failed == PushEvent(FlushPending(p, rotated), "Error", << >>)
    IN  IF p.state \in {"Starting", "Running"}
        THEN TransitionState(SetExitIfNotKilledOrFailed(failed, "Failed"), "Failed")
        ELSE failed

\* Transcript first, so that the bytes are kept even when the surface fails.
RecordOutputFrame(p, bytes, o) ==
    LET kept    == [p EXCEPT !.recorded = @ + bytes, !.pending = o.held]
        rotated == IF o.rotated THEN PushEvent(kept, "TranscriptRotated", << >>) ELSE kept
        output  == PushEvent(rotated, "Output", << >>)
    IN  IF o.fed /\ o.changed THEN PushEvent(output, "SurfaceChanged", << >>) ELSE output

HandleOutputFrame(p, bytes, o, flush_rotates) ==
    LET recorded == RecordOutputFrame(p, bytes, o)
    IN  IF o.fed THEN recorded ELSE FailPane(recorded, flush_rotates)

\* mutant: held-back bytes are flushed after the Exited event
HandleExitFrameFlushesLate(p, rotated) ==
    LET exited == FlushPending(PushEvent([p EXCEPT !.exit_event_observed = TRUE],
                                         "Exited", << >>), rotated)
    IN  IF p.state \in {"Starting", "Running"}
        THEN TransitionState(SetExitIfNotKilledOrFailed(exited, "Exited"), "Exited")
        ELSE exited

HandleExitFrame(p, rotated) ==
    LET exited == PushEvent(FlushPending([p EXCEPT !.exit_event_observed = TRUE], rotated),
                            "Exited", << >>)
    IN  IF p.state \in {"Starting", "Running"}
        THEN TransitionState(SetExitIfNotKilledOrFailed(exited, "Exited"), "Exited")
        ELSE exited

HandlePtyFrame(p, f, o, flush_rotates) ==
    CASE f.kind = "Output"   -> HandleOutputFrame(p, f.bytes, o, flush_rotates)
      [] f.kind = "Overflow" -> PushEvent(p, "Overflow", <<f.bytes>>)
      [] f.kind = "Error"    -> FailPane(p, flush_rotates)
      [] f.kind = "Exited"   -> HandleExitFrame(p, flush_rotates)

\* try_recv and the handling of the frame it returned.
TakeFrame(id) ==
    LET q == pty[id].queue
    IN  /\ q.frames # << >>
        /\ \E o \in Outcomes, flush_rotates \in {FALSE, MayRotate} :
             panes' = [panes EXCEPT ![id] =
                         HandlePtyFrame(@, Head(q.frames), o, flush_rotates)]
        /\ pty' = [pty EXCEPT ![id].queue = Popped(@)]

-----------------------------------------------------------------------------
(* The reader threads. *)

NewPty == [queue |-> EmptyQueue, seq |-> 0, phase |-> "reading", produced |-> 0]

Read(id, f, phase) ==
    /\ pty' = [pty EXCEPT ![id] = [queue    |-> Push(@.queue, f),
                                   seq      |-> @.seq + 1,
                                   phase    |-> phase,
                                   produced |-> @.produced + f.bytes]]
    /\ UNCHANGED <<panes, next_pane_id, manager, used, removed>>

ReaderOutput(id) ==
    /\ pty[id].phase = "reading"
    /\ pty[id].seq < MaxReads
    /\ Read(id, OutputFrame(pty[id].seq + 1, 1), "reading")

ReaderError(id) ==
    /\ pty[id].phase = "reading"
    /\ Read(id, ControlFrame("Error", pty[id].seq + 1), "waiting")

ReaderEnds(id) ==
    /\ pty[id].phase \in {"reading", "waiting"}
    /\ \E kind \in {"Exited", "Error"} :
         Read(id, ControlFrame(kind, pty[id].seq + 1), "done")

Reader(id) == ReaderOutput(id) \/ ReaderError(id) \/ ReaderEnds(id)

-----------------------------------------------------------------------------
(* spawn: an explicit id, or the next one. *)

\* mutant: an explicit id resets the counter
NextPaneIdForgets(id) == id

NextPaneIdAfter(id) == IF id > next_pane_id THEN id ELSE next_pane_id

SpawnAs(id) ==
    /\ next_pane_id' = NextPaneIdAfter(id)
    /\ \/ \* refused: the id is taken, or surface or PTY cannot be created
          UNCHANGED <<panes, pty, used>>
       \/ /\ id \notin Live
          /\ Len(removed) + Cardinality(Live) < MaxSpawns
          /\ panes' = [i \in Live \cup {id} |->
                         IF i = id
                         THEN TransitionState(PushEvent(NewPane, "Spawned", << >>), "Running")
                         ELSE panes[i]]
          /\ pty' = [i \in Live \cup {id} |-> IF i = id THEN NewPty ELSE pty[i]]
          /\ used' = used \cup {id}
    /\ UNCHANGED <<manager, removed>>

SpawnExplicit == Idle /\ \E id \in Ids : SpawnAs(id)
SpawnAuto     == Idle /\ next_pane_id < MaxId /\ SpawnAs(next_pane_id + 1)

-----------------------------------------------------------------------------
(* Any operation that polls first: snapshot, drain_events, and so on. *)

PollFrame(id) ==
    /\ Idle
    /\ TakeFrame(id)
    /\ UNCHANGED <<next_pane_id, manager, used, removed>>

-----------------------------------------------------------------------------
(* kill and kill_and_remove: process.kill() blocks until the reader thread *)
(* is joined, or fails and leaves everything as it was.                    *)

BeginKill(id, then_remove) ==
    /\ Idle
    /\ panes[id].state = "Running"
    /\ Enter("kill", id, then_remove)
    /\ UNCHANGED <<panes, pty, next_pane_id, used, removed>>

KillFails(id) ==
    /\ Inside("kill", id)
    /\ manager' = IdleManager
    /\ UNCHANGED <<panes, pty, next_pane_id, used, removed>>

KillReturns(id) ==
    /\ Inside("kill", id)
    /\ pty[id].phase = "done"
    /\ panes' = [panes EXCEPT ![id] =
                   TransitionState(SetExitIfNotKilledOrFailed(@, "Killed"), "Killed")]
    /\ IF manager.then_remove THEN Enter("remove", id, FALSE) ELSE manager' = IdleManager
    /\ UNCHANGED <<pty, next_pane_id, used, removed>>

-----------------------------------------------------------------------------
(* remove: drain, check, drain again, flush, drop.  A kill has joined the  *)
(* reader thread, and so has an exit been its last frame; that of a pane   *)
(* that failed may still run, and pushes on until the drop joins it.       *)

BeginRemove(id) ==
    /\ Idle
    /\ Enter("remove", id, FALSE)
    /\ UNCHANGED <<panes, pty, next_pane_id, used, removed>>

RemoveDrains(id) ==
    /\ Inside("remove", id) \/ Inside("flush", id)
    /\ TakeFrame(id)
    /\ UNCHANGED <<next_pane_id, manager, used, removed>>

RemoveChecks(id) ==
    /\ Inside("remove", id)
    /\ pty[id].queue.frames = << >>
    /\ IF panes[id].state \in Terminal THEN Enter("flush", id, FALSE)
                                       ELSE manager' = IdleManager
    /\ UNCHANGED <<panes, pty, next_pane_id, used, removed>>

\* mutant: held-back bytes go with the pane
FlushedForRemovalKeepsPending(p, rotated) ==
    IF p.state \in {"Killed", "Failed"} /\ ~p.exit_event_observed
    THEN PushEvent([p EXCEPT !.exit_event_observed = TRUE], "Exited", << >>)
    ELSE p

\* A pane that died without an exit frame gets a synthetic exit event.
FlushedForRemoval(p, rotated) ==
    LET flushed == FlushPending(p, rotated)
    IN  IF p.state \in {"Killed", "Failed"} /\ ~p.exit_event_observed
        THEN PushEvent([flushed EXCEPT !.exit_event_observed = TRUE], "Exited", << >>)
        ELSE flushed

\* The last try_recv finds the queue empty.
RemoveDrained(id) ==
    /\ Inside("flush", id)
    /\ pty[id].queue.frames = << >>
    /\ Enter("drop", id, FALSE)
    /\ UNCHANGED <<panes, pty, next_pane_id, used, removed>>

\* The flush, and the drop of the process, which kills what still runs and
\* joins the thread; what that pushed meanwhile goes with the queue.
RemoveFinishes(id) ==
    /\ Inside("drop", id)
    /\ pty[id].phase = "done"
    /\ \E rotated \in {FALSE, MayRotate} :
         removed' = Append(removed, [id   |-> id,
                                     pane |-> FlushedForRemoval(panes[id], rotated),
                                     pty  |-> pty[id]])
    /\ panes' = Restrict(panes, Live \ {id})
    /\ pty' = Restrict(pty, Live \ {id})
    /\ manager' = IdleManager
    /\ UNCHANGED <<next_pane_id, used>>

-----------------------------------------------------------------------------
(* Input. *)

\* send_raw_bytes: a terminated pane, or a failed write, reports an Error
\* event and does not change the state.
SendRawBytes(id) ==
    /\ Idle
    /\ panes[id].inputs < MaxInputs
    /\ \E written \in BOOLEAN :
         /\ written => panes[id].state \notin Terminal
         /\ panes' = [panes EXCEPT ![id] =
                        PushEvent([panes[id] EXCEPT !.inputs = @ + 1],
                                  IF written THEN "InputSent" ELSE "Error", << >>)]
    /\ UNCHANGED <<pty, next_pane_id, manager, used, removed>>

-----------------------------------------------------------------------------
Init ==
    /\ panes = << >> /\ pty = << >>
    /\ next_pane_id = 0
    /\ manager = IdleManager
    /\ used = {} /\ removed = << >>

Removal(id) ==
    RemoveDrains(id) \/ RemoveChecks(id) \/ RemoveDrained(id) \/ RemoveFinishes(id)

Operation(id) == \/ PollFrame(id)
                 \/ \E then_remove \in BOOLEAN : BeginKill(id, then_remove)
                 \/ KillFails(id) \/ KillReturns(id)
                 \/ BeginRemove(id) \/ Removal(id)
                 \/ SendRawBytes(id)

Next == \/ SpawnExplicit \/ SpawnAuto
        \/ \E id \in Live : Reader(id) \/ Operation(id)

Safe == Init /\ [][Next]_vars

(***************************************************************************)
(* Fairness: every reader thread comes to its end, the manager finishes a  *)
(* call it is inside of, and the host polls again and again whatever else  *)
(* it calls in between - strong fairness, as each such call makes polling  *)
(* impossible for its duration.  An embedding host polls in its UI loop    *)
(* (docs/embedding.md); nothing else in the manager takes frames.          *)
(***************************************************************************)
Fairness ==
    \A id \in Ids :
        /\ WF_vars(id \in Live /\ ReaderEnds(id))
        /\ WF_vars(id \in Live /\ (KillFails(id) \/ KillReturns(id)))
        /\ WF_vars(id \in Live /\ Removal(id))
        /\ SF_vars(id \in Live /\ PollFrame(id))

Spec == Safe /\ Fairness

-----------------------------------------------------------------------------
(* Properties. *)

\* Every pane there is or was, with its PTY.
Histories == {[pane |-> panes[id], pty |-> pty[id]] : id \in Live}
             \cup Range(removed)
EveryPane == {h.pane : h \in Histories}

Positions(p, kinds) == {i \in DOMAIN p.event_log : p.event_log[i].kind \in kinds}

\* A consumer of events sees each pane end once: never two Exited events,
\* whatever read errors, kills and drains came first, and exactly one by the
\* time the pane has been removed.  It closes the pane's output: no output,
\* loss or transcript event follows, and the transcript holds nothing back.
ExitReportedOnce ==
    /\ \A p \in EveryPane : Cardinality(Positions(p, {"Exited"})) =
                               IF p.exit_event_observed THEN 1 ELSE 0
    /\ \A i \in DOMAIN removed : removed[i].pane.exit_event_observed
    /\ \A p \in EveryPane : \A e \in Positions(p, {"Exited"}) :
         /\ \A i \in Positions(p, {"Output", "Overflow", "TranscriptRotated",
                                     "SurfaceChanged"}) : i < e
         /\ ~p.pending

\* A host that replays the StateChanged events always holds the pane's true
\* state: each starts where the one before it ended, the first in Starting,
\* and a pane that has ended is never revived or relabelled.  What remove()
\* returns agrees: the first of exit, failure and kill decides, and what the
\* PTY reports afterwards does not.
LogExplainsState ==
    \A p \in EveryPane :
        LET log     == p.event_log
            changes == Positions(p, {"StateChanged"})
        IN  /\ changes # {}
            /\ \A i \in changes :
                 /\ (\A j \in changes : i <= j) => log[i].what[1] = "Starting"
                 /\ (\A j \in changes : j <= i) => log[i].what[2] = p.state
                 /\ \A j \in changes :
                      /\ i < j /\ (\A k \in changes : k <= i \/ j <= k)
                           => log[j].what[1] = log[i].what[2]
                      /\ {log[i].what[2], log[j].what[2]} \subseteq Terminal => i = j
            /\ p.exit = IF p.state \in Terminal THEN p.state ELSE "none"

\* When a pane is removed, every byte of output its reader thread produced is
\* in the transcript or counted in an Overflow event - also what kill left in
\* the queue while it waited for the thread and nobody drained - with nothing
\* held back, or it is still in the queue that was dropped.  Only a pane that
\* failed, whose thread may have run on after the last try_recv, drops
\* anything that way, and nobody is told of it.
LostBytes(p) ==
    Total([i \in DOMAIN p.event_log |->
             IF p.event_log[i].kind = "Overflow" THEN p.event_log[i].what[1] ELSE 0])
Unreported(t) == Total([i \in DOMAIN t.queue.frames |-> t.queue.frames[i].bytes])
OutputAccounted ==
    \A i \in DOMAIN removed :
        LET p == removed[i].pane  t == removed[i].pty
        IN  /\ p.recorded + LostBytes(p) + Unreported(t) = t.produced /\ ~p.pending
            /\ p.state # "Failed" => t.queue.frames = << >>

\* An id the manager chooses was never used before, not even explicitly and
\* not by a pane that is gone: stale handles cannot reach a new pane.
AutoIdFresh == next_pane_id + 1 \notin used

\* A polling host learns of the end of every pane, whether the reader thread
\* ended with an exit, a read error or a failed wait.
ExitNoticed ==
    \A id \in Ids :
        (id \in Live /\ pty[id].phase = "done") ~>
            (id \in Live => panes[id].state \in Terminal)
=============================================================================
