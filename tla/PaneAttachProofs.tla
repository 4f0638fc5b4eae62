--------------------------- MODULE PaneAttachProofs ---------------------------
(***************************************************************************)
(* Proofs about PaneAttach, for every set of sizes, every bound and every  *)
(* choice of policies.                                                     *)
(*                                                                         *)
(* The three safety properties speak of a call that is over; what a step   *)
(* inside the call must keep is the strengthening.  Sizes (SizeInv): a     *)
(* pane attached with KeepEmbeddedSize never leaves its embedded size, and *)
(* under UseRealTerminalSize it has it again once restored_embedded_size   *)
(* is set, so the abort may skip the resize then.  Output (OutputInv): the *)
(* watched frame, once taken, is in the transcript or still in the replay, *)
(* unless the call is aborting - and behind the replay only the first.     *)
(***************************************************************************)
EXTENDS PaneAttach, TLAPS

FrameKinds == Output \cup {"Exited", "Error", "Overflow"}
Stages == {"idle", "enter", "size", "stdin", "output", "drain", "replay",
           "restore_size", "hand_back", "abort"}
Outcomes == {"none", "Refused", "UserChord", "ChildExited", "Error"}

PaneType ==
    [ state : {"Running", "Failed", "Exited"},
      interaction_mode : {"Embedded", "Attaching", "Attached", "Detaching"},
      surface_size : Sizes, pty_size : Sizes, last_recorded_size : Sizes,
      pending : BOOLEAN, kept : BOOLEAN, exit_event_observed : BOOLEAN ]

AttachType ==
    [ stage : Stages, outcome : Outcomes,
      resize : ResizePolicies \cup {"KeepEmbeddedSize"},
      output : OutputPolicies \cup {"FanoutToSurfaceAndStdout"},
      embedded_size : Sizes, terminal_size : Sizes, replay : SUBSET Output,
      drained : Nat, passes : Nat, child_exited : BOOLEAN, restored : BOOLEAN,
      resize_refused : BOOLEAN, refusals : Nat ]

TypeOK ==
    /\ pane \in PaneType
    /\ attach \in AttachType
    /\ terminal \in {"host", "suspended", "lost"}
    /\ queue \in Seq(FrameKinds)
    /\ reader \in {"reading", "waiting", "done"}
    /\ watched \in {"unread", "queued", "taken", "settled"}
    /\ real_size \in Sizes
    /\ chord \in BOOLEAN

\* Where the pane must already have its embedded size while the call runs.
SizeInv ==
    /\ SizesAgree
    /\ ~Idle /\ attach.resize = "KeepEmbeddedSize" =>
          pane.surface_size = attach.embedded_size
    /\ attach.restored => /\ attach.stage \in {"hand_back", "abort"}
                          /\ pane.surface_size = attach.embedded_size
    /\ attach.stage = "hand_back" => pane.surface_size = attach.embedded_size

\* Where the watched frame is once the call has taken it from the queue.
OutputInv ==
    /\ OutputKeptOnDetach
    /\ ~Idle /\ attach.stage # "abort" /\ watched = "taken" =>
          pane.kept \/ "Watched" \in attach.replay
    /\ attach.stage \in {"restore_size", "hand_back"} => attach.replay = {}

IInv == TypeOK /\ HandedBack /\ SizeInv /\ OutputInv

-----------------------------------------------------------------------------
(* The pane's operations. *)

\* The sizes of SizesAgree, of a pane.
Agrees(p) ==
    /\ p.state = "Running" => p.pty_size = p.surface_size
    /\ p.last_recorded_size = p.surface_size

\* However resize_attached_pane ends, the three sizes agree still; when it
\* succeeds the surface has the new size, when it fails the pane is unchanged.
LEMMA ResizesAgree ==
    ASSUME NEW p \in PaneType, Agrees(p), NEW size \in Sizes,
           NEW done \in Resizes(p, size)
    PROVE  /\ done.pane \in PaneType /\ Agrees(done.pane)
           /\ done.pane.kept = p.kept
           /\ done.pane.interaction_mode = p.interaction_mode
           /\ done.ok \in BOOLEAN
           /\ done.ok => done.pane.surface_size = size
           /\ ~done.ok => done.pane = p
<1>1. done = Done(FALSE, p) \/ done = Done(TRUE, Resized(p, size))
  BY DEF Resizes
<1>2. CASE done = Done(FALSE, p)
  BY <1>2 DEF Done
<1>3. CASE done = Done(TRUE, Resized(p, size))
  <2>1. done.pane = Resized(p, size) /\ done.ok = TRUE
    BY <1>3 DEF Done
  <2>2. Resized(p, size) \in PaneType
    BY DEF Resized, PaneType
  <2>3. /\ Resized(p, size).surface_size = size
        /\ Resized(p, size).last_recorded_size = size
        /\ Resized(p, size).state = p.state
        /\ p.state = "Running" => Resized(p, size).pty_size = size
    BY DEF Resized, PaneType
  <2>4. /\ Resized(p, size).kept = p.kept
        /\ Resized(p, size).interaction_mode = p.interaction_mode
    BY DEF Resized, PaneType
  <2>5. QED
    BY <2>1, <2>2, <2>3, <2>4 DEF Agrees
<1>4. QED
  BY <1>1, <1>2, <1>3

\* What an attach's resize does under its policy: with KeepEmbeddedSize it
\* leaves the pane as it is.
LEMMA ResizesIfRealAgree ==
    ASSUME NEW p \in PaneType, Agrees(p), NEW size \in Sizes,
           NEW done \in ResizesIfReal(p, size)
    PROVE  /\ done.pane \in PaneType /\ Agrees(done.pane)
           /\ done.pane.kept = p.kept
           /\ done.pane.interaction_mode = p.interaction_mode
           /\ done.ok \in BOOLEAN
           /\ done.ok /\ attach.resize = "UseRealTerminalSize" =>
                 done.pane.surface_size = size
           /\ ~done.ok \/ attach.resize # "UseRealTerminalSize" => done.pane = p
           /\ ~done.ok => attach.resize = "UseRealTerminalSize"
<1>1. CASE attach.resize = "UseRealTerminalSize"
  <2>1. done \in Resizes(p, size)
    BY <1>1 DEF ResizesIfReal
  <2>2. QED
    BY <1>1, <2>1, ResizesAgree
<1>2. CASE attach.resize # "UseRealTerminalSize"
  <2>1. done = Done(TRUE, p)
    BY <1>2 DEF ResizesIfReal
  <2>2. QED
    BY <1>2, <2>1 DEF Done
<1>3. QED
  BY <1>1, <1>2

\* Recording output leaves the sizes and the mode alone, and a frame once in
\* the transcript stays there.
LEMMA RecordKeeps ==
    ASSUME NEW p \in PaneType, NEW fs \in SUBSET Output, NEW held \in BOOLEAN
    PROVE  LET q == RecordOutputFrame(p, fs, held)
           IN  /\ q \in PaneType /\ (Agrees(p) => Agrees(q))
               /\ q.surface_size = p.surface_size
               /\ q.interaction_mode = p.interaction_mode
               /\ q.kept <=> p.kept \/ "Watched" \in fs
BY DEF RecordOutputFrame, PaneType, Agrees

\* So does a pane's failure,
LEMMA FailKeeps ==
    ASSUME NEW p \in PaneType
    PROVE  LET q == FailPane(p)
           IN  /\ q \in PaneType /\ (Agrees(p) => Agrees(q))
               /\ q.surface_size = p.surface_size
               /\ q.interaction_mode = p.interaction_mode
               /\ q.kept <=> p.kept
BY DEF FailPane, PaneType, Agrees

\* and the child's exit.
LEMMA ExitKeeps ==
    ASSUME NEW p \in PaneType
    PROVE  LET q == HandleExitFrame(p)
           IN  /\ q \in PaneType /\ (Agrees(p) => Agrees(q))
               /\ q.surface_size = p.surface_size
               /\ q.interaction_mode = p.interaction_mode
               /\ q.kept <=> p.kept
BY DEF HandleExitFrame, PaneType, Agrees

-----------------------------------------------------------------------------
(* The inductive invariant. *)

\* attach_blocking has not been called yet.
LEMMA InitInv == ASSUME Init PROVE IInv
<1> USE AttachAssumption
<1>1. pane \in PaneType
  BY DEF Init, PaneType
<1>2. attach \in AttachType
  BY DEF Init, NoAttach, AttachType, Stages, Outcomes
<1>3. TypeOK
  <2>1. << >> \in Seq(FrameKinds)
    OBVIOUS
  <2>2. QED
    BY <1>1, <1>2, <2>1 DEF Init, TypeOK
<1>4. attach.stage = "idle" /\ attach.outcome = "none" /\ ~attach.restored
  BY DEF Init, NoAttach
<1>5. HandedBack
  BY <1>4 DEF Init, HandedBack, Idle
<1>6. SizeInv
  BY <1>4 DEF Init, SizeInv, SizesAgree, Idle, Over
<1>7. OutputInv
  BY <1>4 DEF Init, OutputInv, OutputKeptOnDetach, Idle, Over
<1>8. QED
  BY <1>3, <1>5, <1>6, <1>7 DEF IInv

\* What the steps of the call and the frames of the queue do to the pane: at
\* most its state, its mode and the transcript change.
Keeps(p, q) ==
    /\ q \in PaneType /\ Agrees(q)
    /\ q.surface_size = p.surface_size
    /\ p.kept => q.kept

\* What the steps between leave of the call's locals.
SameCall(a, b) ==
    /\ b.outcome = a.outcome /\ b.resize = a.resize /\ b.restored = a.restored
    /\ b.embedded_size = a.embedded_size

\* A frame that is drained goes through one of three things that can happen to
\* the pane; whatever is taken from the queue is kept for the transcript, or
\* the call aborts.
LEMMA DrainKeeps ==
    ASSUME TypeOK, Agrees(pane), Head(queue) \in FrameKinds, DrainFrame
    PROVE  /\ Keeps(pane, pane')
           /\ attach' \in AttachType
           /\ SameCall(attach, attach')
           /\ attach'.stage \in {attach.stage, "abort"}
           /\ attach.replay \subseteq attach'.replay
           /\ Head(queue) = "Watched" /\ attach'.stage # "abort" =>
                 pane'.kept \/ "Watched" \in attach'.replay
<1> DEFINE f == Head(queue)
<1> USE DEF Keeps
<1>1. f \in FrameKinds /\ pane \in PaneType /\ attach \in AttachType /\ HandleFrame(f)
  BY DEF TypeOK, DrainFrame
<1>2. attach.stage # "abort"
  BY DEF DrainFrame, Draining
<1> HIDE DEF f
<1>3. f \in Output => {f} \in SUBSET Output
  OBVIOUS
<1>4. ASSUME f \in Output, NEW held \in BOOLEAN, OutputFrame(f, held)
      PROVE  /\ Keeps(pane, pane')
             /\ f = "Watched" /\ attach'.stage # "abort" =>
                   pane'.kept \/ "Watched" \in attach'.replay
  <2>1. CASE Abandons /\ UNCHANGED pane
    BY <1>1, <2>1 DEF Abandons, Goes, AttachType
  <2>2. CASE pane' = RecordOutputFrame(pane, {f}, held)
    BY <1>3, <1>1, <1>4, <2>2, RecordKeeps
  <2>3. CASE pane' = FailPane(RecordOutputFrame(pane, {f}, held))
    <3>1. RecordOutputFrame(pane, {f}, held) \in PaneType
      BY <1>3, <1>1, <1>4, RecordKeeps
    <3>2. QED
      BY <1>3, <1>1, <1>4, <2>3, <3>1, RecordKeeps, FailKeeps
  <2>4. CASE /\ attach' = [attach EXCEPT !.drained = @ + 1, !.replay = @ \cup {f}]
             /\ UNCHANGED pane
    BY <1>1, <2>4 DEF AttachType
  <2>5. QED
    BY <1>4, <2>1, <2>2, <2>3, <2>4 DEF OutputFrame
<1>5. Keeps(pane, pane')
  BY <1>1, <1>4, FailKeeps, ExitKeeps DEF HandleFrame
<1>6. /\ "abort" \in Stages /\ attach.drained + 1 \in Nat
      /\ f \in Output => attach.replay \cup {f} \in SUBSET Output
  BY <1>3, <1>1 DEF Stages, AttachType
<1>7. attach' \in AttachType
  BY <1>1, <1>6 DEF HandleFrame, OutputFrame, Abandons, Goes, AttachType
<1>8. SameCall(attach, attach')
  BY <1>1 DEF HandleFrame, OutputFrame, Abandons, Goes, AttachType, SameCall
<1>9. attach'.stage \in {attach.stage, "abort"}
  BY <1>1 DEF HandleFrame, OutputFrame, Abandons, Goes, AttachType
<1>10. attach.replay \subseteq attach'.replay
  BY <1>1, <1>6 DEF HandleFrame, OutputFrame, Abandons, Goes, AttachType
<1>11. f = "Watched" /\ attach'.stage # "abort" =>
         pane'.kept \/ "Watched" \in attach'.replay
  BY <1>1, <1>4 DEF HandleFrame
<1>12. QED
  BY <1>5, <1>7, <1>9, <1>11, <1>10, <1>8 DEF f

\* A frame that is drained is one of those pushed.
LEMMA HeadKind == ASSUME TypeOK, DrainFrame PROVE Head(queue) \in FrameKinds
BY DEF TypeOK, DrainFrame

\* The replay puts what was withheld into the transcript, also when feeding it
\* to the surface fails.
LEMMA ReplayKeeps ==
    ASSUME TypeOK, Agrees(pane), Replay
    PROVE  /\ Keeps(pane, pane')
           /\ attach' \in AttachType
           /\ SameCall(attach, attach') /\ attach'.replay = {}
           /\ attach'.stage \in {"restore_size", "abort"}
           /\ "Watched" \in attach.replay => pane'.kept
<1> USE DEF Keeps
<1>1. pane \in PaneType /\ attach \in AttachType /\ attach.replay \in SUBSET Output
  BY DEF TypeOK, AttachType
<1>2. CASE attach.replay = {}
  <2>1. pane' = pane /\ attach' = [attach EXCEPT !.stage = "restore_size"]
    BY <1>2 DEF Replay, Goes
  <2>2. QED
    BY <1>1, <1>2, <2>1 DEF AttachType, Stages, SameCall
<1>3. CASE attach.replay # {}
  <2>1. PICK held \in BOOLEAN, fed \in BOOLEAN :
          LET recorded == RecordOutputFrame(pane, attach.replay, held)
          IN  /\ pane' = IF fed THEN recorded ELSE FailPane(recorded)
              /\ attach' = [attach EXCEPT
                     !.stage = IF fed THEN "restore_size" ELSE "abort",
                     !.replay = {}]
    BY <1>3, Zenon DEF Replay
  <2> DEFINE recorded == RecordOutputFrame(pane, attach.replay, held)
  <2>2. /\ Keeps(pane, recorded)
        /\ "Watched" \in attach.replay => recorded.kept
    BY <1>1, RecordKeeps
  <2>3. pane' = recorded \/ pane' = FailPane(recorded)
    BY <2>1
  <2> HIDE DEF recorded
  <2>4. Keeps(pane, pane') /\ ("Watched" \in attach.replay => pane'.kept)
    BY <2>2, <2>3, FailKeeps
  <2>5. attach' = [attach EXCEPT !.stage = IF fed THEN "restore_size" ELSE "abort",
                                 !.replay = {}]
    BY <2>1
  <2>6. QED
    BY <1>1, <2>4, <2>5 DEF AttachType, Stages, SameCall
<1>4. QED
  BY <1>2, <1>3

\* handle_pty_frame of a frame the host polls.
LEMMA PollKeeps ==
    ASSUME TypeOK, Agrees(pane), PollFrame
    PROVE  Keeps(pane, pane') /\ pane'.interaction_mode = pane.interaction_mode
<1> USE DEF Keeps
<1>1. pane \in PaneType /\ Head(queue) \in FrameKinds
  BY DEF TypeOK, PollFrame
<1>2. PICK held \in BOOLEAN, fed \in BOOLEAN :
        LET f        == Head(queue)
            recorded == RecordOutputFrame(pane, {f}, held)
        IN  pane' = CASE f \in Output   -> IF fed THEN recorded ELSE FailPane(recorded)
                      [] f = "Overflow" -> pane
                      [] f = "Error"    -> FailPane(pane)
                      [] f = "Exited"   -> HandleExitFrame(pane)
  BY DEF PollFrame
<1> DEFINE recorded == RecordOutputFrame(pane, {Head(queue)}, held)
<1>3. CASE Head(queue) \in Output
  <2>1. {Head(queue)} \in SUBSET Output
    BY <1>3
  <2>2. /\ Keeps(pane, recorded)
        /\ recorded.interaction_mode = pane.interaction_mode
    BY <1>1, <2>1, RecordKeeps
  <2>3. pane' = recorded \/ pane' = FailPane(recorded)
    <3>1. Head(queue) \notin {"Overflow", "Error", "Exited"}
      BY <1>3 DEF Output
    <3> HIDE DEF recorded
    <3>2. QED
      BY <1>2, <1>3, <3>1 DEF recorded
  <2> HIDE DEF recorded
  <2>4. QED
    BY <2>2, <2>3, FailKeeps
<1>4. CASE Head(queue) \notin Output
  <2>1. pane' \in {pane, FailPane(pane), HandleExitFrame(pane)}
    BY <1>1, <1>2, <1>4 DEF FrameKinds, Output
  <2>2. QED
    BY <1>1, <2>1, FailKeeps, ExitKeeps
<1>5. QED
  BY <1>3, <1>4

\* The record of a call that has returned.
LEMMA EndedType ==
    ASSUME attach \in AttachType, NEW outcome \in Outcomes
    PROVE  /\ Ended(outcome) \in AttachType
           /\ Ended(outcome).stage = "idle" /\ Ended(outcome).outcome = outcome
           /\ Ended(outcome).embedded_size = attach.embedded_size
           /\ Ended(outcome).restored = FALSE /\ Ended(outcome).replay = {}
<1> USE AttachAssumption
<1>1. attach.embedded_size \in Sizes
  BY DEF AttachType
<1>2. NoAttach(outcome) \in AttachType
  BY DEF NoAttach, AttachType, Stages
<1>3. /\ NoAttach(outcome).stage = "idle" /\ NoAttach(outcome).outcome = outcome
      /\ NoAttach(outcome).restored = FALSE /\ NoAttach(outcome).replay = {}
  BY DEF NoAttach
<1> DEFINE n == NoAttach(outcome)
<1> HIDE DEF n
<1>4. QED
  BY <1>1, <1>2, <1>3 DEF Ended, AttachType, n

\* How the abort leaves the sizes: the embedded size is back, unless giving it
\* back failed; and it is not tried again when it was already back.
LEMMA AbortSizesAgree ==
    ASSUME TypeOK, Agrees(pane), SizeInv, attach.stage = "abort",
           NEW done \in AbortSizes
    PROVE  /\ done.pane \in PaneType /\ Agrees(done.pane)
           /\ done.pane.kept = pane.kept /\ done.ok \in BOOLEAN
           /\ done.ok => done.pane.surface_size = attach.embedded_size
<1>1. CASE attach.restored
  <2>1. done = Done(TRUE, pane)
    BY <1>1 DEF AbortSizes
  <2>2. QED
    BY <1>1, <2>1 DEF Done, TypeOK, SizeInv, Idle
<1>2. CASE ~attach.restored
  <2>1. done \in ResizesIfReal(pane, attach.embedded_size)
    BY <1>2 DEF AbortSizes
  <2>2. attach.embedded_size \in Sizes /\ pane \in PaneType
    BY DEF TypeOK, AttachType
  <2>3. CASE attach.resize = "UseRealTerminalSize"
    BY <2>1, <2>2, <2>3, ResizesIfRealAgree
  <2>4. CASE attach.resize # "UseRealTerminalSize"
    <3>1. attach.resize = "KeepEmbeddedSize"
      BY <2>4, AttachAssumption DEF TypeOK, AttachType
    <3>2. QED
      BY <2>1, <2>2, <2>4, <3>1, ResizesIfRealAgree DEF SizeInv, Idle
  <2>5. QED
    BY <2>3, <2>4
<1>3. QED
  BY <1>1, <1>2

\* The variables' types: one step per action.
LEMMA StepTypeOK == IInv /\ [Next]_vars => TypeOK'
<1> SUFFICES ASSUME IInv, [Next]_vars PROVE TypeOK'
  OBVIOUS
<1> USE DEF TypeOK
<1>1. TypeOK /\ Agrees(pane)
  BY DEF IInv, SizeInv, SizesAgree, Agrees
<1>2. /\ \A name \in {"size", "stdin", "output", "drain", "replay", "restore_size",
                       "hand_back", "abort"} : name \in Stages
      /\ \A name \in {"Refused", "UserChord", "ChildExited", "none", "Error"} :
            name \in Outcomes
      /\ attach.drained + 1 \in Nat /\ attach.passes + 1 \in Nat
      /\ attach.refusals + 1 \in Nat /\ 0 \in Nat /\ attach.outcome \in Outcomes
  BY <1>1 DEF Stages, Outcomes, AttachType
<1>3. CASE Refused
  BY <1>1, <1>3 DEF Refused, AttachType, Outcomes, outside
<1>4. ASSUME NEW resize \in ResizePolicies, NEW output \in OutputPolicies,
             Suspend(resize, output)
      PROVE  TypeOK'
  <2>1. pane' \in PaneType
    BY <1>1, <1>4 DEF Suspend, PaneType
  <2>2. attach' = [NoAttach("none") EXCEPT !.stage = "enter", !.resize = resize,
                       !.output = output, !.terminal_size = real_size,
                       !.embedded_size = pane.surface_size]
    BY <1>4 DEF Suspend
  <2>3. pane.surface_size \in Sizes /\ real_size \in Sizes
    BY <1>1 DEF PaneType
  <2>4. attach' \in AttachType
    BY <2>2, <2>3 DEF NoAttach, AttachType, Stages, Outcomes
  <2>5. QED
    BY <1>1, <1>4, <2>1, <2>4 DEF Suspend, outside
<1>5. CASE EnterAttached
  <2>1. PICK done \in ResizesIfReal(pane, attach.terminal_size), rendered \in BOOLEAN :
          /\ pane' = IF done.ok THEN [done.pane EXCEPT !.interaction_mode = "Attached"]
                     ELSE done.pane
          /\ IF done.ok /\ rendered THEN Goes("size") ELSE Abandons
    BY <1>5 DEF EnterAttached
  <2>2. done.pane \in PaneType
    BY <1>1, ResizesIfRealAgree DEF AttachType
  <2>3. pane' \in PaneType
    BY <2>1, <2>2 DEF PaneType
  <2>4. attach' \in AttachType
    BY <1>2, <1>1, <2>1 DEF Goes, Abandons, AttachType
  <2>5. QED
    BY <1>1, <1>5, <2>3, <2>4 DEF EnterAttached, outside
<1>6. CASE CheckSize
  <2>1. attach' \in AttachType
    BY ZenonT(30), <1>1, <1>2, <1>6 DEF CheckSize, Goes, Abandons, AttachType
  <2>2. CASE pane' = pane
    BY <1>1, <1>6, <2>1, <2>2 DEF CheckSize, outside
  <2>3. ASSUME NEW done \in ResizesIfReal(pane, real_size), pane' = done.pane
        PROVE  pane' \in PaneType
    BY <1>1, <2>3, ResizesIfRealAgree
  <2>4. QED
    BY <1>1, <1>6, <2>1, <2>2, <2>3 DEF CheckSize, outside, Done
<1>7. CASE PollStdin
  <2>1. pane' \in PaneType
    BY <1>1, <1>7 DEF PollStdin, PaneType
  <2>2. attach' \in AttachType
    BY ZenonT(30), <1>1, <1>2, <1>7 DEF PollStdin, Goes, Abandons, AttachType
  <2>3. QED
    BY <1>1, <1>7, <2>1, <2>2 DEF PollStdin
<1>8. CASE DrainFrame
  <2>1. queue' \in Seq(FrameKinds) /\ Head(queue) \in FrameKinds
    BY <1>1, <1>8 DEF DrainFrame, Take
  <2>2. pane' \in PaneType /\ attach' \in AttachType
    BY <1>1, <1>8, <2>1, DrainKeeps DEF Keeps
  <2>3. watched' \in {"unread", "queued", "taken", "settled"}
    BY <1>1, <1>8 DEF DrainFrame, Take
  <2>4. QED
    BY <1>1, <1>8, <2>1, <2>2, <2>3 DEF DrainFrame, outside
<1>9. CASE TickEnds
  <2>1. pane' \in PaneType
    BY <1>1, <1>9 DEF TickEnds, PaneType
  <2>2. attach' \in AttachType
    BY ZenonT(30), <1>1, <1>2, <1>9 DEF TickEnds, Goes, AttachType
  <2>3. QED
    BY <1>1, <1>9, <2>1, <2>2 DEF TickEnds, DrainEnds, outside
<1>10. CASE DetachDrainPass
  <2>1. attach' \in AttachType
    BY <1>1, <1>2, <1>10 DEF DetachDrainPass, Goes, AttachType
  <2>2. QED
    BY <1>1, <1>10, <2>1 DEF DetachDrainPass, DrainEnds, outside
<1>11. CASE Replay
  <2>1. pane' \in PaneType /\ attach' \in AttachType
    BY <1>1, <1>11, ReplayKeeps DEF Keeps
  <2>2. UNCHANGED <<terminal, queue, watched, outside>>
    BY <1>11, Zenon DEF Replay
  <2>3. QED
    BY <1>1, <2>1, <2>2 DEF outside
<1>12. CASE RestoreSize
  <2>1. PICK done \in ResizesIfReal(pane, attach.embedded_size) :
          /\ pane' = done.pane
          /\ attach' = [attach EXCEPT
                          !.stage = IF done.ok THEN "hand_back" ELSE "abort",
                          !.restored = done.ok]
    BY <1>12, Zenon DEF RestoreSize
  <2>2. done.pane \in PaneType /\ done.ok \in BOOLEAN
    BY <1>1, ResizesIfRealAgree DEF AttachType
  <2>3. attach' \in AttachType
    BY <1>2, <1>1, <2>1, <2>2 DEF AttachType
  <2>4. QED
    BY <1>1, <1>12, <2>1, <2>2, <2>3 DEF RestoreSize, outside
<1>13. CASE HandBack
  <2>1. pane' \in PaneType
    BY <1>1, <1>13 DEF HandBack, PaneType
  <2>2. attach' = Ended(attach.outcome) => attach' \in AttachType
    BY <1>2, <1>1, EndedType
  <2>3. ASSUME attach' = [attach EXCEPT !.stage = "abort", !.refusals = @ + 1]
        PROVE  attach' \in AttachType
    <3>1. "abort" \in Stages
      BY DEF Stages
    <3>2. QED
      BY <1>2, <1>1, <2>3, <3>1 DEF AttachType

  <2>4. QED
    BY <1>1, <1>13, <2>1, <2>2, <2>3 DEF HandBack, outside
<1>14. CASE Abort
  <2>1. PICK done \in AbortSizes, refused \in 0 .. 2 :
          /\ pane' = [done.pane EXCEPT !.interaction_mode = "Embedded"]
          /\ terminal' = IF refused = 2 THEN "lost" ELSE "host"
          /\ attach' = [Ended("Error") EXCEPT !.resize_refused = ~done.ok,
                                              !.refusals = attach.refusals + refused]
    BY <1>14, Zenon DEF Abort
  <2>2. done.pane \in PaneType /\ done.ok \in BOOLEAN
    BY <1>1, <1>14, AbortSizesAgree DEF Abort, IInv
  <2>3. pane' \in PaneType
    BY <2>1, <2>2 DEF PaneType
  <2>4. attach.refusals + refused \in Nat
    BY <1>1 DEF AttachType
  <2>5. Ended("Error") \in AttachType
    BY <1>2, <1>1, EndedType
  <2>6. attach' \in AttachType
    BY <2>1, <2>2, <2>4, <2>5 DEF AttachType
  <2>7. QED
    BY <1>1, <1>14, <2>1, <2>3, <2>6 DEF Abort, outside
<1>15. CASE Resize
  <2>1. PICK size \in Sizes : \E done \in Resizes(pane, size) : pane' = done.pane
    BY <1>15 DEF Resize
  <2>2. pane' \in PaneType
    BY <1>1, <2>1, ResizesAgree
  <2>3. QED
    BY <1>1, <1>15, <2>2 DEF Resize, AttachType, Outcomes, outside
<1>16. CASE PollFrame
  <2>1. queue' \in Seq(FrameKinds) /\ watched' \in {"unread", "queued", "taken", "settled"}
    BY <1>1, <1>16 DEF PollFrame, Take
  <2>2. pane' \in PaneType
    BY <1>1, <1>16, PollKeeps DEF Keeps
  <2>3. QED
    BY <1>1, <1>16, <2>1, <2>2 DEF PollFrame, outside
<1>17. CASE Environment
  <2>1. CASE \E f \in Output : ReadOutput(f)
    <3>1. PICK f \in Output : ReadOutput(f)
      BY <2>1
    <3>2. {f, "Overflow"} \subseteq FrameKinds
      BY DEF FrameKinds
    <3>3. queue' \in {queue, Append(queue, f), Append(queue, "Overflow")}
      BY <3>1 DEF ReadOutput
    <3>4. queue' \in Seq(FrameKinds)
      BY <1>1, <3>2, <3>3
    <3>5. watched' \in {watched, "queued", "settled"}
      BY <3>1 DEF ReadOutput
    <3>6. QED
      BY <1>1, <3>1, <3>4, <3>5 DEF ReadOutput
  <2>2. CASE ReadFails \/ ReaderEnds
    <3>1. {"Exited", "Error"} \subseteq FrameKinds
      BY DEF FrameKinds
    <3>2. QED
      BY <1>1, <2>2, <3>1 DEF ReadFails, ReaderEnds
  <2>3. CASE TypeChord \/ ResizeTerminal
    BY <1>1, <2>3 DEF TypeChord, ResizeTerminal
  <2>4. QED
    BY <1>17, <2>1, <2>2, <2>3 DEF Environment
<1>18. CASE UNCHANGED vars
  BY <1>1, <1>18 DEF vars
<1>19. QED
  BY <1>3, <1>4, <1>5, <1>6, <1>7, <1>8, <1>9, <1>10, <1>11, <1>12, <1>13, <1>14,
     <1>15, <1>16, <1>17, <1>18 DEF Next, Begin, AttachStep

\* The pane's mode and the terminal, while a call runs and when it is over.
LEMMA StepHandedBack == IInv /\ [Next]_vars => HandedBack'
<1> SUFFICES ASSUME IInv, [Next]_vars PROVE HandedBack'
  OBVIOUS
<1> USE DEF HandedBack, Idle
<1>1. TypeOK /\ Agrees(pane) /\ attach \in AttachType /\ pane \in PaneType
  BY DEF IInv, TypeOK, SizeInv, SizesAgree, Agrees
<1>2. HandedBack
  BY DEF IInv
<1>3. CASE Refused
  BY <1>1, <1>2, <1>3 DEF Refused, AttachType
<1>4. ASSUME NEW resize \in ResizePolicies, NEW output \in OutputPolicies,
             Suspend(resize, output)
      PROVE  HandedBack'
  BY <1>4 DEF Suspend, NoAttach
<1>5. CASE EnterAttached \/ CheckSize
  BY <1>1, <1>2, <1>5 DEF EnterAttached, CheckSize, Goes, Abandons, AttachType
<1>6. CASE PollStdin \/ TickEnds \/ DetachDrainPass
  BY <1>1, <1>2, <1>6 DEF PollStdin, TickEnds, DetachDrainPass, DrainEnds, Goes,
                          Abandons, AttachType
<1>7. CASE DrainFrame
  <2>1. attach'.stage \in {attach.stage, "abort"}
    BY <1>1, <1>7, DrainKeeps, HeadKind
  <2>2. QED
    BY <1>2, <1>7, <2>1 DEF DrainFrame, Draining
<1>8. CASE Replay
  <2>1. attach'.stage \in {"restore_size", "abort"}
    BY <1>1, <1>8, ReplayKeeps
  <2>2. terminal' = terminal /\ attach.stage = "replay"
    BY <1>8, Zenon DEF Replay
  <2>3. QED
    BY <1>2, <2>1, <2>2
<1>9. CASE RestoreSize
  BY <1>1, <1>2, <1>9 DEF RestoreSize, AttachType
<1>10. CASE HandBack
  <2>1. CASE /\ terminal' = "host" /\ attach' = Ended(attach.outcome)
             /\ pane' = [pane EXCEPT !.interaction_mode = "Embedded"]
    <3>1. attach'.stage = "idle"
      BY <1>1, <2>1, EndedType DEF AttachType
    <3>2. QED
      BY <1>1, <2>1, <3>1 DEF PaneType
  <2>2. CASE /\ attach' = [attach EXCEPT !.stage = "abort", !.refusals = @ + 1]
             /\ UNCHANGED <<pane, terminal>>
    BY <1>1, <1>2, <1>10, <2>2 DEF HandBack, AttachType
  <2>3. QED
    BY <1>10, <2>1, <2>2 DEF HandBack
<1>11. CASE Abort
  <2>1. PICK done \in AbortSizes, refused \in 0 .. 2 :
          /\ pane' = [done.pane EXCEPT !.interaction_mode = "Embedded"]
          /\ terminal' = IF refused = 2 THEN "lost" ELSE "host"
          /\ attach' = [Ended("Error") EXCEPT !.resize_refused = ~done.ok,
                                              !.refusals = attach.refusals + refused]
    BY <1>11, Zenon DEF Abort
  <2>2. done.pane \in PaneType
    BY <1>1, <1>11, AbortSizesAgree DEF Abort, IInv
  <2>3. pane'.interaction_mode = "Embedded"
    BY <2>1, <2>2 DEF PaneType
  <2>4. Ended("Error") \in AttachType /\ Ended("Error").stage = "idle"
    BY <1>1, EndedType DEF Outcomes
  <2>5. attach'.stage = "idle" /\ attach'.refusals = attach.refusals + refused
    BY <2>1, <2>4 DEF AttachType
  <2>6. refused = 2 => attach'.refusals >= 2
    BY <1>1, <2>5 DEF AttachType
  <2>7. QED
    BY <2>1, <2>3, <2>5, <2>6
<1>12. CASE Resize
  <2>1. PICK size \in Sizes : \E done \in Resizes(pane, size) : pane' = done.pane
    BY <1>12 DEF Resize
  <2>2. pane'.interaction_mode = pane.interaction_mode
    BY <1>1, <2>1, ResizesAgree
  <2>3. QED
    BY <1>1, <1>2, <1>12, <2>2 DEF Resize, AttachType
<1>13. CASE PollFrame
  <2>1. pane'.interaction_mode = pane.interaction_mode
    BY <1>1, <1>13, PollKeeps
  <2>2. QED
    BY <1>2, <1>13, <2>1 DEF PollFrame
<1>14. CASE Environment
  BY <1>2, <1>14 DEF Environment, ReadOutput, ReadFails, ReaderEnds, TypeChord,
                     ResizeTerminal
<1>15. CASE UNCHANGED vars
  BY <1>2, <1>15 DEF vars
<1>16. QED
  BY <1>3, <1>4, <1>5, <1>6, <1>7, <1>8, <1>9, <1>10, <1>11, <1>12, <1>13, <1>14,
     <1>15 DEF Next, Begin, AttachStep

\* The sizes.  A resize that fails leaves the pane as it was, and the pane has
\* its embedded size whenever the abort will not give it back any more.
LEMMA StepSizeInv == IInv /\ [Next]_vars => SizeInv'
<1> SUFFICES ASSUME IInv, [Next]_vars PROVE SizeInv'
  OBVIOUS
<1> USE DEF SizeInv, SizesAgree, Agrees, Over, Idle
<1>1. /\ TypeOK /\ SizeInv /\ Agrees(pane) /\ attach \in AttachType
      /\ pane \in PaneType
  BY DEF IInv, TypeOK
<1>2. ASSUME ~Idle, ~attach.restored, ~attach'.restored,
             attach'.stage \notin {"idle", "hand_back"},
             attach'.resize = attach.resize,
             attach'.embedded_size = attach.embedded_size, Agrees(pane'),
             \/ pane'.surface_size = pane.surface_size
             \/ attach.resize # "KeepEmbeddedSize"
      PROVE  SizeInv'
  BY <1>1, <1>2
<1>3. CASE Refused
  BY <1>1, <1>3 DEF Refused, AttachType
<1>4. ASSUME NEW resize \in ResizePolicies, NEW output \in OutputPolicies,
             Suspend(resize, output)
      PROVE  SizeInv'
  <2>1. /\ attach'.stage = "enter" /\ attach'.embedded_size = pane.surface_size
        /\ attach'.restored = FALSE
    BY <1>4 DEF Suspend, NoAttach
  <2>2. pane'.surface_size = pane.surface_size /\ Agrees(pane')
    BY <1>1, <1>4 DEF Suspend, PaneType
  <2>3. QED
    BY <2>1, <2>2
<1>5. CASE EnterAttached
  <2>1. PICK done \in ResizesIfReal(pane, attach.terminal_size), rendered \in BOOLEAN :
          /\ pane' = IF done.ok THEN [done.pane EXCEPT !.interaction_mode = "Attached"]
                     ELSE done.pane
          /\ IF done.ok /\ rendered THEN Goes("size") ELSE Abandons
    BY <1>5 DEF EnterAttached
  <2>2. /\ done.pane \in PaneType /\ Agrees(done.pane)
        /\ attach.resize # "UseRealTerminalSize" => done.pane = pane
    BY <1>1, ResizesIfRealAgree DEF AttachType
  <2>3. Agrees(pane') /\ pane'.surface_size = done.pane.surface_size
    BY <2>1, <2>2 DEF PaneType
  <2>4. /\ attach'.stage \in {"size", "abort"} /\ attach'.restored = attach.restored
        /\ attach'.resize = attach.resize
        /\ attach'.embedded_size = attach.embedded_size
    BY <1>1, <2>1 DEF Goes, Abandons, AttachType
  <2>5. QED
    BY <1>1, <1>2, <1>5, <2>2, <2>3, <2>4 DEF EnterAttached
<1>6. CASE CheckSize
  <2>1. /\ attach'.stage \in {"stdin", "abort"} /\ attach'.restored = attach.restored
        /\ attach'.resize = attach.resize
        /\ attach'.embedded_size = attach.embedded_size
    BY <1>1, <1>6 DEF CheckSize, Goes, Abandons, AttachType
  <2>2. CASE pane' = pane
    BY <1>1, <1>2, <1>6, <2>1, <2>2 DEF CheckSize
  <2>3. ASSUME NEW done \in ResizesIfReal(pane, real_size), pane' = done.pane
        PROVE  SizeInv'
    <3>1. /\ Agrees(pane')
          /\ attach.resize # "UseRealTerminalSize" => pane' = pane
      BY <1>1, <2>3, ResizesIfRealAgree DEF TypeOK
    <3>2. QED
      BY <1>1, <1>2, <1>6, <2>1, <3>1 DEF CheckSize
  <2>4. QED
    BY <1>6, <2>2, <2>3 DEF CheckSize, Done
<1>7. CASE PollStdin \/ TickEnds \/ DetachDrainPass
  <2>1. /\ attach'.stage \notin {"idle", "hand_back"}
        /\ attach'.restored = attach.restored /\ attach'.resize = attach.resize
        /\ attach'.embedded_size = attach.embedded_size
    BY <1>1, <1>7 DEF PollStdin, TickEnds, DetachDrainPass, DrainEnds, Goes, Abandons,
                      AttachType
  <2>2. Agrees(pane') /\ pane'.surface_size = pane.surface_size
    BY <1>1, <1>7 DEF PollStdin, TickEnds, DetachDrainPass, PaneType
  <2>3. QED
    BY <1>1, <1>2, <1>7, <2>1, <2>2 DEF PollStdin, TickEnds, DetachDrainPass, DrainEnds
<1>8. CASE DrainFrame
  <2>1. /\ Keeps(pane, pane') /\ attach'.stage \in {attach.stage, "abort"}
        /\ SameCall(attach, attach')
    BY <1>1, <1>8, DrainKeeps, HeadKind
  <2>2. QED
    BY <1>1, <1>2, <1>8, <2>1 DEF DrainFrame, Draining, Keeps, SameCall
<1>9. CASE Replay
  <2>1. /\ Keeps(pane, pane') /\ attach'.stage \in {"restore_size", "abort"}
        /\ SameCall(attach, attach')
    BY <1>1, <1>9, ReplayKeeps
  <2>2. attach.stage = "replay"
    BY <1>9, Zenon DEF Replay
  <2>3. QED
    BY <1>1, <1>2, <2>1, <2>2 DEF Keeps, SameCall
<1>10. CASE RestoreSize
  <2>1. PICK done \in ResizesIfReal(pane, attach.embedded_size) :
          /\ pane' = done.pane
          /\ attach' = [attach EXCEPT
                          !.stage = IF done.ok THEN "hand_back" ELSE "abort",
                          !.restored = done.ok]
    BY <1>10, Zenon DEF RestoreSize
  <2>2. /\ Agrees(done.pane) /\ done.ok \in BOOLEAN
        /\ done.ok /\ attach.resize = "UseRealTerminalSize" =>
              done.pane.surface_size = attach.embedded_size
        /\ ~done.ok \/ attach.resize # "UseRealTerminalSize" => done.pane = pane
    BY <1>1, ResizesIfRealAgree DEF AttachType
  <2>3. attach.resize \in {"UseRealTerminalSize", "KeepEmbeddedSize"}
    BY <1>1, AttachAssumption DEF AttachType
  <2>4. /\ attach'.stage = (IF done.ok THEN "hand_back" ELSE "abort")
        /\ attach'.restored = done.ok /\ attach'.resize = attach.resize
        /\ attach'.embedded_size = attach.embedded_size
    BY <1>1, <2>1 DEF AttachType
  <2>5. QED
    BY <1>1, <1>10, <2>1, <2>2, <2>3, <2>4 DEF RestoreSize
<1>11. CASE HandBack
  <2>1. CASE attach' = Ended(attach.outcome)
    <3>1. /\ attach'.stage = "idle" /\ ~attach'.restored
          /\ attach'.embedded_size = attach.embedded_size
      BY <1>1, <2>1, EndedType DEF AttachType
    <3>2. Agrees(pane') /\ pane'.surface_size = pane.surface_size
      BY <1>1, <1>11 DEF HandBack, PaneType
    <3>3. QED
      BY <1>1, <1>11, <3>1, <3>2 DEF HandBack
  <2>2. CASE /\ attach' = [attach EXCEPT !.stage = "abort", !.refusals = @ + 1]
             /\ UNCHANGED pane
    BY <1>1, <1>11, <2>2 DEF HandBack, AttachType
  <2>3. QED
    BY <1>11, <2>1, <2>2 DEF HandBack
<1>12. CASE Abort
  <2>1. PICK done \in AbortSizes, refused \in 0 .. 2 :
          /\ pane' = [done.pane EXCEPT !.interaction_mode = "Embedded"]
          /\ attach' = [Ended("Error") EXCEPT !.resize_refused = ~done.ok,
                                              !.refusals = attach.refusals + refused]
    BY <1>12, Zenon DEF Abort
  <2>2. /\ done.pane \in PaneType /\ Agrees(done.pane) /\ done.ok \in BOOLEAN
        /\ done.ok => done.pane.surface_size = attach.embedded_size
    BY <1>1, <1>12, AbortSizesAgree DEF Abort
  <2>3. Agrees(pane') /\ pane'.surface_size = done.pane.surface_size
    BY <2>1, <2>2 DEF PaneType
  <2>4. /\ Ended("Error") \in AttachType /\ Ended("Error").stage = "idle"
        /\ ~Ended("Error").restored
        /\ Ended("Error").embedded_size = attach.embedded_size
    BY <1>1, EndedType DEF Outcomes
  <2>5. /\ attach'.stage = "idle" /\ ~attach'.restored
        /\ attach'.resize_refused = ~done.ok
        /\ attach'.embedded_size = attach.embedded_size
    BY <2>1, <2>4 DEF AttachType
  <2>6. QED
    BY <2>2, <2>3, <2>5
<1>13. CASE Resize
  <2>1. PICK size \in Sizes : \E done \in Resizes(pane, size) : pane' = done.pane
    BY <1>13 DEF Resize
  <2>2. Agrees(pane')
    BY <1>1, <2>1, ResizesAgree
  <2>3. /\ attach'.stage = "idle" /\ attach'.outcome = "none"
        /\ attach'.restored = attach.restored
    BY <1>1, <1>13 DEF Resize, AttachType
  <2>4. QED
    BY <1>1, <1>13, <2>2, <2>3 DEF Resize
<1>14. CASE PollFrame
  <2>1. Keeps(pane, pane')
    BY <1>1, <1>14, PollKeeps
  <2>2. QED
    BY <1>1, <1>14, <2>1 DEF PollFrame, Keeps
<1>15. CASE Environment
  BY <1>1, <1>15 DEF Environment, ReadOutput, ReadFails, ReaderEnds, TypeChord,
                     ResizeTerminal
<1>16. CASE UNCHANGED vars
  BY <1>1, <1>16 DEF vars
<1>17. QED
  BY <1>3, <1>4, <1>5, <1>6, <1>7, <1>8, <1>9, <1>10, <1>11, <1>12, <1>13, <1>14,
     <1>15, <1>16 DEF Next, Begin, AttachStep

\* The watched frame.  Under StdoutOnlyThenReplay it is withheld from the
\* transcript when it is taken, and recorded before the size is restored.
LEMMA StepOutputInv == IInv /\ [Next]_vars => OutputInv'
<1> SUFFICES ASSUME IInv, [Next]_vars PROVE OutputInv'
  OBVIOUS
<1> USE DEF OutputInv, OutputKeptOnDetach, Over, Idle
<1>1. /\ TypeOK /\ OutputInv /\ Agrees(pane) /\ attach \in AttachType
      /\ pane \in PaneType
  BY DEF IInv, TypeOK, SizeInv, SizesAgree, Agrees
<1>2. ASSUME ~Idle, attach.stage # "abort", watched' = watched,
             pane.kept => pane'.kept, attach'.replay = attach.replay,
             attach'.stage \notin {"idle", "restore_size", "hand_back"}
      PROVE  OutputInv'
  BY <1>1, <1>2
<1>3. CASE Refused
  BY <1>1, <1>3 DEF Refused, AttachType
<1>4. ASSUME NEW resize \in ResizePolicies, NEW output \in OutputPolicies,
             Suspend(resize, output)
      PROVE  OutputInv'
  <2>1. attach'.stage = "enter" /\ watched' # "taken"
    BY <1>4 DEF Suspend, NoAttach
  <2>2. QED
    BY <2>1
<1>5. CASE EnterAttached
  <2>1. PICK done \in ResizesIfReal(pane, attach.terminal_size), rendered \in BOOLEAN :
          /\ pane' = IF done.ok THEN [done.pane EXCEPT !.interaction_mode = "Attached"]
                     ELSE done.pane
          /\ IF done.ok /\ rendered THEN Goes("size") ELSE Abandons
    BY <1>5 DEF EnterAttached
  <2>2. done.pane \in PaneType /\ done.pane.kept = pane.kept
    BY <1>1, ResizesIfRealAgree DEF AttachType
  <2>3. pane'.kept = pane.kept
    BY <2>1, <2>2 DEF PaneType
  <2>4. attach'.stage \in {"size", "abort"} /\ attach'.replay = attach.replay
    BY <1>1, <2>1 DEF Goes, Abandons, AttachType
  <2>5. QED
    BY <1>1, <1>2, <1>5, <2>3, <2>4 DEF EnterAttached
<1>6. CASE CheckSize
  <2>1. attach'.stage \in {"stdin", "abort"} /\ attach'.replay = attach.replay
    BY <1>1, <1>6 DEF CheckSize, Goes, Abandons, AttachType
  <2>2. CASE pane' = pane
    BY <1>1, <1>2, <1>6, <2>1, <2>2 DEF CheckSize
  <2>3. ASSUME NEW done \in ResizesIfReal(pane, real_size), pane' = done.pane
        PROVE  OutputInv'
    <3>1. pane'.kept = pane.kept
      BY <1>1, <2>3, ResizesIfRealAgree DEF TypeOK
    <3>2. QED
      BY <1>1, <1>2, <1>6, <2>1, <3>1 DEF CheckSize
  <2>4. QED
    BY <1>6, <2>2, <2>3 DEF CheckSize, Done
<1>7. CASE PollStdin \/ TickEnds
  <2>1. /\ attach'.stage \notin {"idle", "restore_size", "hand_back"}
        /\ attach'.replay = attach.replay
    BY ZenonT(30), <1>1, <1>7 DEF PollStdin, TickEnds, DrainEnds, Goes, Abandons, AttachType
  <2>2. pane'.kept = pane.kept
    BY <1>1, <1>7 DEF PollStdin, TickEnds, PaneType
  <2>3. QED
    BY <1>1, <1>2, <1>7, <2>1, <2>2 DEF PollStdin, TickEnds, DrainEnds
<1>8. CASE DrainFrame
  <2>1. /\ pane.kept => pane'.kept
        /\ attach'.stage \in {attach.stage, "abort"}
        /\ attach.replay \subseteq attach'.replay
        /\ Head(queue) = "Watched" /\ attach'.stage # "abort" =>
              pane'.kept \/ "Watched" \in attach'.replay
    BY <1>1, <1>8, DrainKeeps, HeadKind DEF Keeps
  <2>2. watched' = "taken" => watched = "taken" \/ Head(queue) = "Watched"
    BY <1>8 DEF DrainFrame, Take
  <2>3. attach.stage \in {"output", "drain"}
    BY <1>8 DEF DrainFrame, Draining
  <2>4. QED
    BY <1>1, <2>1, <2>2, <2>3
<1>9. CASE DetachDrainPass
  <2>1. /\ attach'.stage \in {"drain", "replay"} /\ attach.stage = "drain"
        /\ attach'.replay = attach.replay
    BY <1>1, <1>9 DEF DetachDrainPass, DrainEnds, Goes, AttachType
  <2>2. UNCHANGED <<pane, watched>>
    BY <1>9 DEF DetachDrainPass, DrainEnds
  <2>3. QED
    BY <1>1, <1>2, <2>1, <2>2
<1>10. CASE Replay
  <2>1. /\ pane.kept => pane'.kept
        /\ attach'.stage \in {"restore_size", "abort"} /\ attach'.replay = {}
        /\ "Watched" \in attach.replay => pane'.kept
    BY <1>1, <1>10, ReplayKeeps DEF Keeps
  <2>2. attach.stage = "replay" /\ watched' = watched
    BY <1>10, Zenon DEF Replay
  <2>3. QED
    BY <1>1, <2>1, <2>2
<1>11. CASE RestoreSize
  <2>1. PICK done \in ResizesIfReal(pane, attach.embedded_size) :
          /\ pane' = done.pane
          /\ attach' = [attach EXCEPT
                          !.stage = IF done.ok THEN "hand_back" ELSE "abort",
                          !.restored = done.ok]
    BY <1>11, Zenon DEF RestoreSize
  <2>2. pane'.kept = pane.kept
    BY <1>1, <2>1, ResizesIfRealAgree DEF AttachType
  <2>3. attach'.stage \in {"hand_back", "abort"} /\ attach'.replay = attach.replay
    BY <1>1, <2>1 DEF AttachType
  <2>4. QED
    BY <1>1, <1>11, <2>2, <2>3 DEF RestoreSize
<1>12. CASE HandBack
  <2>1. CASE attach' = Ended(attach.outcome)
    <3>1. attach'.stage = "idle"
      BY <1>1, <2>1, EndedType DEF AttachType
    <3>2. pane'.kept = pane.kept
      BY <1>1, <1>12 DEF HandBack, PaneType
    <3>3. QED
      BY <1>1, <1>12, <3>1, <3>2 DEF HandBack
  <2>2. CASE /\ attach' = [attach EXCEPT !.stage = "abort", !.refusals = @ + 1]
             /\ UNCHANGED pane
    BY <1>1, <1>12, <2>2 DEF HandBack, AttachType
  <2>3. QED
    BY <1>12, <2>1, <2>2 DEF HandBack
<1>13. CASE Abort
  <2>1. PICK done \in AbortSizes, refused \in 0 .. 2 :
          attach' = [Ended("Error") EXCEPT !.resize_refused = ~done.ok,
                                           !.refusals = attach.refusals + refused]
    BY <1>13, Zenon DEF Abort
  <2>2. /\ Ended("Error") \in AttachType /\ Ended("Error").stage = "idle"
        /\ Ended("Error").outcome = "Error"
    BY <1>1, EndedType DEF Outcomes
  <2>3. attach'.stage = "idle" /\ attach'.outcome = "Error"
    BY <2>1, <2>2 DEF AttachType
  <2>4. QED
    BY <2>3
<1>14. CASE Resize
  <2>1. attach'.stage = "idle" /\ attach'.outcome = "none"
    BY <1>1, <1>14 DEF Resize, AttachType
  <2>2. QED
    BY <2>1
<1>15. CASE PollFrame
  <2>1. pane.kept => pane'.kept
    BY <1>1, <1>15, PollKeeps DEF Keeps
  <2>2. watched' = "taken" => watched = "taken"
    BY <1>15 DEF PollFrame, Take
  <2>3. QED
    BY <1>1, <1>15, <2>1, <2>2 DEF PollFrame
<1>16. CASE Environment
  BY <1>1, <1>16 DEF Environment, ReadOutput, ReadFails, ReaderEnds, TypeChord,
                     ResizeTerminal
<1>17. CASE UNCHANGED vars
  BY <1>1, <1>17 DEF vars
<1>18. QED
  BY <1>3, <1>4, <1>5, <1>6, <1>7, <1>8, <1>9, <1>10, <1>11, <1>12, <1>13, <1>14,
     <1>15, <1>16, <1>17 DEF Next, Begin, AttachStep

-----------------------------------------------------------------------------
(* What is promised of attach_blocking. *)

\* The inductive invariant holds throughout.
LEMMA AlwaysIInv == Spec => []IInv
<1>1. IInv /\ [Next]_vars => IInv'
  BY StepTypeOK, StepHandedBack, StepSizeInv, StepOutputInv DEF IInv
<1>2. Safe => []IInv
  BY <1>1, InitInv, PTL DEF Safe
<1>3. QED
  BY <1>2, PTL DEF Spec

\* The pane, the call's locals and the queue keep their types, whatever fails.
THEOREM AttachTypeCorrect == Spec => []TypeOK
BY AlwaysIInv, PTL DEF IInv

\* Whichever call fails in whichever stage, the pane is embedded and the host
\* has its terminal when attach_blocking returns, unless two restores in a row
\* were refused.
THEOREM HostGetsTerminalBack == Spec => []HandedBack
BY AlwaysIInv, PTL DEF IInv

\* The sizes of PTY, surface and history agree in every stage, and the pane
\* has its embedded size after the call, for every set of sizes and policies.
THEOREM EmbeddedSizeRestored == Spec => []SizesAgree
BY AlwaysIInv, PTL DEF IInv, SizeInv

\* A call that ends without an error has put every frame it took into the
\* transcript, for every queue capacity and every number of drain passes.
THEOREM AttachedOutputKept == Spec => []OutputKeptOnDetach
BY AlwaysIInv, PTL DEF IInv, OutputInv
=============================================================================
