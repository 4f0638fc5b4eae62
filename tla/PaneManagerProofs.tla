-------------------------- MODULE PaneManagerProofs --------------------------
(***************************************************************************)
(* Proofs about PaneManager and EventDelivery, for all capacities,         *)
(* outcomes, retention policies and bounds.                                *)
(*                                                                         *)
(* What is said of a pane's events is said of the log first (Tells, Ended, *)
(* Lost), as a property each pushed event preserves or changes; then of    *)
(* the operators that handle a frame, a kill and a removal.  The invariant *)
(* joins a pane to its PTY: an observed exit leaves nothing to take, a     *)
(* kill or an exit means that the reader thread is done, and what the pane *)
(* recorded, what it reported lost and what is queued add up to what the   *)
(* thread produced.                                                        *)
(*                                                                         *)
(* For the delivery every operator is shown to extend the pane's log       *)
(* (Grows), and every step to push the events of one pane at most (Grew):  *)
(* what is added to the stream is then what was added to that pane's log,  *)
(* and the retained log is the end of the log after every event (Keeps).   *)
(***************************************************************************)
EXTENDS EventDelivery, PtyFrameQueueProofs, FiniteSetTheorems

States == {"Starting", "Running"} \cup Terminal
EventKinds == {"Spawned", "StateChanged", "Output", "SurfaceChanged", "Overflow",
               "Error", "Exited", "TranscriptRotated", "InputSent"}
Payloads == {<< >>} \cup {<<n>> : n \in Nat} \cup (States \X States)
Event == {e \in [kind : EventKinds, seq : Nat, what : Payloads] :
            e.kind = "Overflow" => e.what[1] \in Nat}

OfKinds(log, kinds) == {i \in DOMAIN log : log[i].kind \in kinds}
OutputKinds == {"Output", "Overflow", "TranscriptRotated", "SurfaceChanged"}

\* The log's state changes lead from Starting to this state, through no state
\* that ends a pane but the last.
Tells(log, state) ==
    LET changes == OfKinds(log, {"StateChanged"})
    IN  /\ changes = {} => state = "Starting"
        /\ state \notin Terminal => \A i \in changes : log[i].what[2] \notin Terminal
        /\ \A i \in changes :
             /\ (\A j \in changes : i <= j) => log[i].what[1] = "Starting"
             /\ (\A j \in changes : j <= i) => log[i].what[2] = state
             /\ \A j \in changes :
                  /\ i < j /\ (\A k \in changes : k <= i \/ j <= k)
                       => log[j].what[1] = log[i].what[2]
                  /\ log[i].what[2] \in Terminal /\ log[j].what[2] \in Terminal => i = j

\* The log has an Exited event if one was observed, then no other, nothing of
\* the pane's output after it, and nothing held back.
Ended(log, observed, pending) ==
    LET exits == OfKinds(log, {"Exited"})
    IN  /\ observed <=> exits # {}
        /\ \A e \in exits : /\ \A f \in exits : e = f
                            /\ \A i \in OfKinds(log, OutputKinds) : i < e
                            /\ ~pending

\* The bytes the log reports lost.
LossOf == [e \in Event |-> IF e.kind = "Overflow" THEN e.what[1] ELSE 0]
Lost(log) == Total(Weigh(LossOf, log))

-----------------------------------------------------------------------------
(* One event more. *)

\* Where events of some kinds are after one was appended.
LEMMA KindsAppend ==
    ASSUME NEW log \in Seq(Event), NEW e \in Event, NEW kinds
    PROVE  /\ OfKinds(Append(log, e), kinds) =
                OfKinds(log, kinds) \cup (IF e.kind \in kinds THEN {Len(log) + 1} ELSE {})
           /\ Len(log) \in Nat
           /\ \A i \in OfKinds(log, kinds) : i \in 1 .. Len(log)
           /\ \A i \in 1 .. Len(log) : Append(log, e)[i] = log[i]
           /\ Append(log, e)[Len(log) + 1] = e
           /\ Append(log, e) \in Seq(Event)
<1> DEFINE t == Append(log, e)
<1>1. /\ Len(log) \in Nat /\ DOMAIN log = 1 .. Len(log) /\ DOMAIN t = 1 .. Len(log) + 1
      /\ t[Len(log) + 1] = e /\ \A i \in 1 .. Len(log) : t[i] = log[i]
      /\ t \in Seq(Event)
  OBVIOUS
<1> HIDE DEF t
<1>2. /\ OfKinds(t, kinds) =
           OfKinds(log, kinds) \cup (IF e.kind \in kinds THEN {Len(log) + 1} ELSE {})
      /\ \A i \in OfKinds(log, kinds) : i \in 1 .. Len(log)
  BY <1>1 DEF OfKinds
<1>3. QED
  BY <1>1, <1>2 DEF t

\* An event of another kind is none of them.
LEMMA KindsOther ==
    ASSUME NEW log \in Seq(Event), NEW e \in Event, NEW kinds, e.kind \notin kinds
    PROVE  OfKinds(Append(log, e), kinds) = OfKinds(log, kinds)
<1>1. OfKinds(Append(log, e), kinds) =
        OfKinds(log, kinds) \cup (IF e.kind \in kinds THEN {Len(log) + 1} ELSE {})
  BY KindsAppend
<1>2. QED
  BY <1>1

\* Any other event than a state change leaves the story of the state alone.
LEMMA TellsQuiet ==
    ASSUME NEW log \in Seq(Event), NEW e \in Event, e.kind # "StateChanged",
           NEW state, Tells(log, state)
    PROVE  Tells(Append(log, e), state)
<1> DEFINE t == Append(log, e)
           changes == OfKinds(log, {"StateChanged"})
<1>1. /\ OfKinds(t, {"StateChanged"}) = changes
      /\ \A i \in changes : i \in 1 .. Len(log)
      /\ \A i \in 1 .. Len(log) : t[i] = log[i]
  <2>1. e.kind \notin {"StateChanged"}
    OBVIOUS
  <2>2. QED
    BY <2>1, KindsAppend, KindsOther
<1> HIDE DEF t
<1>2. \A i \in changes : t[i] = log[i]
  BY <1>1
<1> HIDE DEF changes
<1>3. Tells(t, state)
  BY <1>1, <1>2 DEF Tells, changes
<1>4. QED
  BY <1>3 DEF t

\* A state change goes on where the story was.
LEMMA TellsChange ==
    ASSUME NEW log \in Seq(Event), NEW e \in Event, e.kind = "StateChanged",
           NEW old, NEW new, e.what = <<old, new>>, old \notin Terminal,
           Tells(log, old)
    PROVE  Tells(Append(log, e), new)
<1> DEFINE t == Append(log, e)
           changes == OfKinds(log, {"StateChanged"})
           n == Len(log) + 1
           all == changes \cup {n}
<1>1. /\ OfKinds(t, {"StateChanged"}) = all
      /\ Len(log) \in Nat
      /\ \A i \in changes : i \in 1 .. Len(log)
      /\ \A i \in 1 .. Len(log) : t[i] = log[i]
      /\ t[n] = e
  <2>1. e.kind \in {"StateChanged"}
    OBVIOUS
  <2>2. QED
    BY <2>1, KindsAppend
<1> HIDE DEF t
<1>2. \A i \in changes : t[i] = log[i] /\ i \in Nat /\ i < n
  BY <1>1
<1>3. n \in Nat /\ t[n].what[1] = old /\ t[n].what[2] = new
  BY <1>1
<1>4. /\ changes = {} => old = "Starting"
      /\ \A i \in changes :
           /\ log[i].what[2] \notin Terminal
           /\ (\A j \in changes : i <= j) => log[i].what[1] = "Starting"
           /\ (\A j \in changes : j <= i) => log[i].what[2] = old
           /\ \A j \in changes :
                i < j /\ (\A k \in changes : k <= i \/ j <= k)
                    => log[j].what[1] = log[i].what[2]
  BY DEF Tells
<1> HIDE DEF changes, n
<1>5. \A i \in all : i \in changes \/ i = n
  OBVIOUS
<1>6. new \notin Terminal => \A i \in all : t[i].what[2] \notin Terminal
  BY <1>2, <1>3, <1>4
<1>7. ASSUME NEW i \in all
      PROVE  /\ (\A j \in all : i <= j) => t[i].what[1] = "Starting"
             /\ (\A j \in all : j <= i) => t[i].what[2] = new
             /\ \A j \in all :
                  /\ i < j /\ (\A k \in all : k <= i \/ j <= k)
                       => t[j].what[1] = t[i].what[2]
                  /\ t[i].what[2] \in Terminal /\ t[j].what[2] \in Terminal => i = j
  <2>1. (\A j \in all : i <= j) => t[i].what[1] = "Starting"
    BY <1>2, <1>3, <1>4
  <2>2. (\A j \in all : j <= i) => t[i].what[2] = new
    BY <1>2, <1>3
  <2>3. ASSUME NEW j \in all, i < j, \A k \in all : k <= i \/ j <= k
        PROVE  t[j].what[1] = t[i].what[2]
    BY <1>2, <1>3, <1>4, <2>3
  <2>4. ASSUME NEW j \in all, t[i].what[2] \in Terminal, t[j].what[2] \in Terminal
        PROVE  i = j
    BY <1>2, <1>3, <1>4, <2>4
  <2>5. QED
    BY <2>1, <2>2, <2>3, <2>4
<1>8. Tells(t, new)
  BY <1>1, <1>6, <1>7 DEF Tells
<1>9. QED
  BY <1>8 DEF t

\* Any other event than an exit may follow, but output only before the end.
LEMMA EndedQuiet ==
    ASSUME NEW log \in Seq(Event), NEW e \in Event, e.kind # "Exited",
           NEW observed, NEW pending, Ended(log, observed, pending),
           e.kind \in OutputKinds => ~observed
    PROVE  Ended(Append(log, e), observed, pending)
<1> DEFINE t == Append(log, e)
<1>1. OfKinds(t, {"Exited"}) = OfKinds(log, {"Exited"})
  <2>1. e.kind \notin {"Exited"}
    OBVIOUS
  <2>2. QED
    BY <2>1, KindsOther
<1>2. e.kind \notin OutputKinds => OfKinds(t, OutputKinds) = OfKinds(log, OutputKinds)
  BY KindsOther
<1> HIDE DEF t
<1>3. Ended(t, observed, pending)
  BY <1>1, <1>2 DEF Ended
<1>4. QED
  BY <1>3 DEF t

\* The first exit event ends the log, if nothing is held back.
LEMMA EndedExit ==
    ASSUME NEW log \in Seq(Event), NEW e \in Event, e.kind = "Exited",
           NEW pending, Ended(log, FALSE, pending)
    PROVE  Ended(Append(log, e), TRUE, FALSE)
<1> DEFINE t == Append(log, e)
           n == Len(log) + 1
<1>1. OfKinds(t, {"Exited"}) = {n}
  <2>1. e.kind \in {"Exited"} /\ OfKinds(log, {"Exited"}) = {}
    BY DEF Ended
  <2>2. QED
    BY <2>1, KindsAppend
<1>2. \A i \in OfKinds(t, OutputKinds) : i < n
  <2>1. e.kind \notin OutputKinds
    BY DEF OutputKinds
  <2>2. /\ OfKinds(t, OutputKinds) = OfKinds(log, OutputKinds)
        /\ \A i \in OfKinds(log, OutputKinds) : i \in 1 .. Len(log)
        /\ Len(log) \in Nat
    BY <2>1, KindsAppend, KindsOther
  <2>3. QED
    BY <2>2
<1> HIDE DEF t, n
<1>3. Ended(t, TRUE, FALSE)
  BY <1>1, <1>2 DEF Ended
<1>4. QED
  BY <1>3 DEF t

\* Whether bytes are held back matters only after the end.
LEMMA EndedPending ==
    ASSUME NEW log, NEW observed, NEW pending, Ended(log, observed, pending), NEW other,
           observed => ~other
    PROVE  Ended(log, observed, other)
BY DEF Ended

\* The weight of an event is a number, and the losses of a log add up.
LEMMA LostAppend ==
    ASSUME NEW log \in Seq(Event), NEW e \in Event
    PROVE  /\ Lost(Append(log, e)) =
                Lost(log) + (IF e.kind = "Overflow" THEN e.what[1] ELSE 0)
           /\ Lost(log) \in Nat
<1>1. LossOf \in [Event -> Nat] /\ LossOf[e] = IF e.kind = "Overflow" THEN e.what[1] ELSE 0
  BY DEF LossOf, Event
<1>2. /\ Total(Weigh(LossOf, Append(log, e))) = Total(Weigh(LossOf, log)) + LossOf[e]
      /\ Total(Weigh(LossOf, log)) \in Nat
  BY <1>1, WeighAppend, WeighType
<1>3. QED
  BY <1>1, <1>2 DEF Lost

-----------------------------------------------------------------------------
(* What the manager does to a pane. *)

PaneState == [ state               : States,
               exit                : {"none"} \cup Terminal,
               exit_event_observed : BOOLEAN,
               next_seq            : Nat,
               event_log           : Seq(Event),
               pending             : BOOLEAN,
               recorded            : Nat,
               inputs              : Nat ]

\* A pane whose log is true to it.
Steady(p) ==
    /\ p \in PaneState
    /\ Tells(p.event_log, p.state)
    /\ Ended(p.event_log, p.exit_event_observed, p.pending)

\* The exit status is the state's.
Labelled(p) == p.exit = IF p.state \in Terminal THEN p.state ELSE "none"

\* A running pane, some bytes of output later.
GoesOn(p, q, bytes) ==
    /\ Steady(q)
    /\ q.state = p.state /\ q.exit = p.exit
    /\ ~q.exit_event_observed
    /\ q.recorded = p.recorded + bytes
    /\ Lost(q.event_log) = Lost(p.event_log)

\* A pane between two operations.
PaneOK(p) ==
    /\ Steady(p) /\ Labelled(p)
    /\ p.state # "Starting"
    /\ p.exit_event_observed => p.state \in Terminal
    /\ p.state = "Exited" => p.exit_event_observed

\* PushEvent appends one event and touches nothing else but the counter.
LEMMA PushKeeps ==
    ASSUME NEW p \in PaneState, NEW kind \in EventKinds, NEW what \in Payloads,
           kind = "Overflow" => what[1] \in Nat,
           NEW q, q = PushEvent(p, kind, what)
    PROVE  /\ q \in PaneState
           /\ q.state = p.state /\ q.exit = p.exit
           /\ q.exit_event_observed = p.exit_event_observed
           /\ q.pending = p.pending /\ q.recorded = p.recorded /\ q.inputs = p.inputs
           /\ \E e \in Event : /\ e.kind = kind /\ e.what = what
                               /\ q.event_log = Append(p.event_log, e)
<1> DEFINE e == [kind |-> kind, seq |-> p.next_seq + 1, what |-> what]
           log == Append(p.event_log, e)
           n == p.next_seq + 1
<1>1. p.next_seq \in Nat /\ n \in Nat /\ p.event_log \in Seq(Event)
  BY DEF PaneState
<1>2. e \in Event /\ e.kind = kind /\ e.what = what
  BY <1>1 DEF Event
<1> HIDE DEF e
<1>3. log \in Seq(Event)
  BY <1>1, <1>2
<1>4. q = [p EXCEPT !.next_seq = n, !.event_log = log]
  BY DEF PushEvent, e
<1> HIDE DEF log, n
<1>5. /\ q \in PaneState
      /\ q.state = p.state /\ q.exit = p.exit
      /\ q.exit_event_observed = p.exit_event_observed
      /\ q.pending = p.pending /\ q.recorded = p.recorded /\ q.inputs = p.inputs
      /\ q.event_log = log
  BY <1>1, <1>3, <1>4 DEF PaneState
<1>6. QED
  BY <1>2, <1>5 DEF log

\* An event that is neither an exit, nor a loss, nor a state change keeps the
\* log true to the pane; output must come before the end.
LEMMA QuietPush ==
    ASSUME NEW p, Steady(p), NEW kind \in EventKinds \ {"StateChanged", "Exited", "Overflow"},
           kind \in OutputKinds => ~p.exit_event_observed,
           NEW q, q = PushEvent(p, kind, << >>)
    PROVE  /\ Steady(q)
           /\ q.state = p.state /\ q.exit = p.exit
           /\ q.exit_event_observed = p.exit_event_observed
           /\ q.pending = p.pending /\ q.recorded = p.recorded
           /\ Lost(q.event_log) = Lost(p.event_log)
<1>1. /\ p \in PaneState /\ p.event_log \in Seq(Event)
      /\ Tells(p.event_log, p.state)
      /\ Ended(p.event_log, p.exit_event_observed, p.pending)
  BY DEF Steady, PaneState
<1>2. kind \in EventKinds /\ kind # "StateChanged" /\ kind # "Exited" /\ kind # "Overflow"
  OBVIOUS
<1>3. PICK what \in Payloads : what = << >>
  BY DEF Payloads
<1>4. /\ q \in PaneState
      /\ q.state = p.state /\ q.exit = p.exit
      /\ q.exit_event_observed = p.exit_event_observed
      /\ q.pending = p.pending /\ q.recorded = p.recorded
      /\ \E e \in Event : /\ e.kind = kind /\ e.what = what
                          /\ q.event_log = Append(p.event_log, e)
  BY <1>1, <1>2, <1>3, PushKeeps
<1>5. PICK e \in Event : /\ e.kind = kind
                         /\ q.event_log = Append(p.event_log, e)
  BY <1>4
<1> DEFINE log == p.event_log
<1>6. Tells(Append(log, e), p.state)
  BY <1>1, <1>2, <1>5, TellsQuiet
<1>7. Ended(Append(log, e), p.exit_event_observed, p.pending)
  BY <1>1, <1>2, <1>5, EndedQuiet
<1>8. Lost(Append(log, e)) = Lost(log)
  BY <1>1, <1>2, <1>5, LostAppend
<1>9. QED
  BY <1>4, <1>5, <1>6, <1>7, <1>8 DEF Steady

\* FlushPending leaves nothing held back, and reports at most a rotation.
LEMMA FlushKeeps ==
    ASSUME NEW p, Steady(p), NEW rotated \in BOOLEAN,
           NEW q, q = FlushPending(p, rotated)
    PROVE  /\ Steady(q)
           /\ q.state = p.state /\ q.exit = p.exit
           /\ q.exit_event_observed = p.exit_event_observed
           /\ q.pending = FALSE /\ q.recorded = p.recorded
           /\ Lost(q.event_log) = Lost(p.event_log)
<1> DEFINE flushed == [p EXCEPT !.pending = FALSE]
<1>1. /\ flushed \in PaneState
      /\ flushed.state = p.state /\ flushed.exit = p.exit
      /\ flushed.exit_event_observed = p.exit_event_observed
      /\ flushed.pending = FALSE /\ flushed.recorded = p.recorded
      /\ flushed.event_log = p.event_log
  BY DEF Steady, PaneState
<1>2. q = IF p.pending /\ rotated
          THEN PushEvent(flushed, "TranscriptRotated", << >>) ELSE flushed
  BY DEF FlushPending
<1> HIDE DEF flushed
<1>3. Ended(flushed.event_log, flushed.exit_event_observed, flushed.pending)
  BY <1>1 DEF Steady, Ended
<1>4. Steady(flushed)
  BY <1>1, <1>3 DEF Steady
<1>5. CASE ~(p.pending /\ rotated)
  BY <1>1, <1>2, <1>4, <1>5
<1>6. CASE p.pending /\ rotated
  <2>1. ~flushed.exit_event_observed
    BY <1>1, <1>6 DEF Steady, Ended
  <2>2. q = PushEvent(flushed, "TranscriptRotated", << >>)
    BY <1>2, <1>6
  <2>3. "TranscriptRotated" \in EventKinds \ {"StateChanged", "Exited", "Overflow"}
    BY DEF EventKinds
  <2>4. /\ Steady(q)
        /\ q.state = flushed.state /\ q.exit = flushed.exit
        /\ q.exit_event_observed = flushed.exit_event_observed
        /\ q.pending = flushed.pending /\ q.recorded = flushed.recorded
        /\ Lost(q.event_log) = Lost(flushed.event_log)
    BY <1>4, <2>1, <2>2, <2>3, QuietPush
  <2>5. QED
    BY <1>1, <2>4
<1>7. QED
  BY <1>5, <1>6

\* TransitionState to another state continues the story; a pane that has ended
\* must not be given another state.
LEMMA TransitionKeeps ==
    ASSUME NEW p, Steady(p), NEW new \in States, p.state # new, p.state \notin Terminal,
           NEW q, q = TransitionState(p, new)
    PROVE  /\ Steady(q)
           /\ q.state = new /\ q.exit = p.exit
           /\ q.exit_event_observed = p.exit_event_observed
           /\ q.pending = p.pending /\ q.recorded = p.recorded
           /\ Lost(q.event_log) = Lost(p.event_log)
<1> DEFINE moved == [p EXCEPT !.state = new]
           change == <<p.state, new>>
<1>1. /\ moved \in PaneState
      /\ moved.state = new /\ moved.exit = p.exit
      /\ moved.exit_event_observed = p.exit_event_observed
      /\ moved.pending = p.pending /\ moved.recorded = p.recorded
      /\ moved.event_log = p.event_log
  BY DEF Steady, PaneState
<1>2. /\ p.state \in States /\ p.event_log \in Seq(Event)
      /\ Tells(p.event_log, p.state)
      /\ Ended(p.event_log, p.exit_event_observed, p.pending)
  BY DEF Steady, PaneState
<1>3. change \in Payloads
  BY <1>2 DEF Payloads
<1>4. "StateChanged" \in EventKinds
  BY DEF EventKinds
<1>5. q = PushEvent(moved, "StateChanged", change)
  BY DEF TransitionState
<1> HIDE DEF moved, change
<1>6. /\ q \in PaneState
      /\ q.state = moved.state /\ q.exit = moved.exit
      /\ q.exit_event_observed = moved.exit_event_observed
      /\ q.pending = moved.pending /\ q.recorded = moved.recorded
      /\ \E e \in Event : /\ e.kind = "StateChanged" /\ e.what = change
                          /\ q.event_log = Append(moved.event_log, e)
  BY <1>1, <1>3, <1>4, <1>5, PushKeeps
<1>7. PICK e \in Event : /\ e.kind = "StateChanged" /\ e.what = change
                         /\ q.event_log = Append(p.event_log, e)
  BY <1>1, <1>6
<1> DEFINE log == p.event_log
<1>8. Tells(Append(log, e), new)
  BY <1>2, <1>7, TellsChange DEF change
<1>9. Ended(Append(log, e), p.exit_event_observed, p.pending)
  <2>1. e.kind # "Exited" /\ e.kind \notin OutputKinds
    BY <1>7 DEF OutputKinds
  <2>2. QED
    BY <1>2, <2>1, EndedQuiet
<1>10. Lost(Append(log, e)) = Lost(log)
  BY <1>2, <1>7, LostAppend
<1>11. QED
  BY <1>1, <1>6, <1>7, <1>8, <1>9, <1>10 DEF Steady

\* How an exit, a failure or a kill ends a pane that runs: with that status.
LEMMA EndKeeps ==
    ASSUME NEW p, Steady(p), NEW new \in Terminal, p.state \notin Terminal,
           p.exit = "none",
           NEW q, q = TransitionState(SetExitIfNotKilledOrFailed(p, new), new)
    PROVE  /\ Steady(q)
           /\ q.state = new /\ q.exit = new
           /\ q.exit_event_observed = p.exit_event_observed
           /\ q.pending = p.pending /\ q.recorded = p.recorded
           /\ Lost(q.event_log) = Lost(p.event_log)
<1> DEFINE r == [p EXCEPT !.exit = new]
<1>1. /\ r \in PaneState
      /\ r.state = p.state /\ r.exit = new
      /\ r.exit_event_observed = p.exit_event_observed
      /\ r.pending = p.pending /\ r.recorded = p.recorded
      /\ r.event_log = p.event_log
  BY DEF Steady, PaneState
<1>2. q = TransitionState(r, new)
  BY DEF SetExitIfNotKilledOrFailed
<1> HIDE DEF r
<1>3. new \in States /\ r.state # new /\ r.state \notin Terminal
  BY <1>1 DEF States
<1>4. Steady(r)
  BY <1>1 DEF Steady
<1>5. /\ Steady(q)
      /\ q.state = new /\ q.exit = r.exit
      /\ q.exit_event_observed = r.exit_event_observed
      /\ q.pending = r.pending /\ q.recorded = r.recorded
      /\ Lost(q.event_log) = Lost(r.event_log)
  BY <1>2, <1>3, <1>4, TransitionKeeps
<1>6. QED
  BY <1>1, <1>5

\* fail_pane: nothing is held back; a pane that runs fails, one that has ended
\* keeps its end.
LEMMA FailKeeps ==
    ASSUME NEW p, Steady(p), Labelled(p),
           NEW rotated \in BOOLEAN, NEW q, q = FailPane(p, rotated)
    PROVE  /\ Steady(q)
           /\ q.state = IF p.state \in Terminal THEN p.state ELSE "Failed"
           /\ Labelled(q)
           /\ q.exit_event_observed = p.exit_event_observed
           /\ q.pending = FALSE /\ q.recorded = p.recorded
           /\ Lost(q.event_log) = Lost(p.event_log)
<1> DEFINE flushed == FlushPending(p, rotated)
           failed == PushEvent(flushed, "Error", << >>)
<1>1. p.state \in States
  BY DEF Steady, PaneState
<1>2. q = IF p.state \notin Terminal
          THEN TransitionState(SetExitIfNotKilledOrFailed(failed, "Failed"), "Failed")
          ELSE failed
  BY <1>1 DEF FailPane, States, Terminal
<1>3. /\ Steady(flushed)
      /\ flushed.state = p.state /\ flushed.exit = p.exit
      /\ flushed.exit_event_observed = p.exit_event_observed
      /\ flushed.pending = FALSE /\ flushed.recorded = p.recorded
      /\ Lost(flushed.event_log) = Lost(p.event_log)
  BY FlushKeeps
<1> HIDE DEF flushed
<1>4. /\ "Error" \in EventKinds \ {"StateChanged", "Exited", "Overflow"}
      /\ "Error" \notin OutputKinds
  BY DEF EventKinds, OutputKinds
<1>5. /\ Steady(failed)
      /\ failed.state = flushed.state /\ failed.exit = flushed.exit
      /\ failed.exit_event_observed = flushed.exit_event_observed
      /\ failed.pending = flushed.pending /\ failed.recorded = flushed.recorded
      /\ Lost(failed.event_log) = Lost(flushed.event_log)
  BY <1>3, <1>4, QuietPush
<1> HIDE DEF failed
<1>6. CASE p.state \in Terminal
  BY <1>2, <1>3, <1>5, <1>6 DEF Labelled
<1>7. CASE p.state \notin Terminal
  <2>1. PICK new \in Terminal : new = "Failed"
    BY DEF Terminal
  <2>2. /\ q = TransitionState(SetExitIfNotKilledOrFailed(failed, new), new)
        /\ failed.exit = "none" /\ failed.state \notin Terminal
    BY <1>2, <1>3, <1>5, <1>7, <2>1 DEF Labelled
  <2>3. /\ Steady(q)
        /\ q.state = new /\ q.exit = new
        /\ q.exit_event_observed = failed.exit_event_observed
        /\ q.pending = failed.pending /\ q.recorded = failed.recorded
        /\ Lost(q.event_log) = Lost(failed.event_log)
    BY <1>5, <2>2, EndKeeps
  <2>4. QED
    BY <1>3, <1>5, <1>7, <2>1, <2>3 DEF Labelled
<1>8. QED
  BY <1>6, <1>7

\* The first exit frame: what was held back is flushed before the exit event,
\* and a pane that ran has exited.
LEMMA ExitKeeps ==
    ASSUME NEW p, Steady(p), Labelled(p),
           ~p.exit_event_observed,
           NEW rotated \in BOOLEAN, NEW q, q = HandleExitFrame(p, rotated)
    PROVE  /\ Steady(q)
           /\ q.state = IF p.state \in Terminal THEN p.state ELSE "Exited"
           /\ Labelled(q)
           /\ q.exit_event_observed
           /\ q.recorded = p.recorded
           /\ Lost(q.event_log) = Lost(p.event_log)
<1> DEFINE seen == [p EXCEPT !.exit_event_observed = TRUE]
           kept == [seen EXCEPT !.pending = FALSE]
           flushed == FlushPending(seen, rotated)
           exited == PushEvent(flushed, "Exited", << >>)
<1>1. /\ p.state \in States /\ p.event_log \in Seq(Event)
      /\ Tells(p.event_log, p.state) /\ Ended(p.event_log, FALSE, p.pending)
  BY DEF Steady, PaneState
<1>2. q = IF p.state \notin Terminal
          THEN TransitionState(SetExitIfNotKilledOrFailed(exited, "Exited"), "Exited")
          ELSE exited
  BY <1>1 DEF HandleExitFrame, States, Terminal
<1>3. /\ kept \in PaneState
      /\ kept.state = p.state /\ kept.exit = p.exit
      /\ kept.exit_event_observed = TRUE
      /\ kept.pending = FALSE /\ kept.recorded = p.recorded
      /\ kept.event_log = p.event_log
  BY DEF Steady, PaneState
<1>4. flushed = IF p.pending /\ rotated
                THEN PushEvent(kept, "TranscriptRotated", << >>) ELSE kept
  BY DEF FlushPending, Steady, PaneState
<1> HIDE DEF seen, kept, flushed
<1>5. PICK nothing \in Payloads : nothing = << >>
  BY DEF Payloads
<1>6. "TranscriptRotated" \in EventKinds /\ "Exited" \in EventKinds
  BY DEF EventKinds
\* After the flush the log still has no exit event.
<1>7. /\ flushed \in PaneState
      /\ flushed.state = p.state /\ flushed.exit = p.exit
      /\ flushed.exit_event_observed = TRUE
      /\ flushed.pending = FALSE /\ flushed.recorded = p.recorded
      /\ Tells(flushed.event_log, p.state)
      /\ Ended(flushed.event_log, FALSE, p.pending)
      /\ Lost(flushed.event_log) = Lost(p.event_log)
  <2>1. CASE ~(p.pending /\ rotated)
    BY <1>1, <1>3, <1>4, <2>1
  <2>2. CASE p.pending /\ rotated
    <3>1. flushed = PushEvent(kept, "TranscriptRotated", nothing)
      BY <1>4, <1>5, <2>2
    <3>2. /\ flushed \in PaneState
          /\ flushed.state = kept.state /\ flushed.exit = kept.exit
          /\ flushed.exit_event_observed = kept.exit_event_observed
          /\ flushed.pending = kept.pending /\ flushed.recorded = kept.recorded
          /\ \E e \in Event : /\ e.kind = "TranscriptRotated" /\ e.what = nothing
                              /\ flushed.event_log = Append(kept.event_log, e)
      <4>1. kept \in PaneState
        BY <1>3
      <4>2. PICK kind \in EventKinds : kind = "TranscriptRotated"
        BY <1>6
      <4>3. /\ flushed = PushEvent(kept, kind, nothing) /\ nothing \in Payloads
            /\ kind = "Overflow" => nothing[1] \in Nat
        BY <1>5, <3>1, <4>2
      <4>4. /\ flushed \in PaneState
            /\ flushed.state = kept.state /\ flushed.exit = kept.exit
            /\ flushed.exit_event_observed = kept.exit_event_observed
            /\ flushed.pending = kept.pending /\ flushed.recorded = kept.recorded
            /\ \E e \in Event : /\ e.kind = kind /\ e.what = nothing
                                /\ flushed.event_log = Append(kept.event_log, e)
        BY <4>1, <4>3, PushKeeps
      <4>5. QED
        BY <4>2, <4>4
    <3>3. PICK e \in Event : /\ e.kind = "TranscriptRotated"
                             /\ flushed.event_log = Append(p.event_log, e)
      BY <1>3, <3>2
    <3> DEFINE log == p.event_log
    <3>4. Tells(Append(log, e), p.state)
      BY <1>1, <3>3, TellsQuiet
    <3>5. Ended(Append(log, e), FALSE, p.pending)
      BY <1>1, <3>3, EndedQuiet
    <3>6. Lost(Append(log, e)) = Lost(log)
      BY <1>1, <3>3, LostAppend
    <3>7. QED
      BY <1>3, <3>2, <3>3, <3>4, <3>5, <3>6
  <2>3. QED
    BY <2>1, <2>2
<1>8. /\ exited \in PaneState
      /\ exited.state = p.state /\ exited.exit = p.exit
      /\ exited.exit_event_observed = TRUE
      /\ exited.pending = FALSE /\ exited.recorded = p.recorded
      /\ Tells(exited.event_log, p.state)
      /\ Ended(exited.event_log, TRUE, FALSE)
      /\ Lost(exited.event_log) = Lost(p.event_log)
  <2>1. exited = PushEvent(flushed, "Exited", nothing)
    BY <1>5
  <2> HIDE DEF exited
  <2>2. /\ exited \in PaneState
        /\ exited.state = flushed.state /\ exited.exit = flushed.exit
        /\ exited.exit_event_observed = flushed.exit_event_observed
        /\ exited.pending = flushed.pending /\ exited.recorded = flushed.recorded
        /\ \E e \in Event : /\ e.kind = "Exited" /\ e.what = nothing
                            /\ exited.event_log = Append(flushed.event_log, e)
    <3>1. flushed \in PaneState
      BY <1>7
    <3>2. PICK kind \in EventKinds : kind = "Exited"
      BY <1>6
    <3>3. /\ exited = PushEvent(flushed, kind, nothing) /\ nothing \in Payloads
          /\ kind = "Overflow" => nothing[1] \in Nat
      BY <1>5, <2>1, <3>2
    <3>4. /\ exited \in PaneState
          /\ exited.state = flushed.state /\ exited.exit = flushed.exit
          /\ exited.exit_event_observed = flushed.exit_event_observed
          /\ exited.pending = flushed.pending /\ exited.recorded = flushed.recorded
          /\ \E e \in Event : /\ e.kind = kind /\ e.what = nothing
                              /\ exited.event_log = Append(flushed.event_log, e)
      BY <3>1, <3>3, PushKeeps
    <3>5. QED
      BY <3>2, <3>4
  <2>3. PICK e \in Event : /\ e.kind = "Exited"
                           /\ exited.event_log = Append(flushed.event_log, e)
    BY <2>2
  <2> DEFINE log == flushed.event_log
  <2>4. log \in Seq(Event)
    BY <1>7 DEF PaneState
  <2>5. Tells(Append(log, e), p.state)
    BY <1>7, <2>3, <2>4, TellsQuiet
  <2>6. Ended(Append(log, e), TRUE, FALSE)
    BY <1>7, <2>3, <2>4, EndedExit
  <2>7. Lost(Append(log, e)) = Lost(log)
    BY <2>3, <2>4, LostAppend
  <2>8. QED
    BY <1>7, <2>2, <2>3, <2>5, <2>6, <2>7
<1> HIDE DEF exited
<1>9. Steady(exited)
  BY <1>8 DEF Steady
<1>10. CASE p.state \in Terminal
  BY <1>2, <1>8, <1>9, <1>10 DEF Labelled
<1>11. CASE p.state \notin Terminal
  <2>1. PICK new \in Terminal : new = "Exited"
    BY DEF Terminal
  <2>2. /\ q = TransitionState(SetExitIfNotKilledOrFailed(exited, new), new)
        /\ exited.exit = "none" /\ exited.state \notin Terminal
    BY <1>2, <1>8, <1>11, <2>1 DEF Labelled
  <2>3. /\ Steady(q)
        /\ q.state = new /\ q.exit = new
        /\ q.exit_event_observed = exited.exit_event_observed
        /\ q.recorded = exited.recorded
        /\ Lost(q.event_log) = Lost(exited.event_log)
    BY <1>9, <2>2, EndKeeps
  <2>4. QED
    BY <1>8, <1>11, <2>1, <2>3 DEF Labelled
<1>12. QED
  BY <1>10, <1>11

\* Output goes to the transcript and is reported, whatever the surface does.
LEMMA RecordKeeps ==
    ASSUME NEW p, Steady(p), ~p.exit_event_observed, NEW bytes \in Nat,
           NEW o \in OutputOutcome
    PROVE  GoesOn(p, RecordOutputFrame(p, bytes, o), bytes)
<1> DEFINE q == RecordOutputFrame(p, bytes, o)
           n == p.recorded + bytes
           kept == [p EXCEPT !.recorded = n, !.pending = o.held]
           rotated == IF o.rotated THEN PushEvent(kept, "TranscriptRotated", << >>) ELSE kept
           output == PushEvent(rotated, "Output", << >>)
<1>1. q = IF o.fed /\ o.changed THEN PushEvent(output, "SurfaceChanged", << >>) ELSE output
  BY DEF RecordOutputFrame
<1>2. n \in Nat /\ o.held \in BOOLEAN
  BY DEF Steady, PaneState, OutputOutcome
<1> HIDE DEF n, q
<1>3. /\ kept \in PaneState
      /\ kept.state = p.state /\ kept.exit = p.exit
      /\ kept.exit_event_observed = p.exit_event_observed
      /\ kept.recorded = n
      /\ kept.event_log = p.event_log
  BY <1>2 DEF Steady, PaneState
<1> HIDE DEF kept
<1>4. Steady(kept)
  <2>1. Ended(kept.event_log, kept.exit_event_observed, kept.pending)
    BY <1>3 DEF Steady, Ended
  <2>2. QED
    BY <1>3, <2>1 DEF Steady
<1>5. {"TranscriptRotated", "Output", "SurfaceChanged"}
        \subseteq EventKinds \ {"StateChanged", "Exited", "Overflow"}
  BY DEF EventKinds
<1>6. ASSUME NEW r, Steady(r), ~r.exit_event_observed,
             NEW kind \in {"TranscriptRotated", "Output", "SurfaceChanged"},
             NEW s, s = PushEvent(r, kind, << >>)
      PROVE  /\ Steady(s)
             /\ s.state = r.state /\ s.exit = r.exit
             /\ ~s.exit_event_observed
             /\ s.recorded = r.recorded
             /\ Lost(s.event_log) = Lost(r.event_log)
  BY <1>5, <1>6, QuietPush
<1>7. /\ Steady(rotated)
      /\ rotated.state = p.state /\ rotated.exit = p.exit
      /\ ~rotated.exit_event_observed
      /\ rotated.recorded = n
      /\ Lost(rotated.event_log) = Lost(p.event_log)
  <2>1. CASE ~o.rotated
    BY <1>3, <1>4, <2>1
  <2>2. CASE o.rotated
    BY <1>3, <1>4, <1>6, <2>2
  <2>3. QED
    BY <2>1, <2>2
<1> HIDE DEF rotated
<1>8. /\ Steady(output)
      /\ output.state = p.state /\ output.exit = p.exit
      /\ ~output.exit_event_observed
      /\ output.recorded = n
      /\ Lost(output.event_log) = Lost(p.event_log)
  BY <1>6, <1>7
<1> HIDE DEF output
<1>9. /\ Steady(q)
      /\ q.state = p.state /\ q.exit = p.exit
      /\ ~q.exit_event_observed
      /\ q.recorded = n
      /\ Lost(q.event_log) = Lost(p.event_log)
  <2>1. CASE ~(o.fed /\ o.changed)
    BY <1>1, <1>8, <2>1
  <2>2. CASE o.fed /\ o.changed
    <3>1. q = PushEvent(output, "SurfaceChanged", << >>)
      BY <1>1, <2>2
    <3>2. QED
      BY <1>6, <1>8, <3>1
  <2>3. QED
    BY <2>1, <2>2
<1>10. QED
  BY <1>9 DEF GoesOn, n, q

\* An overflow event reports exactly the bytes of the summary.
LEMMA LossKeeps ==
    ASSUME NEW p, Steady(p), ~p.exit_event_observed, NEW bytes \in Nat,
           NEW q, q = PushEvent(p, "Overflow", <<bytes>>)
    PROVE  /\ Steady(q)
           /\ q.state = p.state /\ q.exit = p.exit
           /\ ~q.exit_event_observed
           /\ q.recorded = p.recorded
           /\ Lost(q.event_log) = Lost(p.event_log) + bytes
<1>1. /\ p \in PaneState /\ p.event_log \in Seq(Event)
      /\ Tells(p.event_log, p.state)
      /\ Ended(p.event_log, p.exit_event_observed, p.pending)
  BY DEF Steady, PaneState
<1>2. "Overflow" \in EventKinds
  BY DEF EventKinds
<1>3. PICK what \in Payloads : what = <<bytes>>
  BY DEF Payloads
<1>4. what[1] \in Nat /\ what[1] = bytes
  BY <1>3
<1>5. /\ q \in PaneState
      /\ q.state = p.state /\ q.exit = p.exit
      /\ q.exit_event_observed = p.exit_event_observed
      /\ q.pending = p.pending /\ q.recorded = p.recorded
      /\ \E e \in Event : /\ e.kind = "Overflow" /\ e.what = what
                          /\ q.event_log = Append(p.event_log, e)
  <2>1. q = PushEvent(p, "Overflow", what)
    BY <1>3
  <2>2. QED
    BY <1>1, <1>2, <1>4, <2>1, PushKeeps
<1>6. PICK e \in Event : /\ e.kind = "Overflow" /\ e.what = what
                         /\ q.event_log = Append(p.event_log, e)
  BY <1>5
<1> DEFINE log == p.event_log
<1>7. Tells(Append(log, e), p.state)
  BY <1>1, <1>6, TellsQuiet
<1>8. Ended(Append(log, e), p.exit_event_observed, p.pending)
  BY <1>1, <1>6, EndedQuiet
<1>9. Lost(Append(log, e)) = Lost(log) + bytes
  BY <1>1, <1>4, <1>6, LostAppend
<1>10. QED
  BY <1>5, <1>6, <1>7, <1>8, <1>9 DEF Steady

\* A frame taken: its bytes are recorded or reported lost, an exit frame is
\* observed, and only an exit or a failure ends a pane - one that ran.
LEMMA TakeKeeps ==
    ASSUME NEW p, PaneOK(p), ~p.exit_event_observed, NEW f \in Frame,
           f.kind \in {"Error", "Exited"} => f.bytes = 0,
           NEW o \in OutputOutcome, NEW rotated \in BOOLEAN,
           NEW q, q = HandlePtyFrame(p, f, o, rotated)
    PROVE  /\ PaneOK(q)
           /\ q.recorded + Lost(q.event_log) = (p.recorded + Lost(p.event_log)) + f.bytes
           /\ q.exit_event_observed <=> f.kind = "Exited"
           /\ \/ q.state = p.state
              \/ p.state \notin Terminal /\ q.state = "Failed"
              \/ p.state \notin Terminal /\ q.state = "Exited" /\ f.kind = "Exited"
<1>1. /\ f.kind \in {"Output", "Overflow", "Error", "Exited"} /\ f.bytes \in Nat
  BY DEF Frame, FrameKinds
<1>2. /\ Steady(p) /\ p.recorded \in Nat /\ Lost(p.event_log) \in Nat
      /\ Labelled(p)
  <2>1. p.event_log \in Seq(Event) /\ p.recorded \in Nat
    BY DEF PaneOK, Steady, PaneState
  <2>2. LossOf \in [Event -> Nat]
    BY DEF LossOf, Event
  <2>3. Lost(p.event_log) \in Nat
    BY <2>1, <2>2, WeighType DEF Lost
  <2>4. QED
    BY <2>1, <2>3 DEF PaneOK
<1>3. "Failed" \in Terminal /\ "Exited" \in Terminal
  BY DEF Terminal
<1>4. CASE f.kind = "Output"
  <2> DEFINE r == RecordOutputFrame(p, f.bytes, o)
  <2>1. q = IF o.fed THEN r ELSE FailPane(r, rotated)
    BY <1>4 DEF HandlePtyFrame, HandleOutputFrame
  <2>2. /\ Steady(r)
        /\ r.state = p.state /\ r.exit = p.exit
        /\ ~r.exit_event_observed
        /\ r.recorded = p.recorded + f.bytes
        /\ Lost(r.event_log) = Lost(p.event_log)
    <3>1. GoesOn(p, r, f.bytes)
      BY <1>1, <1>2, RecordKeeps
    <3>2. QED
      BY <3>1 DEF GoesOn
  <2> HIDE DEF r
  <2>3. CASE o.fed
    BY <1>1, <1>2, <1>4, <2>1, <2>2, <2>3 DEF PaneOK, Labelled
  <2>4. CASE ~o.fed
    <3>1. q = FailPane(r, rotated) /\ Labelled(r)
      BY <1>2, <2>1, <2>2, <2>4 DEF Labelled
    <3>2. /\ Steady(q)
          /\ q.state = IF r.state \in Terminal THEN r.state ELSE "Failed"
          /\ Labelled(q)
          /\ q.exit_event_observed = r.exit_event_observed
          /\ q.recorded = r.recorded
          /\ Lost(q.event_log) = Lost(r.event_log)
      BY <2>2, <3>1, FailKeeps
    <3>3. QED
      BY <1>1, <1>2, <1>3, <1>4, <2>2, <3>2 DEF PaneOK
  <2>5. QED
    BY <2>3, <2>4
<1>5. CASE f.kind = "Overflow"
  <2>1. q = PushEvent(p, "Overflow", <<f.bytes>>)
    BY <1>5 DEF HandlePtyFrame
  <2>2. /\ Steady(q)
        /\ q.state = p.state /\ q.exit = p.exit
        /\ ~q.exit_event_observed
        /\ q.recorded = p.recorded
        /\ Lost(q.event_log) = Lost(p.event_log) + f.bytes
    BY <1>1, <1>2, <2>1, LossKeeps
  <2>3. QED
    BY <1>1, <1>2, <1>5, <2>2 DEF PaneOK, Labelled
<1>6. CASE f.kind = "Error"
  <2>1. q = FailPane(p, rotated)
    BY <1>6 DEF HandlePtyFrame
  <2>2. /\ Steady(q)
        /\ q.state = IF p.state \in Terminal THEN p.state ELSE "Failed"
        /\ Labelled(q)
        /\ q.exit_event_observed = p.exit_event_observed
        /\ q.recorded = p.recorded
        /\ Lost(q.event_log) = Lost(p.event_log)
    BY <1>2, <2>1, FailKeeps
  <2>3. QED
    BY <1>1, <1>2, <1>3, <1>6, <2>2 DEF PaneOK
<1>7. CASE f.kind = "Exited"
  <2>1. q = HandleExitFrame(p, rotated)
    BY <1>7 DEF HandlePtyFrame
  <2>2. /\ Steady(q)
        /\ q.state = IF p.state \in Terminal THEN p.state ELSE "Exited"
        /\ Labelled(q)
        /\ q.exit_event_observed
        /\ q.recorded = p.recorded
        /\ Lost(q.event_log) = Lost(p.event_log)
    BY <1>2, <2>1, ExitKeeps
  <2>3. QED
    BY <1>1, <1>2, <1>3, <1>7, <2>2 DEF PaneOK
<1>8. QED
  BY <1>1, <1>4, <1>5, <1>6, <1>7

\* The exit event a removal makes up closes the log as a real one does.
LEMMA RemovalKeeps ==
    ASSUME NEW p, PaneOK(p), p.state \in Terminal, NEW rotated \in BOOLEAN
    PROVE  /\ PaneOK(FlushedForRemoval(p, rotated))
           /\ FlushedForRemoval(p, rotated).state = p.state
           /\ FlushedForRemoval(p, rotated).exit_event_observed
           /\ ~FlushedForRemoval(p, rotated).pending
           /\ FlushedForRemoval(p, rotated).recorded = p.recorded
           /\ Lost(FlushedForRemoval(p, rotated).event_log) = Lost(p.event_log)
<1> DEFINE q == FlushedForRemoval(p, rotated)
           flushed == FlushPending(p, rotated)
           seen == [flushed EXCEPT !.exit_event_observed = TRUE]
<1>1. /\ Steady(p) /\ Labelled(p) /\ p.exit_event_observed \in BOOLEAN
      /\ p.state \in {"Killed", "Failed"} \/ p.exit_event_observed
      /\ p.state # "Starting"
  BY DEF PaneOK, Terminal, Steady, PaneState
<1>2. q = IF ~p.exit_event_observed THEN PushEvent(seen, "Exited", << >>) ELSE flushed
  BY <1>1 DEF FlushedForRemoval
<1>3. /\ Steady(flushed)
      /\ flushed.state = p.state /\ flushed.exit = p.exit
      /\ flushed.exit_event_observed = p.exit_event_observed
      /\ flushed.pending = FALSE /\ flushed.recorded = p.recorded
      /\ Lost(flushed.event_log) = Lost(p.event_log)
  BY <1>1, FlushKeeps
<1> HIDE DEF q, flushed
<1>4. CASE p.exit_event_observed
  <2>1. PaneOK(flushed)
    BY <1>1, <1>3, <1>4 DEF PaneOK, Labelled
  <2>2. QED
    BY <1>2, <1>3, <1>4, <2>1 DEF q
<1>5. CASE ~p.exit_event_observed
  <2>1. /\ seen \in PaneState
        /\ seen.state = p.state /\ seen.exit = p.exit
        /\ seen.exit_event_observed = TRUE
        /\ seen.pending = FALSE /\ seen.recorded = p.recorded
        /\ seen.event_log = flushed.event_log
    BY <1>3 DEF Steady, PaneState
  <2>2. /\ flushed.event_log \in Seq(Event)
        /\ Tells(flushed.event_log, p.state)
        /\ Ended(flushed.event_log, FALSE, flushed.pending)
    BY <1>3, <1>5 DEF Steady, PaneState, Ended
  <2> HIDE DEF seen
  <2>3. PICK nothing \in Payloads : nothing = << >>
    BY DEF Payloads
  <2>4. PICK kind \in EventKinds : kind = "Exited"
    BY DEF EventKinds
  <2>5. /\ q = PushEvent(seen, kind, nothing) /\ nothing \in Payloads
        /\ kind = "Overflow" => nothing[1] \in Nat
    BY <1>2, <1>5, <2>3, <2>4
  <2>6. /\ q \in PaneState
        /\ q.state = seen.state /\ q.exit = seen.exit
        /\ q.exit_event_observed = seen.exit_event_observed
        /\ q.pending = seen.pending /\ q.recorded = seen.recorded
        /\ \E e \in Event : /\ e.kind = kind /\ e.what = nothing
                            /\ q.event_log = Append(seen.event_log, e)
    BY <2>1, <2>5, PushKeeps
  <2>7. PICK e \in Event : /\ e.kind = "Exited"
                          /\ q.event_log = Append(flushed.event_log, e)
    BY <2>1, <2>4, <2>6
  <2> DEFINE log == flushed.event_log
  <2>8. Tells(Append(log, e), p.state)
    BY <2>2, <2>7, TellsQuiet
  <2>9. Ended(Append(log, e), TRUE, FALSE)
    BY <2>2, <2>7, EndedExit
  <2>10. Lost(Append(log, e)) = Lost(log)
    BY <2>2, <2>7, LostAppend
  <2>11. Steady(q)
    BY <2>1, <2>6, <2>7, <2>8, <2>9 DEF Steady
  <2>12. PaneOK(q)
    BY <1>1, <1>3, <2>1, <2>6, <2>11 DEF PaneOK, Labelled
  <2>13. QED
    BY <1>3, <2>1, <2>6, <2>7, <2>10, <2>12 DEF q
<1>6. QED
  BY <1>1, <1>4, <1>5

\* A spawned pane runs and has nothing yet.
LEMMA SpawnedOK ==
    /\ PaneOK(TransitionState(PushEvent(NewPane, "Spawned", << >>), "Running"))
    /\ TransitionState(PushEvent(NewPane, "Spawned", << >>), "Running").state = "Running"
    /\ ~TransitionState(PushEvent(NewPane, "Spawned", << >>), "Running").exit_event_observed
    /\ TransitionState(PushEvent(NewPane, "Spawned", << >>), "Running").recorded = 0
    /\ Lost(TransitionState(PushEvent(NewPane, "Spawned", << >>), "Running").event_log) = 0
<1> DEFINE spawned == PushEvent(NewPane, "Spawned", << >>)
           q == TransitionState(spawned, "Running")
<1>1. << >> \in Seq(Event)
  OBVIOUS
<1>2. /\ NewPane \in PaneState
      /\ NewPane.state = "Starting" /\ NewPane.exit = "none"
      /\ ~NewPane.exit_event_observed /\ NewPane.recorded = 0
      /\ NewPane.event_log = << >>
  BY <1>1 DEF NewPane, PaneState, States
<1>3. Steady(NewPane) /\ Lost(NewPane.event_log) = 0
  <2>1. \A kinds : OfKinds(<< >>, kinds) = {}
    BY DEF OfKinds
  <2>2. Tells(<< >>, "Starting") /\ \A pending : Ended(<< >>, FALSE, pending)
    BY <2>1 DEF Tells, Ended, Terminal
  <2>3. Lost(<< >>) = 0
    <3>1. Weigh(LossOf, << >>) = << >>
      BY DEF Weigh
    <3>2. QED
      BY <3>1, TotalType DEF Lost
  <2>4. QED
    BY <1>2, <2>2, <2>3 DEF Steady, NewPane
<1>4. PICK kind \in EventKinds \ {"StateChanged", "Exited", "Overflow"} :
        kind = "Spawned" /\ kind \notin OutputKinds
  BY DEF EventKinds, OutputKinds
<1>5. spawned = PushEvent(NewPane, kind, << >>)
  BY <1>4
<1> HIDE DEF spawned
<1>6. /\ Steady(spawned)
      /\ spawned.state = NewPane.state /\ spawned.exit = NewPane.exit
      /\ spawned.exit_event_observed = NewPane.exit_event_observed
      /\ spawned.recorded = NewPane.recorded
      /\ Lost(spawned.event_log) = Lost(NewPane.event_log)
  BY <1>3, <1>4, <1>5, QuietPush
<1>7. PICK new \in States : new = "Running"
  BY DEF States
<1>8. q = TransitionState(spawned, new) /\ spawned.state # new /\ spawned.state \notin Terminal
  BY <1>2, <1>6, <1>7 DEF Terminal
<1> HIDE DEF q
<1>9. /\ Steady(q)
      /\ q.state = new /\ q.exit = spawned.exit
      /\ q.exit_event_observed = spawned.exit_event_observed
      /\ q.recorded = spawned.recorded
      /\ Lost(q.event_log) = Lost(spawned.event_log)
  BY <1>6, <1>8, TransitionKeeps
<1>10. PaneOK(q)
  BY <1>2, <1>6, <1>7, <1>9 DEF PaneOK, Labelled, Terminal
<1>11. QED
  BY <1>2, <1>3, <1>6, <1>7, <1>9, <1>10 DEF q, spawned

\* A write, or its failure, is an event and no more.
LEMMA InputKeeps ==
    ASSUME NEW p, PaneOK(p), NEW written \in BOOLEAN,
           NEW q, q = PushEvent([p EXCEPT !.inputs = @ + 1],
                                IF written THEN "InputSent" ELSE "Error", << >>)
    PROVE  /\ PaneOK(q)
           /\ q.state = p.state /\ q.exit_event_observed = p.exit_event_observed
           /\ q.recorded = p.recorded
           /\ Lost(q.event_log) = Lost(p.event_log)
<1> DEFINE r == [p EXCEPT !.inputs = @ + 1]
<1>1. /\ r \in PaneState
      /\ r.state = p.state /\ r.exit = p.exit
      /\ r.exit_event_observed = p.exit_event_observed
      /\ r.pending = p.pending /\ r.recorded = p.recorded
      /\ r.event_log = p.event_log
  <2>1. p \in PaneState /\ p.inputs + 1 \in Nat
    BY DEF PaneOK, Steady, PaneState
  <2>2. QED
    BY <2>1 DEF PaneState
<1>2. PICK kind \in EventKinds \ {"StateChanged", "Exited", "Overflow"} :
        kind = (IF written THEN "InputSent" ELSE "Error") /\ kind \notin OutputKinds
  BY DEF EventKinds, OutputKinds
<1>3. q = PushEvent(r, kind, << >>)
  BY <1>2
<1> HIDE DEF r
<1>4. Steady(r)
  BY <1>1 DEF PaneOK, Steady
<1>5. /\ Steady(q)
      /\ q.state = r.state /\ q.exit = r.exit
      /\ q.exit_event_observed = r.exit_event_observed
      /\ q.recorded = r.recorded
      /\ Lost(q.event_log) = Lost(r.event_log)
  BY <1>2, <1>3, <1>4, QuietPush
<1>6. PaneOK(q)
  BY <1>1, <1>5 DEF PaneOK, Labelled
<1>7. QED
  BY <1>1, <1>5, <1>6

\* A kill ends a running pane as killed.
LEMMA KillKeeps ==
    ASSUME NEW p, PaneOK(p), p.state = "Running",
           NEW q, q = TransitionState(SetExitIfNotKilledOrFailed(p, "Killed"), "Killed")
    PROVE  /\ PaneOK(q)
           /\ q.state = "Killed" /\ q.exit_event_observed = p.exit_event_observed
           /\ q.recorded = p.recorded
           /\ Lost(q.event_log) = Lost(p.event_log)
<1>1. PICK new \in Terminal : new = "Killed"
  BY DEF Terminal
<1>2. Steady(p) /\ p.state \notin Terminal /\ p.exit = "none"
  BY DEF PaneOK, Labelled, Terminal
<1>3. q = TransitionState(SetExitIfNotKilledOrFailed(p, new), new)
  BY <1>1
<1>4. /\ Steady(q)
      /\ q.state = new /\ q.exit = new
      /\ q.exit_event_observed = p.exit_event_observed
      /\ q.recorded = p.recorded
      /\ Lost(q.event_log) = Lost(p.event_log)
  BY <1>2, <1>3, EndKeeps
<1>5. PaneOK(q)
  BY <1>1, <1>4 DEF PaneOK, Labelled
<1>6. QED
  BY <1>1, <1>4, <1>5

-----------------------------------------------------------------------------
(* What the reader thread and a take do to a pane's PTY. *)

PtyState == [ queue    : QueueState,
              seq      : Nat,
              phase    : {"reading", "waiting", "done"},
              produced : Nat ]

\* A summary that more output can still be added to is at the end of the queue
\* and is marked; an exit frame ends the queue and the thread.
PtyOK(t) ==
    /\ t \in PtyState
    /\ t.phase = "reading" =>
         \A i \in Summaries(t.queue.frames) : /\ i = Len(t.queue.frames)
                                             /\ t.queue.overflow_summary_queued
    /\ \A i \in DOMAIN t.queue.frames :
         /\ t.queue.frames[i].kind = "Exited" =>
               i = Len(t.queue.frames) /\ t.phase = "done"
         /\ t.queue.frames[i].kind \in {"Error", "Exited"} => t.queue.frames[i].bytes = 0

\* The bytes queued, or reported lost by what is queued.
BytesOf == [f \in Frame |-> f.bytes]
Queued(t) == Total(Weigh(BytesOf, t.queue.frames))

\* A frame's weight is a number.
LEMMA BytesOfType == BytesOf \in [Frame -> Nat] /\ \A f \in Frame : BytesOf[f] = f.bytes
BY DEF BytesOf, Frame

\* The bytes of a queue whose last frame was exchanged.
LEMMA BytesLast ==
    ASSUME NEW w \in Seq(Frame), w # << >>, NEW x \in Frame
    PROVE  /\ Total(Weigh(BytesOf, [w EXCEPT ![Len(w)] = x])) + BytesOf[w[Len(w)]]
                 = Total(Weigh(BytesOf, w)) + BytesOf[x]
           /\ [w EXCEPT ![Len(w)] = x] \in Seq(Frame)
<1>1. PICK weight \in [Frame -> Nat] : weight = BytesOf
  BY BytesOfType
<1>2. /\ Total(Weigh(weight, [w EXCEPT ![Len(w)] = x])) + weight[w[Len(w)]]
            = Total(Weigh(weight, w)) + weight[x]
      /\ [w EXCEPT ![Len(w)] = x] \in Seq(Frame)
  BY WeighLast
<1>3. QED
  BY <1>1, <1>2

\* A frame of the reader thread: its bytes are queued, or counted as lost.
LEMMA ReadKeeps ==
    ASSUME NEW t, PtyOK(t), t.phase # "done",
           NEW f \in Frame, f.kind # "Overflow",
           NEW phase \in {"reading", "waiting", "done"},
           f.kind = "Output" => t.phase = "reading",
           phase = "reading" => f.kind = "Output",
           f.kind = "Exited" => phase = "done",
           f.kind # "Output" => f.bytes = 0,
           NEW u, u = [queue    |-> Push(t.queue, f),
                       seq      |-> t.seq + 1,
                       phase    |-> phase,
                       produced |-> t.produced + f.bytes]
    PROVE  /\ PtyOK(u)
           /\ Queued(u) = Queued(t) + f.bytes
           /\ Queued(t) \in Nat
           /\ u.produced = t.produced + f.bytes
<1> DEFINE w == t.queue.frames
           v == Push(t.queue, f).frames
           l == Len(w)
           summary == OverflowSummary(f.seq, 1, f.bytes)
           grown == OverflowSummary(w[l].seq, w[l].frames + 1, w[l].bytes + f.bytes)
<1>1. /\ t.queue \in QueueState /\ w \in Seq(Frame) /\ t.seq \in Nat /\ t.produced \in Nat
      /\ l \in Nat /\ DOMAIN w = 1 .. l /\ \A i \in 1 .. l : w[i] \in Frame
  <2>1. t.queue \in QueueState /\ t.seq \in Nat /\ t.produced \in Nat
    BY DEF PtyOK, PtyState
  <2>2. w \in Seq(Frame)
    BY <2>1 DEF QueueState
  <2>3. QED
    BY <2>1, <2>2
<1>2. /\ f.kind \in {"Output", "Error", "Exited"} /\ f.bytes \in Nat /\ f.seq \in Nat
      /\ BytesOf \in [Frame -> Nat] /\ BytesOf[f] = f.bytes
  BY BytesOfType DEF Frame, FrameKinds
<1>3. f.kind = "Output" => \A i \in Summaries(w) : i = l
  BY DEF PtyOK
<1>4. Push(t.queue, f) \in QueueState
  BY <1>1, <1>3, PushType
<1>5. \/ /\ v = Append(w, f)
         /\ f.kind = "Output" => ~t.queue.overflow_summary_queued
      \/ /\ f.kind = "Output" /\ v = Append(w, summary)
         /\ Summaries(w) = {}
         /\ Push(t.queue, f).overflow_summary_queued
      \/ /\ f.kind = "Output" /\ l \in Summaries(w)
         /\ v = [w EXCEPT ![l] = grown]
         /\ Push(t.queue, f).overflow_summary_queued = t.queue.overflow_summary_queued
  BY <1>1, <1>3, PushCases
<1>6. /\ u \in PtyState /\ u.queue = Push(t.queue, f) /\ u.queue.frames = v
      /\ u.phase = phase /\ u.produced = t.produced + f.bytes
  BY <1>1, <1>2, <1>4 DEF PtyState
<1>7. Queued(t) \in Nat
  BY <1>1, <1>2, WeighType DEF Queued
<1>8. /\ summary \in Frame /\ summary.kind = "Overflow" /\ summary.bytes = f.bytes
      /\ BytesOf[summary] = f.bytes
  <2>1. summary \in Frame /\ summary.kind = "Overflow" /\ summary.bytes = f.bytes
    BY <1>2 DEF OverflowSummary, Frame, FrameKinds
  <2>2. QED
    BY <2>1, BytesOfType
<1>9. Summaries(w) \subseteq 1 .. l
  BY <1>1 DEF Summaries
<1>10. /\ \A i \in Summaries(w) : t.phase = "reading" => /\ i = l
                                                      /\ t.queue.overflow_summary_queued
       /\ \A i \in 1 .. l : /\ w[i].kind # "Exited"
                            /\ w[i].kind = "Error" => w[i].bytes = 0
  BY <1>1 DEF PtyOK
<1> HIDE DEF w, v, l, summary
<1>11. ASSUME NEW g \in Frame, v = Append(w, g), g.bytes = f.bytes,
              g = f \/ g.kind = "Overflow",
              phase = "reading" =>
                 /\ Summaries(w) = {}
                 /\ g.kind = "Overflow" => u.queue.overflow_summary_queued
       PROVE  PtyOK(u) /\ Queued(u) = Queued(t) + f.bytes
  <2>1. /\ Len(v) = l + 1 /\ DOMAIN v = 1 .. l + 1 /\ v[l + 1] = g
        /\ \A i \in 1 .. l : v[i] = w[i]
    BY <1>1, <1>11 DEF l
  <2>2. Total(Weigh(BytesOf, Append(w, g))) = Total(Weigh(BytesOf, w)) + BytesOf[g]
    BY <1>1, <1>2, <1>11, WeighAppend
  <2>3. Queued(u) = Queued(t) + f.bytes
    BY <1>6, <1>11, <2>2, BytesOfType DEF Queued, w
  <2>4. ASSUME phase = "reading", NEW i \in Summaries(v)
        PROVE  i = Len(v) /\ u.queue.overflow_summary_queued
    <3>1. Summaries(v) = IF g.kind = "Overflow" THEN Summaries(w) \cup {Len(w) + 1}
                                                ELSE Summaries(w)
      BY <1>1, <1>11, SummariesAppend
    <3>2. QED
      BY <1>11, <2>1, <2>4, <3>1 DEF l
  <2>5. ASSUME NEW i \in DOMAIN v
        PROVE  /\ v[i].kind = "Exited" => i = Len(v) /\ phase = "done"
               /\ v[i].kind \in {"Error", "Exited"} => v[i].bytes = 0
    <3>1. CASE i \in 1 .. l
      BY <1>10, <2>1, <3>1
    <3>2. CASE i = l + 1
      BY <1>2, <1>11, <2>1, <3>2
    <3>3. QED
      BY <1>1, <2>1, <3>1, <3>2
  <2>6. QED
    BY <1>6, <2>3, <2>4, <2>5 DEF PtyOK
<1>12. CASE v = Append(w, f) /\ (f.kind = "Output" => ~t.queue.overflow_summary_queued)
  <2>1. phase = "reading" => Summaries(w) = {} /\ f.kind # "Overflow"
    BY <1>10, <1>12
  <2>2. QED
    BY <1>6, <1>7, <1>11, <1>12, <2>1
<1>13. CASE /\ f.kind = "Output" /\ v = Append(w, summary)
            /\ Summaries(w) = {}
            /\ Push(t.queue, f).overflow_summary_queued
  BY <1>6, <1>7, <1>8, <1>11, <1>13
<1>14. CASE /\ f.kind = "Output" /\ l \in Summaries(w)
            /\ v = [w EXCEPT ![l] = grown]
            /\ Push(t.queue, f).overflow_summary_queued = t.queue.overflow_summary_queued
  <2>1. l \in 1 .. l /\ w[l] \in Frame /\ w[l].kind = "Overflow" /\ w # << >>
    BY <1>1, <1>9, <1>14 DEF Summaries, l
  <2>2. PICK seq \in Nat, frames \in Nat, bytes \in Nat :
          seq = w[l].seq /\ frames = w[l].frames + 1 /\ bytes = w[l].bytes + f.bytes
    BY <1>2, <2>1 DEF Frame
  <2>3. grown \in Frame /\ grown.kind = "Overflow" /\ grown.bytes = w[l].bytes + f.bytes
    BY <2>2 DEF OverflowSummary, Frame, FrameKinds
  <2> HIDE DEF grown
  <2>4. /\ Total(Weigh(BytesOf, v)) + BytesOf[w[l]] = Total(Weigh(BytesOf, w)) + BytesOf[grown]
        /\ v \in Seq(Frame)
    <3>1. v = [w EXCEPT ![Len(w)] = grown]
      BY <1>14 DEF l
    <3>2. PICK x \in Frame : x = grown
      BY <2>3
    <3>3. w \in Seq(Frame) /\ w # << >>
      BY <1>1, <2>1
    <3>4. /\ Total(Weigh(BytesOf, [w EXCEPT ![Len(w)] = x])) + BytesOf[w[Len(w)]]
                = Total(Weigh(BytesOf, w)) + BytesOf[x]
          /\ [w EXCEPT ![Len(w)] = x] \in Seq(Frame)
      BY <3>3, BytesLast
    <3>5. QED
      BY <3>1, <3>2, <3>4 DEF l
  <2>5. Queued(u) = Queued(t) + f.bytes
    <3>1. Total(Weigh(BytesOf, v)) \in Nat
      BY <1>2, <2>4, WeighType
    <3>2. BytesOf[w[l]] = w[l].bytes /\ BytesOf[grown] = grown.bytes /\ w[l].bytes \in Nat
      BY <2>1, <2>3, BytesOfType DEF Frame
    <3>3. Queued(u) = Total(Weigh(BytesOf, v)) /\ Queued(t) = Total(Weigh(BytesOf, w))
      BY <1>6 DEF Queued, w
    <3>4. PICK new \in Nat, old \in Nat, held \in Nat, more \in Nat :
            /\ new = Queued(u) /\ old = Queued(t) /\ held = w[l].bytes /\ more = f.bytes
      BY <1>2, <1>7, <3>1, <3>2, <3>3
    <3>5. new + held = old + (held + more)
      BY <2>3, <2>4, <3>2, <3>3, <3>4
    <3>6. new = old + more
      BY <3>5
    <3>7. QED
      BY <3>4, <3>6
  <2>6. /\ Len(v) = l /\ DOMAIN v = 1 .. l /\ v[l] = grown
        /\ \A i \in 1 .. l : i # l => v[i] = w[i]
    <3>1. w \in Seq(Frame) /\ l = Len(w) /\ l \in 1 .. Len(w) /\ grown \in Frame
      BY <1>1, <2>1, <2>3 DEF l
    <3>2. QED
      BY <1>14, <3>1, ExceptSeq
  <2>7. t.phase = "reading" /\ t.queue.overflow_summary_queued
    BY <1>10, <1>14
  <2>8. ASSUME NEW i \in Summaries(v)
        PROVE  i = Len(v) /\ u.queue.overflow_summary_queued
    <3>1. i \in 1 .. l /\ v[i].kind = "Overflow"
      BY <2>6, <2>8 DEF Summaries
    <3>2. i # l => i \in Summaries(w)
      <4>1. DOMAIN w = 1 .. l
        BY <1>1 DEF l
      <4>2. QED
        BY <2>6, <3>1, <4>1 DEF Summaries
    <3>3. i = l
      BY <1>10, <2>7, <3>2
    <3>4. QED
      BY <1>6, <1>14, <2>6, <2>7, <3>3
  <2>9. ASSUME NEW i \in DOMAIN v
        PROVE  /\ v[i].kind # "Exited"
               /\ v[i].kind = "Error" => v[i].bytes = 0
    BY <1>10, <2>3, <2>6, <2>9
  <2>10. PtyOK(u)
    BY <1>6, <2>8, <2>9 DEF PtyOK
  <2>11. QED
    BY <1>6, <1>7, <2>5, <2>10
<1>15. QED
  BY <1>5, <1>12, <1>13, <1>14 DEF w, v, l, summary

\* A frame f was taken: its bytes leave the queue, and an exit frame leaves
\* nothing.
Taken(t, u, f) ==
    /\ f \in Frame
    /\ f.kind \in {"Error", "Exited"} => f.bytes = 0
    /\ PtyOK(u)
    /\ Queued(t) = f.bytes + Queued(u)
    /\ u.produced = t.produced /\ u.phase = t.phase
    /\ f.kind = "Exited" => u.queue.frames = << >> /\ t.phase = "done"

\* try_recv takes the head frame.
LEMMA PopKeeps ==
    ASSUME NEW t, PtyOK(t), t.queue.frames # << >>,
           NEW u, u = [t EXCEPT !.queue = Popped(@)],
           NEW f, f = Head(t.queue.frames)
    PROVE  Taken(t, u, f)
<1> DEFINE w == t.queue.frames
           v == Tail(w)
           l == Len(w)
<1>1. t \in PtyState /\ t.queue \in QueueState /\ w \in Seq(Frame) /\ w # << >>
  <2>1. t \in PtyState /\ t.queue \in QueueState
    BY DEF PtyOK, PtyState
  <2>2. QED
    BY <2>1 DEF QueueState
<1>2. /\ Popped(t.queue) \in QueueState
      /\ Popped(t.queue).frames = v
      /\ Popped(t.queue).overflow_summary_queued =
           (t.queue.overflow_summary_queued /\ Head(w).kind # "Overflow")
  BY <1>1, PoppedType
<1>3. /\ u \in PtyState /\ u.queue = Popped(t.queue) /\ u.queue.frames = v
      /\ u.phase = t.phase /\ u.produced = t.produced
  BY <1>1, <1>2 DEF PtyState
<1>4. t.phase = "reading" =>
        \A i \in Summaries(w) : i = l /\ t.queue.overflow_summary_queued
  BY DEF PtyOK
<1>5. ASSUME NEW i \in DOMAIN w
      PROVE  /\ w[i].kind = "Exited" => i = l
             /\ w[i].kind = "Exited" => t.phase = "done"
             /\ w[i].kind = "Error" \/ w[i].kind = "Exited" => w[i].bytes = 0
  BY DEF PtyOK
<1> HIDE DEF w, v, l
<1>6. /\ l \in Nat \ {0} /\ DOMAIN w = 1 .. l /\ f = w[1] /\ f \in Frame
      /\ Len(v) = l - 1 /\ DOMAIN v = 1 .. l - 1
      /\ \A i \in 1 .. l - 1 : v[i] = w[i + 1]
      /\ l = 1 => v = << >>
  <2>1. w \in Seq(Frame) /\ w # << >> /\ v = Tail(w) /\ l = Len(w) /\ f = Head(w)
    BY <1>1 DEF w, v, l
  <2>2. QED
    BY <2>1, EmptySeq, HeadTailProperties, LenProperties
<1>7. Queued(t) = f.bytes + Queued(u)
  <2>1. /\ Total(Weigh(BytesOf, w)) = BytesOf[Head(w)] + Total(Weigh(BytesOf, Tail(w)))
        /\ Head(w) \in Frame
    BY <1>1, BytesOfType, WeighTail
  <2>2. QED
    BY <1>3, <2>1, BytesOfType DEF Queued, w, v
<1>8. ASSUME t.phase = "reading", NEW i \in Summaries(v)
      PROVE  i = Len(v) /\ u.queue.overflow_summary_queued
  <2>1. i \in Nat \ {0} /\ i + 1 \in Summaries(w)
    BY <1>1, <1>8, SummariesTail DEF v
  <2>2. i + 1 = l /\ t.queue.overflow_summary_queued
    BY <1>4, <1>8, <2>1
  <2>3. f.kind # "Overflow"
    <3>1. 1 # l
      BY <1>6, <2>1, <2>2
    <3>2. 1 \notin Summaries(w)
      BY <1>4, <1>8, <3>1
    <3>3. QED
      BY <1>6, <3>2 DEF Summaries
  <2>4. u.queue.overflow_summary_queued
    <3>1. f = Head(w)
      BY DEF w
    <3>2. QED
      BY <1>2, <1>3, <2>2, <2>3, <3>1
  <2>5. i = Len(v)
    BY <1>6, <2>1, <2>2
  <2>6. QED
    BY <2>4, <2>5
<1>9. ASSUME NEW i \in DOMAIN v
      PROVE  /\ v[i].kind = "Exited" => i = Len(v) /\ u.phase = "done"
             /\ v[i].kind \in {"Error", "Exited"} => v[i].bytes = 0
  <2>1. i \in 1 .. l - 1 /\ i + 1 \in DOMAIN w /\ v[i] = w[i + 1]
    BY <1>6
  <2>2. v[i].kind \in {"Error", "Exited"} => v[i].bytes = 0
    BY <1>5, <2>1
  <2>3. ASSUME v[i].kind = "Exited"
        PROVE  i = Len(v) /\ u.phase = "done"
    <3>1. i + 1 = l /\ t.phase = "done"
      BY <1>5, <2>1, <2>3
    <3>2. QED
      BY <1>3, <1>6, <2>1, <3>1
  <2>4. QED
    BY <2>2, <2>3
<1>10. PtyOK(u)
  BY <1>3, <1>8, <1>9 DEF PtyOK
<1>11. 1 \in DOMAIN w
  BY <1>6
<1>12. f.kind \in {"Error", "Exited"} => f.bytes = 0
  BY <1>5, <1>6, <1>11
<1>13. f.kind = "Exited" => u.queue.frames = << >> /\ t.phase = "done"
  BY <1>5, <1>3, <1>6, <1>11
<1>14. QED
  BY <1>3, <1>6, <1>7, <1>10, <1>12, <1>13 DEF Taken

-----------------------------------------------------------------------------
(* The invariant. *)

\* A pane and its PTY: the bytes add up; an exit that was observed left nothing
\* to take; a pane is killed, or has exited, only when the thread is done.
Matched(p, t) ==
    /\ PaneOK(p) /\ PtyOK(t)
    /\ p.recorded + Lost(p.event_log) + Queued(t) = t.produced
    /\ p.exit_event_observed => t.queue.frames = << >> /\ t.phase = "done"
    /\ p.state \in {"Killed", "Exited"} => t.phase = "done"

\* What is left of a removed pane: its story is complete, but for what the
\* thread of a failed one pushed while it was dropped.
Settled(p, t) ==
    /\ PaneOK(p) /\ p.exit_event_observed /\ ~p.pending
    /\ p.recorded + Lost(p.event_log) + Queued(t) = t.produced
    /\ p.state # "Failed" => t.queue.frames = << >>

Gone == {r \in [id : Nat, pane : PaneState, pty : PtyState] : Settled(r.pane, r.pty)}

Registry ==
    /\ Live \subseteq Nat
    /\ panes \in [Live -> PaneState] /\ pty \in [Live -> PtyState]
    /\ removed \in Seq(Gone)
PanesMatched == \A id \in Live : Matched(panes[id], pty[id])

\* While the manager is inside of a kill the pane runs; before it drops a pane,
\* the pane has ended, and only a failed one still gets frames.
ManagerState == [op : {"idle", "kill", "remove", "flush", "drop"}, id : Nat,
                 then_remove : BOOLEAN]
ManagerOK ==
    /\ manager \in ManagerState
    /\ manager.op = "kill" =>
         manager.id \in Live /\ panes[manager.id].state = "Running"
    /\ manager.op \in {"flush", "drop"} =>
         manager.id \in Live /\ panes[manager.id].state \in Terminal
    /\ manager.op = "drop" /\ panes[manager.id].state # "Failed" =>
         pty[manager.id].queue.frames = << >>

IInv == Registry /\ PanesMatched /\ ManagerOK

\* The counter is past every id that was used.
IdInv == next_pane_id \in Nat /\ used \subseteq 0 .. next_pane_id

\* What a pane recorded and lost are numbers.
LEMMA PaneNumbers ==
    ASSUME NEW p, PaneOK(p)
    PROVE  p.recorded \in Nat /\ Lost(p.event_log) \in Nat
<1>1. p.event_log \in Seq(Event) /\ p.recorded \in Nat
  BY DEF PaneOK, Steady, PaneState
<1>2. LossOf \in [Event -> Nat]
  BY DEF LossOf, Event
<1>3. QED
  BY <1>1, <1>2, WeighType DEF Lost

\* So is what is queued.
LEMMA PtyNumbers ==
    ASSUME NEW t, PtyOK(t)
    PROVE  Queued(t) \in Nat /\ t.queue.frames \in Seq(Frame) /\ t.produced \in Nat
<1>1. t.queue \in QueueState /\ t.produced \in Nat
  BY DEF PtyOK, PtyState
<1>2. t.queue.frames \in Seq(Frame)
  BY <1>1 DEF QueueState
<1>3. QED
  BY <1>1, <1>2, BytesOfType, WeighType DEF Queued

\* A pane and its PTY exchanged for ones that match keep the registry in order.
LEMMA OnePane ==
    ASSUME Registry, PanesMatched, NEW id \in Live, NEW p, NEW t, Matched(p, t),
           panes' = [panes EXCEPT ![id] = p], pty' = [pty EXCEPT ![id] = t],
           removed' = removed
    PROVE  /\ Registry' /\ PanesMatched' /\ Live' = Live
           /\ panes'[id] = p
           /\ \A other \in Live : other # id => panes'[other] = panes[other]
<1>1. p \in PaneState /\ t \in PtyState
  BY DEF Matched, PaneOK, Steady, PtyOK
<1>2. panes \in [Live -> PaneState] /\ pty \in [Live -> PtyState]
  BY DEF Registry
<1>3. panes' \in [Live -> PaneState] /\ pty' \in [Live -> PtyState]
  BY <1>1, <1>2
<1>4. Live' = Live
  BY <1>3 DEF Live
<1>5. /\ panes'[id] = p /\ pty'[id] = t
      /\ \A other \in Live : other # id => /\ panes'[other] = panes[other]
                                           /\ pty'[other] = pty[other]
  BY <1>2
<1>6. Registry'
  BY <1>3, <1>4 DEF Registry
<1>7. ASSUME NEW other \in Live PROVE Matched(panes'[other], pty'[other])
  BY <1>5 DEF PanesMatched
<1>8. PanesMatched'
  BY <1>4, <1>7 DEF PanesMatched
<1>9. QED
  BY <1>4, <1>5, <1>6, <1>8

\* try_recv and the handling of its frame: a pane that had ended stays as it
\* ended.
LEMMA TakeStep ==
    ASSUME Registry, PanesMatched, NEW id \in Live, TakeFrame(id), removed' = removed
    PROVE  /\ Registry' /\ PanesMatched' /\ Live' = Live
           /\ panes[id].state \in Terminal => panes'[id].state = panes[id].state
<1> DEFINE f == Head(pty[id].queue.frames)
<1>1. PICK o \in Outcomes, rotated \in {FALSE, MayRotate} :
        /\ pty[id].queue.frames # << >>
        /\ panes' = [panes EXCEPT ![id] = HandlePtyFrame(@, f, o, rotated)]
        /\ pty' = [pty EXCEPT ![id].queue = Popped(@)]
  BY DEF TakeFrame
<1>2. PICK p, t, q, u : /\ p = panes[id] /\ t = pty[id]
                        /\ q = HandlePtyFrame(p, f, o, rotated)
                        /\ u = [t EXCEPT !.queue = Popped(@)]
  OBVIOUS
<1>3. panes' = [panes EXCEPT ![id] = q] /\ pty' = [pty EXCEPT ![id] = u]
  BY <1>1, <1>2 DEF Registry
<1>4. Matched(p, t) /\ t.queue.frames # << >> /\ f = Head(t.queue.frames)
  BY <1>1, <1>2 DEF PanesMatched
<1> HIDE DEF f
<1>5. PaneOK(p) /\ PtyOK(t) /\ ~p.exit_event_observed
  BY <1>4 DEF Matched
<1>6. o \in OutputOutcome /\ rotated \in BOOLEAN
  BY OutcomesAssumption DEF MayRotate
<1>7. /\ f \in Frame
      /\ f.kind \in {"Error", "Exited"} => f.bytes = 0
      /\ PtyOK(u)
      /\ Queued(t) = f.bytes + Queued(u)
      /\ u.produced = t.produced /\ u.phase = t.phase
      /\ f.kind = "Exited" => u.queue.frames = << >> /\ t.phase = "done"
  <2>1. Taken(t, u, f)
    BY <1>2, <1>4, <1>5, PopKeeps
  <2>2. QED
    BY <2>1 DEF Taken
<1>8. /\ PaneOK(q)
      /\ q.recorded + Lost(q.event_log) = (p.recorded + Lost(p.event_log)) + f.bytes
      /\ q.exit_event_observed <=> f.kind = "Exited"
      /\ \/ q.state = p.state
         \/ p.state \notin Terminal /\ q.state = "Failed"
         \/ p.state \notin Terminal /\ q.state = "Exited" /\ f.kind = "Exited"
  BY <1>2, <1>5, <1>6, <1>7, TakeKeeps
<1>9. q.recorded + Lost(q.event_log) + Queued(u) = u.produced
  <2>1. /\ p.recorded \in Nat /\ Lost(p.event_log) \in Nat
        /\ q.recorded \in Nat /\ Lost(q.event_log) \in Nat
    BY <1>5, <1>8, PaneNumbers
  <2>2. Queued(t) \in Nat /\ Queued(u) \in Nat /\ f.bytes \in Nat
    BY <1>5, <1>7, PtyNumbers DEF Frame
  <2>3. p.recorded + Lost(p.event_log) + Queued(t) = t.produced
    BY <1>4 DEF Matched
  <2>4. PICK kept \in Nat, lost \in Nat, bytes \in Nat, left \in Nat :
          /\ kept = q.recorded /\ lost = Lost(q.event_log)
          /\ bytes = f.bytes /\ left = Queued(u)
    BY <2>1, <2>2
  <2>5. (p.recorded + Lost(p.event_log)) + (bytes + left) = t.produced
    BY <1>7, <2>3, <2>4
  <2>6. kept + lost = (p.recorded + Lost(p.event_log)) + bytes
    BY <1>8, <2>4
  <2>7. kept + lost + left = t.produced
    BY SMTT(30), <2>1, <2>5, <2>6
  <2>8. QED
    BY <1>7, <2>4, <2>7
<1>10. Matched(q, u)
  BY <1>4, <1>7, <1>8, <1>9 DEF Matched
<1>11. /\ Registry' /\ PanesMatched' /\ Live' = Live
       /\ panes'[id] = q
  BY <1>3, <1>10, OnePane
<1>12. QED
  BY <1>2, <1>8, <1>11

\* A frame of a reader thread leaves every pane as it was.
LEMMA ReadStep ==
    ASSUME IInv, NEW id \in Live, pty[id].phase # "done",
           NEW f \in Frame, f.kind # "Overflow",
           NEW phase \in {"reading", "waiting", "done"},
           f.kind = "Output" => pty[id].phase = "reading",
           phase = "reading" => f.kind = "Output",
           f.kind = "Exited" => phase = "done",
           f.kind # "Output" => f.bytes = 0,
           Read(id, f, phase)
    PROVE  IInv'
<1>1. Registry /\ PanesMatched /\ ManagerOK
  BY DEF IInv
<1>2. PICK t, p, u : /\ t = pty[id] /\ p = panes[id]
                     /\ u = [queue    |-> Push(t.queue, f),
                             seq      |-> t.seq + 1,
                             phase    |-> phase,
                             produced |-> t.produced + f.bytes]
  OBVIOUS
<1>3. /\ pty' = [pty EXCEPT ![id] = u] /\ panes' = [panes EXCEPT ![id] = p]
      /\ removed' = removed /\ manager' = manager
  BY <1>1, <1>2 DEF Read, Registry
<1>4. Matched(p, t)
  BY <1>1, <1>2 DEF PanesMatched
<1>5. PtyOK(t) /\ PaneOK(p)
  BY <1>4 DEF Matched
<1>6. /\ PtyOK(u)
      /\ Queued(u) = Queued(t) + f.bytes
      /\ u.produced = t.produced + f.bytes
      /\ u.phase = phase
  <2>1. t.phase # "done" /\ (f.kind = "Output" => t.phase = "reading")
    BY <1>2
  <2>2. /\ PtyOK(u)
        /\ Queued(u) = Queued(t) + f.bytes
        /\ u.produced = t.produced + f.bytes
    BY <1>2, <1>5, <2>1, ReadKeeps
  <2>3. QED
    BY <1>2, <2>2
<1>7. Matched(p, u)
  <2>1. ~p.exit_event_observed /\ p.state \notin {"Killed", "Exited"}
    BY <1>2, <1>4 DEF Matched
  <2>2. p.recorded \in Nat /\ Lost(p.event_log) \in Nat /\ Queued(t) \in Nat /\ f.bytes \in Nat
    BY <1>5, PaneNumbers, PtyNumbers DEF Frame
  <2>3. p.recorded + Lost(p.event_log) + Queued(t) = t.produced
    BY <1>4 DEF Matched
  <2>4. p.recorded + Lost(p.event_log) + Queued(u) = u.produced
    BY <1>6, <2>2, <2>3
  <2>5. QED
    BY <1>5, <1>6, <2>1, <2>4 DEF Matched
<1>8. /\ Registry' /\ PanesMatched' /\ Live' = Live
      /\ panes'[id] = p
      /\ \A other \in Live : other # id => panes'[other] = panes[other]
  BY <1>1, <1>3, <1>7, OnePane
<1>9. ManagerOK'
  <2>1. ~(panes[id].state \in {"Killed", "Exited"})
    BY <1>2, <1>4 DEF Matched
  <2>2. ASSUME manager.op = "drop", panes[manager.id].state # "Failed"
        PROVE  pty'[manager.id] = pty[manager.id]
    <3>1. manager.id \in Live /\ panes[manager.id].state \in Terminal
      BY <1>1, <2>2 DEF ManagerOK
    <3>2. manager.id # id
      BY <2>1, <2>2, <3>1 DEF Terminal
    <3>3. QED
      BY <1>1, <1>3, <3>1, <3>2 DEF Registry
  <2>3. manager.op \in {"kill", "flush", "drop"} => panes'[manager.id] = panes[manager.id]
    BY <1>1, <1>2, <1>8 DEF ManagerOK
  <2>4. /\ manager' \in ManagerState
        /\ manager'.op = "kill" =>
             manager'.id \in Live' /\ panes'[manager'.id].state = "Running"
        /\ manager'.op \in {"flush", "drop"} =>
             manager'.id \in Live' /\ panes'[manager'.id].state \in Terminal
    BY <1>1, <1>3, <1>8, <2>3 DEF ManagerOK
  <2>5. manager'.op = "drop" /\ panes'[manager'.id].state # "Failed" =>
          pty'[manager'.id].queue.frames = << >>
    BY <1>1, <1>3, <2>2, <2>3 DEF ManagerOK
  <2>6. QED
    BY <2>4, <2>5 DEF ManagerOK
<1>10. QED
  BY <1>8, <1>9 DEF IInv

\* Whatever the reader thread of a pane does.
LEMMA ReaderStep ==
    ASSUME IInv, NEW id \in Live, Reader(id)
    PROVE  IInv'
<1>1. PtyOK(pty[id])
  BY DEF IInv, PanesMatched, Matched
<1>2. pty[id].seq + 1 \in Nat /\ pty[id].seq \in Nat
  BY <1>1 DEF PtyOK, PtyState
<1>3. CASE ReaderOutput(id)
  <2>1. PICK f \in Frame : /\ f = OutputFrame(pty[id].seq + 1, 1)
                           /\ f.kind = "Output" /\ f.bytes = 1
    <3>1. PICK n \in Nat, one \in Nat : n = pty[id].seq + 1 /\ one = 1
      BY <1>2
    <3>2. /\ OutputFrame(n, one) \in Frame
          /\ OutputFrame(n, one).kind = "Output" /\ OutputFrame(n, one).bytes = one
      BY <3>1 DEF OutputFrame, Frame, FrameKinds
    <3>3. QED
      BY <3>1, <3>2
  <2>2. /\ pty[id].phase = "reading" /\ Read(id, f, "reading")
        /\ "reading" \in {"reading", "waiting", "done"}
    BY <1>3, <2>1 DEF ReaderOutput
  <2>3. QED
    BY <2>1, <2>2, ReadStep
<1>4. ASSUME NEW kind \in {"Exited", "Error"}
      PROVE  /\ ControlFrame(kind, pty[id].seq + 1) \in Frame
             /\ ControlFrame(kind, pty[id].seq + 1).kind = kind
             /\ ControlFrame(kind, pty[id].seq + 1).bytes = 0
  BY <1>2 DEF ControlFrame, Frame, FrameKinds
<1>5. CASE ReaderError(id)
  <2>1. PICK f \in Frame : /\ f = ControlFrame("Error", pty[id].seq + 1)
                           /\ f.kind = "Error" /\ f.bytes = 0
    BY <1>4
  <2>2. pty[id].phase = "reading" /\ Read(id, f, "waiting")
    BY <1>5, <2>1 DEF ReaderError
  <2>3. QED
    BY <2>1, <2>2, ReadStep
<1>6. CASE ReaderEnds(id)
  <2>1. PICK kind \in {"Exited", "Error"} : Read(id, ControlFrame(kind, pty[id].seq + 1), "done")
    BY <1>6 DEF ReaderEnds
  <2>2. PICK f \in Frame : /\ f = ControlFrame(kind, pty[id].seq + 1)
                           /\ f.kind = kind /\ f.bytes = 0
    BY <1>4
  <2>3. pty[id].phase # "done" /\ Read(id, f, "done")
    BY <1>6, <2>1, <2>2 DEF ReaderEnds
  <2>4. f.kind # "Overflow" /\ f.kind # "Output"
    BY <2>2
  <2>5. QED
    BY <2>2, <2>3, <2>4, ReadStep
<1>7. QED
  BY <1>3, <1>5, <1>6 DEF Reader

\* A step that changes neither panes nor PTYs keeps what is said of them.
LEMMA SamePanes ==
    ASSUME Registry, PanesMatched, UNCHANGED <<panes, pty, removed>>
    PROVE  Registry' /\ PanesMatched' /\ Live' = Live
BY DEF Registry, PanesMatched, Live

\* A spawn under any number adds a pane that runs, or nothing.
LEMMA SpawnStep ==
    ASSUME IInv, Idle, NEW id \in Nat, SpawnAs(id)
    PROVE  IInv'
<1>1. Registry /\ PanesMatched /\ ManagerOK
  BY DEF IInv
<1>2. manager' = manager /\ removed' = removed /\ manager.op = "idle"
  BY DEF SpawnAs, Idle, IdleManager
<1>3. ManagerOK'
  BY <1>1, <1>2 DEF ManagerOK, ManagerState
<1>4. CASE UNCHANGED <<panes, pty, used>>
  BY <1>1, <1>2, <1>3, <1>4, SamePanes DEF IInv
<1>5. CASE /\ id \notin Live
           /\ panes' = [i \in Live \cup {id} |->
                          IF i = id
                          THEN TransitionState(PushEvent(NewPane, "Spawned", << >>), "Running")
                          ELSE panes[i]]
           /\ pty' = [i \in Live \cup {id} |-> IF i = id THEN NewPty ELSE pty[i]]
  <2> DEFINE p == TransitionState(PushEvent(NewPane, "Spawned", << >>), "Running")
  <2>1. /\ PaneOK(p) /\ p.state = "Running" /\ ~p.exit_event_observed
        /\ p.recorded = 0 /\ Lost(p.event_log) = 0
    BY SpawnedOK
  <2> HIDE DEF p
  <2>2. /\ PtyOK(NewPty) /\ Queued(NewPty) = 0 /\ NewPty.produced = 0
    <3>1. /\ NewPty \in PtyState /\ NewPty.queue.frames = << >> /\ NewPty.produced = 0
      BY EmptyQueueType DEF NewPty, PtyState, EmptyQueue
    <3>2. Summaries(<< >>) = {} /\ Weigh(BytesOf, << >>) = << >>
      BY DEF Summaries, Weigh
    <3>3. PtyOK(NewPty)
      BY <3>1, <3>2 DEF PtyOK
    <3>4. QED
      BY <3>1, <3>2, <3>3, TotalType DEF Queued
  <2>3. Matched(p, NewPty)
    BY <2>1, <2>2 DEF Matched
  <2>4. Live' = Live \cup {id}
    BY <1>5 DEF Live
  <2>5. /\ panes'[id] = p /\ pty'[id] = NewPty
        /\ \A i \in Live : panes'[i] = panes[i] /\ pty'[i] = pty[i]
    BY <1>5 DEF p
  <2>6. PanesMatched'
    BY <1>1, <2>3, <2>4, <2>5 DEF PanesMatched
  <2>7. Registry'
    <3>1. p \in PaneState /\ NewPty \in PtyState
      BY <2>1, <2>2 DEF PaneOK, Steady, PtyOK
    <3>2. panes' = [i \in Live \cup {id} |-> IF i = id THEN p ELSE panes[i]]
      BY <1>5 DEF p
    <3>3. panes' \in [Live' -> PaneState] /\ pty' \in [Live' -> PtyState]
      BY <1>1, <1>5, <2>4, <3>1, <3>2 DEF Registry
    <3>4. QED
      BY <1>1, <1>2, <2>4, <3>3 DEF Registry
  <2>8. QED
    BY <1>3, <2>6, <2>7 DEF IInv
<1>6. QED
  BY <1>4, <1>5 DEF SpawnAs

\* A kill begins with a pane that runs, and ends with one that was killed when
\* the thread is done; it may fail.
LEMMA KillStep ==
    ASSUME IInv, NEW id \in Live,
           \/ \E then_remove \in BOOLEAN : BeginKill(id, then_remove)
           \/ KillFails(id) \/ KillReturns(id)
    PROVE  IInv'
<1>1. Registry /\ PanesMatched /\ ManagerOK /\ id \in Nat
  BY DEF IInv, Registry
<1>2. IdleManager \in ManagerState
      /\ IdleManager.op = "idle"
  BY DEF IdleManager, ManagerState
<1>3. CASE \E then_remove \in BOOLEAN : BeginKill(id, then_remove)
  <2>1. PICK then_remove \in BOOLEAN : BeginKill(id, then_remove)
    BY <1>3
  <2>2. /\ UNCHANGED <<panes, pty, removed>> /\ panes[id].state = "Running"
        /\ manager' = [op |-> "kill", id |-> id, then_remove |-> then_remove]
    BY <2>1 DEF BeginKill, Enter
  <2>3. Registry' /\ PanesMatched' /\ Live' = Live
    BY <1>1, <2>2, SamePanes
  <2>4. ManagerOK'
    BY <1>1, <2>2, <2>3 DEF ManagerOK, ManagerState
  <2>5. QED
    BY <2>3, <2>4 DEF IInv
<1>4. CASE KillFails(id)
  <2>1. UNCHANGED <<panes, pty, removed>> /\ manager' = IdleManager
    BY <1>4 DEF KillFails
  <2>2. Registry' /\ PanesMatched' /\ Live' = Live
    BY <1>1, <2>1, SamePanes
  <2>3. ManagerOK'
    BY <1>2, <2>1 DEF ManagerOK, ManagerState
  <2>4. QED
    BY <2>2, <2>3 DEF IInv
<1>5. CASE KillReturns(id)
  <2>1. PICK p, t, q : /\ p = panes[id] /\ t = pty[id]
                       /\ q = TransitionState(SetExitIfNotKilledOrFailed(p, "Killed"), "Killed")
    OBVIOUS
  <2>2. /\ panes' = [panes EXCEPT ![id] = q] /\ pty' = [pty EXCEPT ![id] = t]
        /\ removed' = removed /\ t.phase = "done"
    BY <1>1, <1>5, <2>1 DEF KillReturns, Registry
  <2>3. Matched(p, t) /\ PaneOK(p) /\ p.state = "Running"
    BY <1>1, <1>5, <2>1 DEF PanesMatched, Matched, KillReturns, Inside, ManagerOK
  <2>4. /\ PaneOK(q)
        /\ q.state = "Killed" /\ q.exit_event_observed = p.exit_event_observed
        /\ q.recorded = p.recorded
        /\ Lost(q.event_log) = Lost(p.event_log)
    BY <2>1, <2>3, KillKeeps
  <2>5. Matched(q, t)
    BY <2>2, <2>3, <2>4 DEF Matched
  <2>6. Registry' /\ PanesMatched' /\ Live' = Live
    BY <1>1, <2>2, <2>5, OnePane
  <2>7. manager' = IdleManager \/ manager' = [op |-> "remove", id |-> id, then_remove |-> FALSE]
    BY <1>5 DEF KillReturns, Enter
  <2>8. ManagerOK'
    <3>1. CASE manager' = IdleManager
      BY <1>2, <3>1 DEF ManagerOK, ManagerState
    <3>2. CASE manager' = [op |-> "remove", id |-> id, then_remove |-> FALSE]
      BY <1>1, <3>2 DEF ManagerOK, ManagerState
    <3>3. QED
      BY <2>7, <3>1, <3>2
  <2>9. QED
    BY <2>6, <2>8 DEF IInv
<1>6. QED
  BY <1>3, <1>4, <1>5

\* A removal drains the queue, and drops the pane when it has ended and
\* nothing is left to take.
LEMMA RemoveStep ==
    ASSUME IInv, NEW id \in Live, BeginRemove(id) \/ Removal(id)
    PROVE  IInv'
<1>1. Registry /\ PanesMatched /\ ManagerOK /\ id \in Nat
  BY DEF IInv, Registry
<1>2. IdleManager \in ManagerState
      /\ IdleManager.op = "idle"
  BY DEF IdleManager, ManagerState
<1>3. CASE BeginRemove(id)
  <2>1. /\ UNCHANGED <<panes, pty, removed>>
        /\ manager' = [op |-> "remove", id |-> id, then_remove |-> FALSE]
    BY <1>3 DEF BeginRemove, Enter
  <2>2. Registry' /\ PanesMatched' /\ Live' = Live
    BY <1>1, <2>1, SamePanes
  <2>3. ManagerOK'
    BY <1>1, <2>1 DEF ManagerOK, ManagerState
  <2>4. QED
    BY <2>2, <2>3 DEF IInv
<1>4. CASE RemoveDrains(id)
  <2>1. /\ TakeFrame(id) /\ removed' = removed /\ manager' = manager
        /\ manager.op \in {"remove", "flush"} /\ manager.id = id
    BY <1>4 DEF RemoveDrains, Inside
  <2>2. /\ Registry' /\ PanesMatched' /\ Live' = Live
        /\ panes[id].state \in Terminal => panes'[id].state = panes[id].state
    BY <1>1, <2>1, TakeStep
  <2>3. ManagerOK'
    BY <1>1, <2>1, <2>2 DEF ManagerOK, ManagerState
  <2>4. QED
    BY <2>2, <2>3 DEF IInv
<1>5. CASE RemoveChecks(id)
  <2>1. /\ UNCHANGED <<panes, pty, removed>>
        /\ IF panes[id].state \in Terminal
           THEN manager' = [op |-> "flush", id |-> id, then_remove |-> FALSE]
           ELSE manager' = IdleManager
    BY <1>5 DEF RemoveChecks, Enter
  <2>2. Registry' /\ PanesMatched' /\ Live' = Live
    BY <1>1, <2>1, SamePanes
  <2>3. ManagerOK'
    <3>1. CASE panes[id].state \in Terminal
      <4>1. manager' = [op |-> "flush", id |-> id, then_remove |-> FALSE]
        BY <2>1, <3>1
      <4>2. id \in Live' /\ panes'[id].state \in Terminal
        BY <2>1, <2>2, <3>1
      <4>3. QED
        BY <1>1, <4>1, <4>2 DEF ManagerOK, ManagerState
    <3>2. CASE panes[id].state \notin Terminal
      BY <1>2, <2>1, <3>2 DEF ManagerOK, ManagerState
    <3>3. QED
      BY <3>1, <3>2
  <2>4. QED
    BY <2>2, <2>3 DEF IInv
<1>6. CASE RemoveDrained(id)
  <2>1. /\ UNCHANGED <<panes, pty, removed>> /\ pty[id].queue.frames = << >>
        /\ manager' = [op |-> "drop", id |-> id, then_remove |-> FALSE]
        /\ manager.op = "flush" /\ manager.id = id
    BY <1>6 DEF RemoveDrained, Enter, Inside
  <2>2. Registry' /\ PanesMatched' /\ Live' = Live
    BY <1>1, <2>1, SamePanes
  <2>3. panes[id].state \in Terminal
    BY <1>1, <2>1 DEF ManagerOK
  <2>4. ManagerOK'
    BY <1>1, <2>1, <2>2, <2>3 DEF ManagerOK, ManagerState
  <2>5. QED
    BY <2>2, <2>4 DEF IInv
<1>7. CASE RemoveFinishes(id)
  <2>1. PICK rotated \in {FALSE, MayRotate} :
          removed' = Append(removed, [id   |-> id,
                                      pane |-> FlushedForRemoval(panes[id], rotated),
                                      pty  |-> pty[id]])
    BY <1>7 DEF RemoveFinishes
  <2>2. PICK p, t, q : /\ p = panes[id] /\ t = pty[id] /\ q = FlushedForRemoval(p, rotated)
    OBVIOUS
  <2>3. rotated \in BOOLEAN
    BY OutcomesAssumption DEF MayRotate, OutputOutcome
  <2>4. /\ Matched(p, t) /\ PaneOK(p) /\ PtyOK(t)
        /\ p.state \in Terminal
        /\ p.state # "Failed" => t.queue.frames = << >>
    BY <1>1, <1>7, <2>2 DEF PanesMatched, Matched, RemoveFinishes, Inside, ManagerOK
  <2>5. /\ PaneOK(q) /\ q.state = p.state
        /\ q.exit_event_observed /\ ~q.pending
        /\ q.recorded = p.recorded
        /\ Lost(q.event_log) = Lost(p.event_log)
    BY <2>2, <2>3, <2>4, RemovalKeeps
  <2>6. q.recorded + Lost(q.event_log) + Queued(t) = t.produced
    BY <2>4, <2>5 DEF Matched
  <2>7. Settled(q, t)
    BY <2>4, <2>5, <2>6 DEF Settled
  <2>8. PICK r \in Gone : r = [id |-> id, pane |-> q, pty |-> t]
    <3>1. q \in PaneState /\ t \in PtyState
      BY <2>4, <2>5 DEF PaneOK, Steady, PtyOK
    <3>2. QED
      BY <1>1, <2>7, <3>1 DEF Gone
  <2>9. /\ removed' = Append(removed, r)
        /\ panes' = [i \in Live \ {id} |-> panes[i]]
        /\ pty' = [i \in Live \ {id} |-> pty[i]]
        /\ manager' = IdleManager
    BY <1>7, <2>1, <2>2, <2>8 DEF RemoveFinishes, Restrict
  <2>10. Live' = Live \ {id}
    BY <2>9 DEF Live
  <2>11. Registry'
    BY <1>1, <2>9, <2>10 DEF Registry
  <2>12. PanesMatched'
    BY <1>1, <2>9, <2>10 DEF PanesMatched
  <2>13. ManagerOK'
    BY <1>2, <2>9 DEF ManagerOK, ManagerState
  <2>14. QED
    BY <2>11, <2>12, <2>13 DEF IInv
<1>8. QED
  BY <1>3, <1>4, <1>5, <1>6, <1>7 DEF Removal

\* A poll handles a frame; a write reports itself.
LEMMA HostStep ==
    ASSUME IInv, NEW id \in Live, PollFrame(id) \/ SendRawBytes(id)
    PROVE  IInv'
<1>1. Registry /\ PanesMatched /\ ManagerOK
  BY DEF IInv
<1>2. CASE PollFrame(id)
  <2>1. TakeFrame(id) /\ removed' = removed /\ manager' = manager /\ manager.op = "idle"
    BY <1>2 DEF PollFrame, Idle, IdleManager
  <2>2. Registry' /\ PanesMatched'
    BY <1>1, <2>1, TakeStep
  <2>3. ManagerOK'
    BY <1>1, <2>1 DEF ManagerOK, ManagerState
  <2>4. QED
    BY <2>2, <2>3 DEF IInv
<1>3. CASE SendRawBytes(id)
  <2>1. PICK written \in BOOLEAN :
          panes' = [panes EXCEPT ![id] =
                      PushEvent([panes[id] EXCEPT !.inputs = @ + 1],
                                IF written THEN "InputSent" ELSE "Error", << >>)]
    BY <1>3 DEF SendRawBytes
  <2>2. PICK p, t, q : /\ p = panes[id] /\ t = pty[id]
                       /\ q = PushEvent([p EXCEPT !.inputs = @ + 1],
                                        IF written THEN "InputSent" ELSE "Error", << >>)
    OBVIOUS
  <2>3. /\ panes' = [panes EXCEPT ![id] = q] /\ pty' = [pty EXCEPT ![id] = t]
        /\ removed' = removed /\ manager' = manager /\ manager.op = "idle"
    <3>1. panes' = [panes EXCEPT ![id] = q]
      BY <2>1, <2>2
    <3>2. pty' = pty /\ removed' = removed /\ manager' = manager /\ manager.op = "idle"
      BY <1>3 DEF SendRawBytes, Idle, IdleManager
    <3>3. QED
      BY <1>1, <2>2, <3>1, <3>2 DEF Registry
  <2>4. Matched(p, t) /\ PaneOK(p)
    BY <1>1, <2>2 DEF PanesMatched, Matched
  <2>5. /\ PaneOK(q)
        /\ q.state = p.state /\ q.exit_event_observed = p.exit_event_observed
        /\ q.recorded = p.recorded
        /\ Lost(q.event_log) = Lost(p.event_log)
    BY <2>2, <2>4, InputKeeps
  <2>6. Matched(q, t)
    BY <2>4, <2>5 DEF Matched
  <2>7. Registry' /\ PanesMatched'
    BY <1>1, <2>3, <2>6, OnePane
  <2>8. ManagerOK'
    BY <1>1, <2>3 DEF ManagerOK, ManagerState
  <2>9. QED
    BY <2>7, <2>8 DEF IInv
<1>4. QED
  BY <1>2, <1>3

\* The manager begins with no pane.
LEMMA InitKeeps == Init => IInv
<1> SUFFICES ASSUME Init PROVE IInv
  OBVIOUS
<1>1. panes = << >> /\ pty = << >> /\ removed = << >> /\ manager = IdleManager
  BY DEF Init
<1>2. Live = {}
  BY <1>1 DEF Live
<1>3. panes \in [Live -> PaneState] /\ pty \in [Live -> PtyState]
  <2>1. panes = [i \in {} |-> {}] /\ pty = [i \in {} |-> {}]
    BY <1>1
  <2>2. QED
    BY <1>2, <2>1
<1>4. removed \in Seq(Gone)
  BY <1>1
<1>5. ManagerOK
  BY <1>1 DEF ManagerOK, ManagerState, IdleManager
<1>6. QED
  BY <1>2, <1>3, <1>4, <1>5 DEF IInv, Registry, PanesMatched

\* Every step keeps the invariant; the numbers of new panes are those of IdInv.
LEMMA NextKeeps == IInv /\ IdInv /\ [Next]_vars => IInv'
<1> SUFFICES ASSUME IInv, IdInv, [Next]_vars PROVE IInv'
  OBVIOUS
<1>1. CASE SpawnExplicit
  <2>1. PICK id \in Ids : SpawnAs(id)
    BY <1>1 DEF SpawnExplicit
  <2>2. id \in Nat /\ Idle
    BY <1>1, ManagerAssumption DEF Ids, SpawnExplicit
  <2>3. QED
    BY <2>1, <2>2, SpawnStep
<1>2. CASE SpawnAuto
  <2>1. PICK id \in Nat : id = next_pane_id + 1
    BY DEF IdInv
  <2>2. SpawnAs(id) /\ Idle
    BY <1>2, <2>1 DEF SpawnAuto
  <2>3. QED
    BY <2>2, SpawnStep
<1>3. ASSUME NEW id \in Live, Reader(id)
      PROVE  IInv'
  BY <1>3, ReaderStep
<1>4. ASSUME NEW id \in Live, Operation(id)
      PROVE  IInv'
  <2>1. CASE PollFrame(id) \/ SendRawBytes(id)
    BY <2>1, HostStep
  <2>2. CASE \/ \E then_remove \in BOOLEAN : BeginKill(id, then_remove)
             \/ KillFails(id) \/ KillReturns(id)
    BY <2>2, KillStep
  <2>3. CASE BeginRemove(id) \/ Removal(id)
    BY <2>3, RemoveStep
  <2>4. QED
    BY <1>4, <2>1, <2>2, <2>3 DEF Operation
<1>5. CASE UNCHANGED vars
  BY <1>5 DEF vars, IInv, Registry, PanesMatched, ManagerOK, Live
<1>6. QED
  BY <1>1, <1>2, <1>3, <1>4, <1>5 DEF Next

\* The counter stays past every id that was used.
LEMMA IdsKeep == IdInv /\ [Next]_vars => IdInv'
<1> SUFFICES ASSUME IdInv, [Next]_vars PROVE IdInv'
  OBVIOUS
<1>1. ASSUME NEW id \in Nat, SpawnAs(id) PROVE IdInv'
  <2>1. /\ next_pane_id' \in Nat /\ next_pane_id <= next_pane_id' /\ id <= next_pane_id'
    BY <1>1 DEF SpawnAs, NextPaneIdAfter, IdInv
  <2>2. used' = used \/ used' = used \cup {id}
    BY <1>1 DEF SpawnAs
  <2>3. \A n \in used : n \in Nat /\ n <= next_pane_id'
    BY <2>1 DEF IdInv
  <2>4. \A n \in used' : n \in Nat /\ n <= next_pane_id'
    BY <1>1, <2>1, <2>2, <2>3
  <2>5. QED
    BY <2>1, <2>4 DEF IdInv
<1>2. CASE SpawnExplicit
  BY <1>1, <1>2, ManagerAssumption DEF SpawnExplicit, Ids
<1>3. CASE SpawnAuto
  BY <1>1, <1>3 DEF SpawnAuto, IdInv
<1>4. CASE UNCHANGED <<next_pane_id, used>>
  BY <1>4 DEF IdInv
<1>5. ASSUME NEW id \in Live, Reader(id) \/ Operation(id)
      PROVE  UNCHANGED <<next_pane_id, used>>
  BY <1>5 DEF Reader, ReaderOutput, ReaderError, ReaderEnds, Read, Operation, PollFrame,
              BeginKill, KillFails, KillReturns, BeginRemove, Removal, RemoveDrains,
              RemoveChecks, RemoveDrained, RemoveFinishes, SendRawBytes
<1>6. QED
  BY <1>2, <1>3, <1>4, <1>5 DEF Next, vars

-----------------------------------------------------------------------------
(* The theorems. *)

\* PaneManager::spawn: an id the manager chooses was never used before, however
\* explicit and automatic spawns, refusals and removals alternate.
THEOREM AutoIdsFresh == Safe => []AutoIdFresh
<1>1. Init => IdInv
  BY DEF Init, IdInv
<1>2. IdInv => AutoIdFresh
  BY DEF IdInv, AutoIdFresh
<1>3. QED
  BY <1>1, <1>2, IdsKeep, PTL DEF Safe

\* The invariant holds.
LEMMA Invariant == Safe => []IInv
<1>1. Init => IdInv
  BY DEF Init, IdInv
<1>2. QED
  BY <1>1, InitKeeps, NextKeeps, IdsKeep, PTL DEF Safe

\* Every pane there is or was is sound; the removed ones are settled.
LEMMA PanesSound ==
    ASSUME IInv
    PROVE  /\ \A p \in EveryPane : PaneOK(p)
           /\ \A i \in DOMAIN removed : /\ Settled(removed[i].pane, removed[i].pty)
                                        /\ removed[i].pty \in PtyState
<1>1. \A id \in Live : PaneOK(panes[id])
  BY DEF IInv, PanesMatched, Matched
<1>2. \A i \in DOMAIN removed : /\ Settled(removed[i].pane, removed[i].pty)
                               /\ removed[i].pty \in PtyState
  <2>1. removed \in Seq(Gone)
    BY DEF IInv, Registry
  <2>2. \A i \in DOMAIN removed : removed[i] \in Gone
    BY <2>1
  <2>3. QED
    BY <2>2 DEF Gone
<1>3. ASSUME NEW h \in Histories PROVE PaneOK(h.pane)
  BY <1>1, <1>2, <1>3 DEF Histories, Range, Settled
<1>4. QED
  BY <1>2, <1>3 DEF EveryPane

\* TransitionState, FailPane, HandleExitFrame and kill: the StateChanged events
\* of a pane lead from Starting to the state it has, through one end at most,
\* and its exit status is that end, for every pane there is or was.
THEOREM StateExplained == Safe => []LogExplainsState
<1>1. IInv => LogExplainsState
  <2> SUFFICES ASSUME IInv, NEW p \in EveryPane
               PROVE  LET log     == p.event_log
                          changes == Positions(p, {"StateChanged"})
                      IN  /\ changes # {}
                          /\ \A i \in changes :
                               /\ (\A j \in changes : i <= j) => log[i].what[1] = "Starting"
                               /\ (\A j \in changes : j <= i) => log[i].what[2] = p.state
                               /\ \A j \in changes :
                                    /\ i < j /\ (\A k \in changes : k <= i \/ j <= k)
                                         => log[j].what[1] = log[i].what[2]
                                    /\ {log[i].what[2], log[j].what[2]} \subseteq Terminal
                                         => i = j
                          /\ p.exit = IF p.state \in Terminal THEN p.state ELSE "none"
    BY DEF LogExplainsState
  <2>1. /\ Tells(p.event_log, p.state) /\ p.state # "Starting"
        /\ p.exit = IF p.state \in Terminal THEN p.state ELSE "none"
    BY PanesSound DEF PaneOK, Steady, Labelled
  <2>2. Positions(p, {"StateChanged"}) = OfKinds(p.event_log, {"StateChanged"})
    BY DEF Positions, OfKinds
  <2> DEFINE log == p.event_log
             changes == OfKinds(p.event_log, {"StateChanged"})
  <2>3. /\ changes # {}
        /\ \A i \in changes :
             /\ (\A j \in changes : i <= j) => log[i].what[1] = "Starting"
             /\ (\A j \in changes : j <= i) => log[i].what[2] = p.state
             /\ \A j \in changes :
                  /\ i < j /\ (\A k \in changes : k <= i \/ j <= k)
                       => log[j].what[1] = log[i].what[2]
                  /\ {log[i].what[2], log[j].what[2]} \subseteq Terminal => i = j
    BY <2>1 DEF Tells
  <2>4. QED
    BY <2>1, <2>2, <2>3
<1>2. QED
  BY <1>1, Invariant, PTL

\* handle_exit_frame and remove: a pane's log has one Exited event when the
\* exit was observed and none before; a removed pane's was; no output, loss or
\* transcript event follows it, and nothing is held back then.
THEOREM ExitOnce == Safe => []ExitReportedOnce
<1>1. IInv => ExitReportedOnce
  <2> SUFFICES ASSUME IInv PROVE ExitReportedOnce
    OBVIOUS
  <2>1. ASSUME NEW p \in EveryPane
        PROVE  /\ Ended(p.event_log, p.exit_event_observed, p.pending)
               /\ p.exit_event_observed \in BOOLEAN
    BY PanesSound DEF PaneOK, Steady, PaneState
  <2>2. ASSUME NEW p \in EveryPane, NEW kinds
        PROVE  Positions(p, kinds) = OfKinds(p.event_log, kinds)
    BY DEF Positions, OfKinds
  <2>3. ASSUME NEW p \in EveryPane
        PROVE  Cardinality(Positions(p, {"Exited"})) = IF p.exit_event_observed THEN 1 ELSE 0
    <3>1. CASE ~p.exit_event_observed
      <4>1. Positions(p, {"Exited"}) = {}
        BY <2>1, <2>2, <3>1 DEF Ended
      <4>2. QED
        BY <3>1, <4>1, FS_EmptySet
    <3>2. CASE p.exit_event_observed
      <4>1. PICK e : Positions(p, {"Exited"}) = {e}
        <5>1. Ended(p.event_log, p.exit_event_observed, p.pending)
          BY <2>1
        <5>2. /\ OfKinds(p.event_log, {"Exited"}) # {}
              /\ \A e, f \in OfKinds(p.event_log, {"Exited"}) : e = f
          BY <3>2, <5>1 DEF Ended
        <5>3. Positions(p, {"Exited"}) = OfKinds(p.event_log, {"Exited"})
          BY <2>2
        <5>4. QED
          BY <5>2, <5>3
      <4>2. QED
        BY <3>2, <4>1, FS_Singleton
    <3>3. QED
      BY <3>1, <3>2
  <2>4. \A i \in DOMAIN removed : removed[i].pane.exit_event_observed
    BY PanesSound DEF Settled
  <2>5. ASSUME NEW p \in EveryPane, NEW e \in Positions(p, {"Exited"})
        PROVE  /\ \A i \in Positions(p, {"Output", "Overflow", "TranscriptRotated",
                                         "SurfaceChanged"}) : i < e
               /\ ~p.pending
    BY <2>1, <2>2, <2>5 DEF Ended, OutputKinds
  <2>6. QED
    BY <2>3, <2>4, <2>5 DEF ExitReportedOnce
<1>2. QED
  BY <1>1, Invariant, PTL

\* remove: what a removed pane recorded, what its Overflow events report lost
\* and what is left in its queue are all the bytes its reader thread produced,
\* whatever was queued when it was killed; only the queue of a pane that failed
\* is not empty.
THEOREM AllOutputAccounted == Safe => []OutputAccounted
<1>1. IInv => OutputAccounted
  <2> SUFFICES ASSUME IInv, NEW i \in DOMAIN removed
               PROVE  LET p == removed[i].pane  t == removed[i].pty
                      IN  /\ p.recorded + LostBytes(p) + Unreported(t) = t.produced
                          /\ ~p.pending
                          /\ p.state # "Failed" => t.queue.frames = << >>
    BY DEF OutputAccounted
  <2> DEFINE p == removed[i].pane
             t == removed[i].pty
  <2>1. /\ PaneOK(p) /\ ~p.pending /\ t \in PtyState
        /\ p.recorded + Lost(p.event_log) + Queued(t) = t.produced
        /\ p.state # "Failed" => t.queue.frames = << >>
    BY PanesSound DEF Settled
  <2> HIDE DEF p, t
  <2>2. LostBytes(p) = Lost(p.event_log)
    <3>1. p.event_log \in Seq(Event)
      BY <2>1 DEF PaneOK, Steady, PaneState
    <3>2. \A n \in DOMAIN p.event_log : p.event_log[n] \in Event
      BY <3>1
    <3>3. Weigh(LossOf, p.event_log) =
            [n \in DOMAIN p.event_log |->
               IF p.event_log[n].kind = "Overflow" THEN p.event_log[n].what[1] ELSE 0]
      BY <3>2 DEF Weigh, LossOf
    <3>4. QED
      BY <3>3 DEF LostBytes, Lost
  <2>3. Unreported(t) = Queued(t)
    <3>1. t.queue.frames \in Seq(Frame)
      BY <2>1 DEF PtyState, QueueState
    <3>2. \A n \in DOMAIN t.queue.frames : t.queue.frames[n] \in Frame
      BY <3>1
    <3>3. Weigh(BytesOf, t.queue.frames) =
            [n \in DOMAIN t.queue.frames |-> t.queue.frames[n].bytes]
      BY <3>2 DEF Weigh, BytesOf
    <3>4. QED
      BY <3>3 DEF Unreported, Queued
  <2>4. QED
    BY <2>1, <2>2, <2>3 DEF p, t
<1>2. QED
  BY <1>1, Invariant, PTL

-----------------------------------------------------------------------------
(* Flattened sequences. *)

\* The sequences that FlattenSeq joins one by one.
Joins(f, s) == \A n \in 1 .. Len(s) : f[n] = IF n = 1 THEN s[n] ELSE f[n - 1] \o s[n]

\* The recursion of FlattenSeq is well defined.
LEMMA FlattenJoins ==
    ASSUME NEW s, Len(s) \in Nat, Len(s) # 0
    PROVE  \E f : FlattenSeq(s) = f[Len(s)] /\ Joins(f, s)
<1> DEFINE Body(f, m) == [n \in 1 .. m |-> IF n = 1 THEN s[n] ELSE f[n - 1] \o s[n]]
           S == {m \in Nat : \E f : f = Body(f, m)}
<1>1. 0 \in S
  <2> DEFINE f == [n \in 1 .. 0 |-> 0]
  <2>1. f = Body(f, 0)
    OBVIOUS
  <2>2. QED
    BY <2>1
<1>2. ASSUME NEW m \in Nat, m \in S PROVE m + 1 \in S
  <2>1. PICK f : f = Body(f, m)
    BY <1>2
  <2> DEFINE g == Body(f, m + 1)
             h == Body(g, m + 1)
  <2>2. ASSUME NEW n \in 1 .. m PROVE f[n] = g[n]
    <3>1. f[n] = Body(f, m)[n]
      BY <2>1
    <3>2. QED
      BY <3>1
  <2>3. ASSUME NEW n \in 1 .. m + 1 PROVE g[n] = h[n]
    <3>1. CASE n = 1
      BY <3>1
    <3>2. CASE n # 1
      <4>1. n - 1 \in 1 .. m
        BY <3>2
      <4>2. f[n - 1] = g[n - 1]
        BY <2>2, <4>1
      <4>3. g[n] = f[n - 1] \o s[n] /\ h[n] = g[n - 1] \o s[n]
        BY <3>2
      <4> HIDE DEF g, h
      <4>4. QED
        BY <4>2, <4>3
    <3>3. QED
      BY <3>1, <3>2
  <2>4. g = h
    <3>1. g = [n \in 1 .. m + 1 |-> g[n]] /\ h = [n \in 1 .. m + 1 |-> h[n]]
      OBVIOUS
    <3> HIDE DEF g, h
    <3>2. QED
      BY <2>3, <3>1
  <2>5. m + 1 \in Nat /\ g = Body(g, m + 1)
    <3>1. h = Body(g, m + 1)
      OBVIOUS
    <3> HIDE DEF g, h, Body
    <3>2. QED
      BY <2>4, <3>1
  <2> HIDE DEF g
  <2>6. QED
    BY <2>5
<1>3. Len(s) \in S
  <2> HIDE DEF S
  <2>1. QED
    BY <1>1, <1>2, CountingUp
<1> DEFINE l == Len(s)
           flat == CHOOSE f : f = Body(f, l)
<1>4. flat = Body(flat, l)
  <2>1. \E f : f = Body(f, l)
    BY <1>3
  <2> HIDE DEF Body
  <2>2. QED
    BY <2>1
<1>5. FlattenSeq(s) = flat[l]
  BY DEF FlattenSeq
<1>6. Joins(flat, s)
  <2> HIDE DEF flat
  <2>1. ASSUME NEW n \in 1 .. l
        PROVE  flat[n] = IF n = 1 THEN s[n] ELSE flat[n - 1] \o s[n]
    <3>1. flat[n] = Body(flat, l)[n]
      BY <1>4
    <3>2. QED
      BY <3>1
  <2>2. QED
    BY <2>1 DEF Joins
<1>7. QED
  BY <1>5, <1>6

\* Joined sequences are sequences.
LEMMA JoinsType ==
    ASSUME NEW T, NEW s \in Seq(Seq(T)), NEW f, Joins(f, s)
    PROVE  \A n \in 1 .. Len(s) : f[n] \in Seq(T)
<1> DEFINE S == {n \in Nat : n + 1 <= Len(s) => f[n + 1] \in Seq(T)}
<1>1. 0 \in S
  <2>1. Len(s) # 0 => f[1] = s[1] /\ s[1] \in Seq(T)
    BY DEF Joins
  <2>2. QED
    BY <2>1
<1>2. ASSUME NEW n \in Nat, n \in S PROVE n + 1 \in S
  <2>1. SUFFICES ASSUME n + 2 <= Len(s) PROVE f[n + 2] \in Seq(T)
    OBVIOUS
  <2>2. n + 2 \in 1 .. Len(s) /\ f[n + 1] \in Seq(T) /\ s[n + 2] \in Seq(T)
    BY <1>2, <2>1
  <2>3. f[n + 2] = f[n + 1] \o s[n + 2]
    <3>1. PICK k \in 1 .. Len(s) : k = n + 2 /\ k # 1 /\ k - 1 = n + 1
      BY <2>2
    <3>2. f[k] = f[k - 1] \o s[k]
      BY <3>1 DEF Joins
    <3>3. QED
      BY <3>1, <3>2
  <2>4. QED
    BY <2>2, <2>3
<1>3. \A n \in Nat : n \in S
  <2> HIDE DEF S
  <2>1. QED
    BY <1>1, <1>2, CountingUp
<1>4. ASSUME NEW n \in 1 .. Len(s) PROVE f[n] \in Seq(T)
  <2>1. n - 1 \in Nat /\ (n - 1) + 1 = n /\ n <= Len(s)
    OBVIOUS
  <2>2. (n - 1) + 1 <= Len(s) => f[(n - 1) + 1] \in Seq(T)
    BY <1>3, <2>1
  <2>3. QED
    BY <2>1, <2>2
<1>5. QED
  BY <1>4

Agree(s, t, m) == \A n \in 1 .. m : s[n] = t[n]

\* Sequences that agree up to a place are joined to the same up to there.
LEMMA JoinsAgree ==
    ASSUME NEW s, NEW t, NEW f, NEW g, Joins(f, s), Joins(g, t),
           NEW k \in Nat, NEW l \in Nat, k = Len(s), l = Len(t),
           NEW m \in Nat, m <= k, m <= l, Agree(s, t, m)
    PROVE  Agree(f, g, m)
<1> DEFINE S == {n \in Nat : n + 1 <= m => f[n + 1] = g[n + 1]}
<1>0. ASSUME NEW n \in 1 .. m
      PROVE  /\ f[n] = IF n = 1 THEN s[n] ELSE f[n - 1] \o s[n]
             /\ g[n] = IF n = 1 THEN s[n] ELSE g[n - 1] \o s[n]
  <2>1. n \in 1 .. Len(s) /\ n \in 1 .. Len(t) /\ s[n] = t[n]
    BY DEF Agree
  <2>2. QED
    BY <2>1 DEF Joins
<1>1. 0 \in S
  <2>1. 0 + 1 = 1 /\ (0 + 1 <= m => 1 \in 1 .. m)
    OBVIOUS
  <2>2. QED
    BY <1>0, <2>1
<1>2. ASSUME NEW n \in Nat, n \in S PROVE n + 1 \in S
  <2>1. SUFFICES ASSUME n + 2 <= m PROVE f[n + 2] = g[n + 2]
    OBVIOUS
  <2>2. PICK i \in 1 .. m : i = n + 2 /\ i # 1 /\ i - 1 = n + 1
    BY <2>1
  <2>3. f[n + 1] = g[n + 1]
    BY <1>2, <2>1
  <2>4. f[i] = f[n + 1] \o s[i] /\ g[i] = g[n + 1] \o s[i]
    BY <1>0, <2>2
  <2>5. QED
    BY <2>2, <2>3, <2>4
<1>3. \A n \in Nat : n \in S
  <2> HIDE DEF S
  <2>1. QED
    BY <1>1, <1>2, CountingUp
<1>4. ASSUME NEW n \in 1 .. m PROVE f[n] = g[n]
  <2>1. PICK i \in Nat : i + 1 = n
    <3>1. n - 1 \in Nat /\ (n - 1) + 1 = n
      OBVIOUS
    <3>2. QED
      BY <3>1
  <2>2. i \in S
    BY <1>3
  <2>3. QED
    BY <2>1, <2>2
<1>5. QED
  BY <1>4 DEF Agree

\* A sequence appended is joined at the end.
LEMMA FlattenAppend ==
    ASSUME NEW T, NEW s \in Seq(Seq(T)), NEW x \in Seq(T)
    PROVE  FlattenSeq(Append(s, x)) = FlattenSeq(s) \o x /\ FlattenSeq(s) \in Seq(T)
<1>1. PICK t \in Seq(Seq(T)), m \in Nat :
          /\ t = Append(s, x) /\ m = Len(s) /\ Len(t) = m + 1
          /\ t[m + 1] = x /\ \A n \in 1 .. m : s[n] = t[n]
  <2> DEFINE u == Append(s, x)
  <2>1. /\ u \in Seq(Seq(T)) /\ Len(s) \in Nat /\ Len(u) = Len(s) + 1
        /\ u[Len(s) + 1] = x /\ \A n \in 1 .. Len(s) : s[n] = u[n]
    OBVIOUS
  <2>2. u = Append(s, x)
    OBVIOUS
  <2> HIDE DEF u
  <2>3. QED
    BY <2>1, <2>2
<1>2. PICK g : FlattenSeq(t) = g[m + 1] /\ Joins(g, t)
  <2>1. Len(t) \in Nat /\ Len(t) # 0
    BY <1>1
  <2>2. QED
    BY <1>1, <2>1, FlattenJoins
<1>3. CASE m = 0
  <2>1. s = << >> /\ FlattenSeq(s) = << >>
    BY <1>1, <1>3, EmptySeq DEF FlattenSeq
  <2>2. 1 \in 1 .. Len(t)
    BY <1>1
  <2>3. g[1] = x
    BY <1>1, <1>2, <1>3, <2>2 DEF Joins
  <2>4. << >> \o x = x /\ << >> \in Seq(T)
    OBVIOUS
  <2>5. m + 1 = 1
    BY <1>3
  <2>6. FlattenSeq(t) = x
    BY <1>2, <2>3, <2>5
  <2>7. QED
    BY <1>1, <2>1, <2>4, <2>6, Zenon
<1>4. CASE m # 0
  <2>1. PICK f : FlattenSeq(s) = f[m] /\ Joins(f, s)
    BY <1>1, <1>4, FlattenJoins
  <2>2. f[m] = g[m] /\ f[m] \in Seq(T)
    <3>1. PICK l \in Nat : l = m + 1 /\ m <= m /\ m <= l /\ m \in 1 .. m
      <4>1. m + 1 \in Nat /\ m <= m /\ m <= m + 1 /\ m \in 1 .. m
        BY <1>4
      <4>2. QED
        BY <4>1
    <3>2. \A n \in 1 .. m : f[n] = g[n]
      <4>1. /\ m = Len(s) /\ l = Len(t) /\ Joins(f, s) /\ Joins(g, t)
            /\ Agree(s, t, m)
        BY <1>1, <1>2, <2>1, <3>1 DEF Agree
      <4>2. Agree(f, g, m)
        BY <3>1, <4>1, JoinsAgree
      <4>3. QED
        BY <4>2 DEF Agree
    <3>3. \A n \in 1 .. m : f[n] \in Seq(T)
      BY <1>1, <2>1, JoinsType
    <3>4. QED
      BY <3>1, <3>2, <3>3
  <2>3. g[m + 1] = g[m] \o x
    <3>1. PICK n \in 1 .. Len(t) : n = m + 1 /\ n # 1 /\ n - 1 = m
      BY <1>1, <1>4
    <3>2. g[n] = g[n - 1] \o t[n]
      BY <1>2, <3>1 DEF Joins
    <3>3. QED
      BY <1>1, <3>1, <3>2
  <2>4. QED
    BY <1>1, <1>2, <2>1, <2>2, <2>3
<1>5. QED
  BY <1>3, <1>4

\* If all but one are empty, that one is what they are together.
LEMMA FlattenOne ==
    ASSUME NEW T, NEW m \in Nat, NEW s \in [1 .. m -> Seq(T)], NEW k \in 1 .. m,
           \A n \in 1 .. m : n # k => s[n] = << >>
    PROVE  FlattenSeq(s) = s[k]
<1>1. Len(s) = m /\ m # 0 /\ s[k] \in Seq(T)
  OBVIOUS
<1>2. PICK f : FlattenSeq(s) = f[m] /\ Joins(f, s)
  BY <1>1, FlattenJoins
<1>3. ASSUME NEW x \in Seq(T) PROVE << >> \o x = x /\ x \o << >> = x
  OBVIOUS
<1> DEFINE S == {n \in Nat : n + 1 <= m => f[n + 1] = IF n + 1 < k THEN << >> ELSE s[k]}
<1>4. 0 \in S
  <2>1. 0 + 1 = 1 /\ 1 \in 1 .. Len(s)
    BY <1>1
  <2>2. f[1] = s[1]
    BY <1>2, <2>1 DEF Joins
  <2>3. s[1] = IF 1 < k THEN << >> ELSE s[k]
    BY <1>1
  <2>4. QED
    BY <2>1, <2>2, <2>3
<1>5. ASSUME NEW n \in Nat, n \in S PROVE n + 1 \in S
  <2>1. SUFFICES ASSUME n + 2 <= m PROVE f[n + 2] = IF n + 2 < k THEN << >> ELSE s[k]
    OBVIOUS
  <2>2. PICK i \in 1 .. m : i = n + 2 /\ i # 1 /\ i - 1 = n + 1
    BY <2>1
  <2>3. f[n + 1] = IF n + 1 < k THEN << >> ELSE s[k]
    BY <1>5, <2>1
  <2>4. f[i] = f[n + 1] \o s[i]
    BY <1>1, <1>2, <2>2 DEF Joins
  <2>5. CASE i < k
    <3>1. f[n + 1] = << >> /\ s[i] = << >> /\ << >> \in Seq(T)
      BY <2>2, <2>3, <2>5
    <3>2. QED
      BY <1>3, <2>2, <2>4, <2>5, <3>1
  <2>6. CASE i = k
    <3>1. f[n + 1] = << >>
      BY <2>2, <2>3, <2>6
    <3>2. QED
      BY <1>1, <1>3, <2>2, <2>4, <2>6, <3>1
  <2>7. CASE i > k
    <3>1. f[n + 1] = s[k] /\ s[i] = << >>
      BY <2>2, <2>3, <2>7
    <3>2. QED
      BY <1>1, <1>3, <2>2, <2>4, <2>7, <3>1
  <2>8. QED
    BY <2>5, <2>6, <2>7
<1>6. \A n \in Nat : n \in S
  <2> HIDE DEF S
  <2>1. QED
    BY <1>4, <1>5, CountingUp
<1>7. PICK i \in Nat : i + 1 = m
  <2>1. m - 1 \in Nat /\ (m - 1) + 1 = m
    BY <1>1
  <2>2. QED
    BY <2>1
<1>8. f[m] = s[k]
  <2>1. i \in S
    BY <1>6
  <2>2. ~(m < k) /\ i + 1 <= m
    BY <1>7
  <2>3. QED
    BY <1>7, <2>1, <2>2
<1>9. QED
  BY <1>2, <1>8

\* If all are empty, so are they together.
LEMMA FlattenNone ==
    ASSUME NEW T, NEW m \in Nat, NEW s \in [1 .. m -> Seq(T)],
           \A n \in 1 .. m : s[n] = << >>
    PROVE  FlattenSeq(s) = << >>
<1>1. CASE m = 0
  <2>1. s \in Seq(Seq(T)) /\ Len(s) = 0
    BY <1>1
  <2>2. s = << >>
    BY <2>1, EmptySeq
  <2>3. QED
    BY <2>1, <2>2 DEF FlattenSeq
<1>2. CASE m # 0
  <2>1. PICK k \in 1 .. m : k = 1
    BY <1>2
  <2>2. FlattenSeq(s) = s[k]
    BY FlattenOne
  <2>3. QED
    BY <2>2
<1>3. QED
  BY <1>1, <1>2

-----------------------------------------------------------------------------
(* The events of a pane in the stream of all. *)

TaggedEvent == [pane : Nat, event : Event]

\* What an event of the stream is to a pane.
Own(id, e) == IF e.pane = id THEN <<e.event>> ELSE << >>

LEMMA OwnType ==
    ASSUME NEW id, NEW e \in TaggedEvent
    PROVE  Own(id, e) \in Seq(Event)
<1>1. e.event \in Event
  BY DEF TaggedEvent
<1>2. <<e.event>> \in Seq(Event) /\ << >> \in Seq(Event)
  BY <1>1
<1>3. QED
  BY <1>2 DEF Own

\* One event more.
LEMMA EventsAppend ==
    ASSUME NEW id, NEW all \in Seq(TaggedEvent), NEW e \in TaggedEvent
    PROVE  /\ EventsOf(id, Append(all, e)) = EventsOf(id, all) \o Own(id, e)
           /\ EventsOf(id, all) \in Seq(Event)
<1> DEFINE Owns(t) == [n \in 1 .. Len(t) |-> Own(id, t[n])]
<1>1. ASSUME NEW t \in Seq(TaggedEvent)
      PROVE  /\ Owns(t) \in Seq(Seq(Event)) /\ Len(Owns(t)) = Len(t)
             /\ \A n \in 1 .. Len(t) : Owns(t)[n] = Own(id, t[n])
             /\ EventsOf(id, t) = FlattenSeq(Owns(t))
  <2>1. \A n \in 1 .. Len(t) : Own(id, t[n]) \in Seq(Event)
    BY OwnType
  <2>2. Len(t) \in Nat /\ DOMAIN t = 1 .. Len(t)
    OBVIOUS
  <2>3. Owns(t) \in Seq(Seq(Event)) /\ Len(Owns(t)) = Len(t)
    BY <2>1, <2>2
  <2>4. EventsOf(id, t) = FlattenSeq(Owns(t))
    BY <2>2, Zenon DEF EventsOf, Own
  <2>5. QED
    BY <2>3, <2>4
<1> HIDE DEF Owns
<1>2. PICK m \in Nat, t \in Seq(TaggedEvent) :
          /\ t = Append(all, e) /\ m = Len(all) /\ Len(t) = m + 1
          /\ t[m + 1] = e /\ \A n \in 1 .. m : t[n] = all[n]
  <2> DEFINE u == Append(all, e)
  <2>1. /\ u \in Seq(TaggedEvent) /\ Len(all) \in Nat /\ Len(u) = Len(all) + 1
        /\ u[Len(all) + 1] = e /\ \A n \in 1 .. Len(all) : u[n] = all[n]
    OBVIOUS
  <2>2. u = Append(all, e)
    OBVIOUS
  <2> HIDE DEF u
  <2>3. QED
    BY <2>1, <2>2
<1>3. PICK x \in Seq(Event), a \in Seq(Seq(Event)), b \in Seq(Seq(Event)) :
          /\ x = Own(id, e) /\ a = Owns(all) /\ b = Owns(t)
          /\ Len(a) = m /\ Len(b) = m + 1
          /\ b[m + 1] = x /\ \A n \in 1 .. m : a[n] = b[n]
  <2>1. Own(id, e) \in Seq(Event)
    BY OwnType
  <2>2. /\ Owns(all) \in Seq(Seq(Event)) /\ Len(Owns(all)) = m
        /\ Owns(t) \in Seq(Seq(Event)) /\ Len(Owns(t)) = m + 1
    BY <1>1, <1>2
  <2>3. Owns(t)[m + 1] = Own(id, e)
    <3>1. m + 1 \in 1 .. Len(t)
      BY <1>2
    <3>2. Owns(t)[m + 1] = Own(id, t[m + 1])
      BY <1>1, <3>1
    <3>3. QED
      BY <1>2, <3>2
  <2>4. ASSUME NEW n \in 1 .. m PROVE Owns(all)[n] = Owns(t)[n]
    <3>1. n \in 1 .. Len(t) /\ n \in 1 .. Len(all)
      BY <1>2
    <3>2. Owns(t)[n] = Own(id, t[n]) /\ Owns(all)[n] = Own(id, all[n])
      BY <1>1, <3>1
    <3>3. QED
      BY <1>2, <3>2
  <2>5. QED
    BY <2>1, <2>2, <2>3, <2>4
<1>4. b = Append(a, x)
  <2>1. /\ Append(a, x) \in Seq(Seq(Event)) /\ Len(Append(a, x)) = m + 1
        /\ Append(a, x)[m + 1] = x /\ \A n \in 1 .. m : Append(a, x)[n] = a[n]
    BY <1>3, AppendProperties
  <2>2. \A n \in 1 .. m + 1 : Append(a, x)[n] = b[n]
    BY <1>3, <2>1
  <2>3. QED
    BY <1>3, <2>1, <2>2, SeqEqual
<1>5. FlattenSeq(b) = FlattenSeq(a) \o x /\ FlattenSeq(a) \in Seq(Event)
  BY <1>4, FlattenAppend
<1>6. EventsOf(id, t) = FlattenSeq(b) /\ EventsOf(id, all) = FlattenSeq(a)
  BY <1>1, <1>3
<1>7. QED
  BY <1>2, <1>3, <1>5, <1>6

\* Do the events a pane pushed come to this pane, in their order, behind those
\* it had?
Delivers(id, other, all, pushed) ==
    EventsOf(id, all \o Tagged(other, pushed)) =
        EventsOf(id, all) \o IF other = id THEN pushed ELSE << >>

LEMMA TaggedAppend ==
    ASSUME NEW other \in Nat, NEW s \in Seq(Event), NEW e \in Event
    PROVE  /\ Tagged(other, s) \in Seq(TaggedEvent)
           /\ [pane |-> other, event |-> e] \in TaggedEvent
           /\ Tagged(other, Append(s, e)) =
                Append(Tagged(other, s), [pane |-> other, event |-> e])
<1>1. ASSUME NEW t \in Seq(Event)
      PROVE  /\ Tagged(other, t) \in Seq(TaggedEvent) /\ Len(Tagged(other, t)) = Len(t)
             /\ \A n \in 1 .. Len(t) : Tagged(other, t)[n] = [pane |-> other, event |-> t[n]]
  <2>1. \A n \in 1 .. Len(t) : [pane |-> other, event |-> t[n]] \in TaggedEvent
    BY DEF TaggedEvent
  <2>2. Len(t) \in Nat /\ DOMAIN t = 1 .. Len(t)
    OBVIOUS
  <2>3. Tagged(other, t) = [n \in 1 .. Len(t) |-> [pane |-> other, event |-> t[n]]]
    BY <2>2, Zenon DEF Tagged
  <2>4. QED
    BY <2>1, <2>2, <2>3
<1>2. PICK m \in Nat, t \in Seq(Event) :
          /\ t = Append(s, e) /\ m = Len(s) /\ Len(t) = m + 1
          /\ t[m + 1] = e /\ \A n \in 1 .. m : t[n] = s[n]
  <2> DEFINE u == Append(s, e)
  <2>1. /\ u \in Seq(Event) /\ Len(s) \in Nat /\ Len(u) = Len(s) + 1
        /\ u[Len(s) + 1] = e /\ \A n \in 1 .. Len(s) : u[n] = s[n]
    OBVIOUS
  <2>2. u = Append(s, e)
    OBVIOUS
  <2> HIDE DEF u
  <2>3. QED
    BY <2>1, <2>2
<1>3. PICK x \in TaggedEvent : x = [pane |-> other, event |-> e]
  BY DEF TaggedEvent
<1>4. PICK a \in Seq(TaggedEvent), b \in Seq(TaggedEvent) :
          /\ a = Tagged(other, s) /\ b = Tagged(other, t)
          /\ Len(a) = m /\ Len(b) = m + 1
          /\ b[m + 1] = x /\ \A n \in 1 .. m : a[n] = b[n]
  <2>1. /\ Tagged(other, s) \in Seq(TaggedEvent) /\ Len(Tagged(other, s)) = m
        /\ Tagged(other, t) \in Seq(TaggedEvent) /\ Len(Tagged(other, t)) = m + 1
    BY <1>1, <1>2
  <2>2. Tagged(other, t)[m + 1] = x
    <3>1. m + 1 \in 1 .. Len(t)
      BY <1>2
    <3>2. Tagged(other, t)[m + 1] = [pane |-> other, event |-> t[m + 1]]
      BY <1>1, <3>1
    <3>3. QED
      BY <1>2, <1>3, <3>2
  <2>3. ASSUME NEW n \in 1 .. m PROVE Tagged(other, s)[n] = Tagged(other, t)[n]
    <3>1. n \in 1 .. Len(t) /\ n \in 1 .. Len(s)
      BY <1>2
    <3>2. /\ Tagged(other, t)[n] = [pane |-> other, event |-> t[n]]
          /\ Tagged(other, s)[n] = [pane |-> other, event |-> s[n]]
      BY <1>1, <3>1
    <3>3. QED
      BY <1>2, <3>2
  <2>4. QED
    BY <2>1, <2>2, <2>3
<1>5. b = Append(a, x)
  <2>1. /\ Append(a, x) \in Seq(TaggedEvent) /\ Len(Append(a, x)) = m + 1
        /\ Append(a, x)[m + 1] = x /\ \A n \in 1 .. m : Append(a, x)[n] = a[n]
    BY <1>4, AppendProperties
  <2>2. \A n \in 1 .. m + 1 : Append(a, x)[n] = b[n]
    BY <1>4, <2>1
  <2>3. QED
    BY <1>4, <2>1, <2>2, SeqEqual
<1>6. QED
  BY <1>2, <1>3, <1>4, <1>5

\* Appended to a part or to the whole.
LEMMA AppendRegroups ==
    ASSUME NEW T, NEW a \in Seq(T), NEW b \in Seq(T), NEW x \in T
    PROVE  a \o b \in Seq(T) /\ a \o Append(b, x) = Append(a \o b, x)
<1>1. a \o b \in Seq(T)
  BY ConcatProperties
<1>2. PICK one \in Seq(T) : one = <<x>>
  <2>1. <<x>> \in Seq(T)
    OBVIOUS
  <2>2. QED
    BY <2>1, Zenon
<1>3. (a \o b) \o one = a \o (b \o one)
  BY ConcatAssociative
<1>4. Append(b, x) = b \o one /\ Append(a \o b, x) = (a \o b) \o one
  BY <1>1, <1>2, AppendIsConcat
<1>5. QED
  BY <1>1, <1>3, <1>4

\* One event more is delivered behind the others.
LEMMA DeliversOneMore ==
    ASSUME NEW id, NEW other \in Nat, NEW all \in Seq(TaggedEvent),
           NEW s \in Seq(Event), NEW e \in Event, Delivers(id, other, all, s)
    PROVE  Delivers(id, other, all, Append(s, e))
<1>1. PICK tags \in Seq(TaggedEvent), x \in TaggedEvent :
          /\ tags = Tagged(other, s) /\ x = [pane |-> other, event |-> e]
          /\ Tagged(other, Append(s, e)) = Append(tags, x)
  BY TaggedAppend
<1>2. PICK had \in Seq(Event), sent \in Seq(Event), longer \in Seq(Event) :
          /\ had = EventsOf(id, all) /\ longer = Append(s, e)
          /\ sent = IF other = id THEN s ELSE << >>
  <2>1. EventsOf(id, all) \in Seq(Event)
    <3>1. PICK y \in TaggedEvent : y = x
      OBVIOUS
    <3>2. QED
      BY <3>1, EventsAppend
  <2>2. Append(s, e) \in Seq(Event) /\ << >> \in Seq(Event)
    OBVIOUS
  <2>3. QED
    BY <2>1, <2>2
<1>3. PICK joined \in Seq(TaggedEvent) :
          joined = all \o tags /\ all \o Append(tags, x) = Append(joined, x)
  <2>1. all \o tags \in Seq(TaggedEvent) /\ all \o Append(tags, x) = Append(all \o tags, x)
    BY AppendRegroups
  <2>2. QED
    BY <2>1
<1>4. EventsOf(id, joined) = had \o sent
  BY <1>1, <1>2, <1>3 DEF Delivers
<1>5. EventsOf(id, Append(joined, x)) = EventsOf(id, joined) \o Own(id, x)
  BY EventsAppend
<1>6. Own(id, x) = IF other = id THEN <<e>> ELSE << >>
  BY <1>1 DEF Own
<1>7. (had \o sent) \o Own(id, x) = had \o IF other = id THEN longer ELSE << >>
  <2>1. CASE other = id
    <3>1. sent = s /\ longer = Append(sent, e)
      BY <1>2, <2>1
    <3>2. had \o sent \in Seq(Event) /\ had \o longer = Append(had \o sent, e)
      BY <3>1, AppendRegroups
    <3>3. Append(had \o sent, e) = (had \o sent) \o <<e>>
      BY <3>2, AppendIsConcat
    <3>4. QED
      BY <1>6, <2>1, <3>2, <3>3
  <2>2. CASE other # id
    <3>1. sent = << >> /\ had \o << >> = had
      BY <1>2, <2>2, ConcatEmptySeq
    <3>2. QED
      BY <1>6, <2>2, <3>1
  <2>3. QED
    BY <2>1, <2>2
<1>8. EventsOf(id, all \o Tagged(other, longer)) =
        EventsOf(id, all) \o IF other = id THEN longer ELSE << >>
  BY <1>1, <1>2, <1>3, <1>4, <1>5, <1>7
<1>9. QED
  BY <1>2, <1>8 DEF Delivers

\* Events pushed are delivered.
LEMMA EventsPushed ==
    ASSUME NEW id, NEW other \in Nat, NEW all \in Seq(TaggedEvent)
    PROVE  \A pushed \in Seq(Event) : Delivers(id, other, all, pushed)
<1> DEFINE S == {n \in Nat : \A pushed \in Seq(Event) :
                    Len(pushed) = n => Delivers(id, other, all, pushed)}
<1>1. 0 \in S
  <2>1. SUFFICES ASSUME NEW pushed \in Seq(Event), Len(pushed) = 0
                 PROVE  Delivers(id, other, all, pushed)
    OBVIOUS
  <2>2. pushed = << >>
    BY <2>1, EmptySeq
  <2>3. Tagged(other, << >>) = << >>
    BY DEF Tagged
  <2>4. all \o << >> = all
    BY ConcatEmptySeq
  <2>5. EventsOf(id, all) \o << >> = EventsOf(id, all)
    <3>1. PICK kind \in EventKinds : kind = "Error"
      BY DEF EventKinds
    <3>2. PICK what \in Payloads : what = << >>
      BY DEF Payloads
    <3>3. [kind |-> kind, seq |-> 0, what |-> what] \in Event
      BY <3>1 DEF Event
    <3>4. \E e \in TaggedEvent : TRUE
      BY <3>3, TaggedAppend, EmptySeq
    <3>5. EventsOf(id, all) \in Seq(Event)
      BY <3>4, EventsAppend
    <3>6. QED
      BY <3>5, ConcatEmptySeq
  <2>6. QED
    BY <2>2, <2>3, <2>4, <2>5 DEF Delivers
<1>2. ASSUME NEW n \in Nat, n \in S PROVE n + 1 \in S
  <2>1. SUFFICES ASSUME NEW pushed \in Seq(Event), Len(pushed) = n + 1
                 PROVE  Delivers(id, other, all, pushed)
    OBVIOUS
  <2>2. pushed # << >>
    BY <2>1, EmptySeq
  <2>3. PICK s \in Seq(Event), e \in Event : pushed = Append(s, e)
    BY <2>2, SequenceEmptyOrAppend
  <2>4. Len(pushed) = Len(s) + 1 /\ Len(s) \in Nat
    BY <2>3, AppendProperties, LenProperties
  <2>5. Delivers(id, other, all, s)
    BY <1>2, <2>1, <2>4
  <2>6. QED
    BY <2>3, <2>5, DeliversOneMore
<1>3. \A n \in Nat : n \in S
  <2> HIDE DEF S
  <2>1. QED
    BY <1>1, <1>2, CountingUp
<1>4. ASSUME NEW pushed \in Seq(Event) PROVE Delivers(id, other, all, pushed)
  <2>1. Len(pushed) \in Nat
    BY LenProperties
  <2>2. QED
    BY <1>3, <2>1
<1>5. QED
  BY <1>4

-----------------------------------------------------------------------------
(* What a pane does adds to its log. *)

\* The elements after the first ones.
LEMMA LastOnes ==
    ASSUME NEW T, NEW c \in Seq(T), NEW m \in Nat, NEW n \in Nat, Len(c) = m + n
    PROVE  /\ SubSeq(c, m + 1, m + n) \in Seq(T) /\ Len(SubSeq(c, m + 1, m + n)) = n
           /\ \A i \in 1 .. n : SubSeq(c, m + 1, m + n)[i] = c[m + i]
<1>1. PICK k \in Int, l \in Int : k = m + 1 /\ l = m + n
  OBVIOUS
<1>2. \A i \in k .. l : c[i] \in T
  BY <1>1
<1>3. /\ SubSeq(c, k, l) \in Seq(T)
      /\ Len(SubSeq(c, k, l)) = IF k <= l THEN l - k + 1 ELSE 0
      /\ \A i \in 1 .. l - k + 1 : SubSeq(c, k, l)[i] = c[k + i - 1]
  BY <1>2, SubSeqProperties
<1>4. Len(SubSeq(c, k, l)) = n
  BY <1>1, <1>3
<1>5. ASSUME NEW i \in 1 .. n PROVE SubSeq(c, k, l)[i] = c[m + i]
  <2>1. i \in 1 .. l - k + 1 /\ k + i - 1 = m + i
    BY <1>1
  <2>2. SubSeq(c, k, l)[i] = c[k + i - 1]
    BY <1>3, <2>1
  <2>3. QED
    BY <2>1, <2>2
<1>6. QED
  BY <1>1, <1>3, <1>4, <1>5

\* What a sequence was extended by is its rest.
LEMMA RestOf ==
    ASSUME NEW T, NEW a \in Seq(T), NEW b \in Seq(T), NEW c, c = a \o b
    PROVE  c \in Seq(T) /\ SubSeq(c, Len(a) + 1, Len(c)) = b
<1>1. PICK m \in Nat, n \in Nat :
          /\ m = Len(a) /\ n = Len(b) /\ c \in Seq(T) /\ Len(c) = m + n
          /\ \A i \in 1 .. m + n : c[i] = IF i <= m THEN a[i] ELSE b[i - m]
  <2>1. /\ a \o b \in Seq(T) /\ Len(a \o b) = Len(a) + Len(b)
        /\ \A i \in 1 .. Len(a) + Len(b) :
             (a \o b)[i] = IF i <= Len(a) THEN a[i] ELSE b[i - Len(a)]
    BY ConcatProperties
  <2>2. Len(a) \in Nat /\ Len(b) \in Nat
    BY LenProperties
  <2>3. QED
    BY <2>1, <2>2
<1> DEFINE rest == SubSeq(c, m + 1, m + n)
<1>2. /\ rest \in Seq(T) /\ Len(rest) = n
      /\ \A i \in 1 .. n : rest[i] = c[m + i]
  BY <1>1, LastOnes
<1> HIDE DEF rest
<1>3. ASSUME NEW i \in 1 .. n PROVE rest[i] = b[i]
  <2>1. m + i \in 1 .. m + n /\ ~(m + i <= m) /\ (m + i) - m = i
    OBVIOUS
  <2>2. c[m + i] = b[i]
    BY <1>1, <2>1
  <2>3. QED
    BY <1>2, <2>2
<1>4. rest = b
  BY <1>1, <1>2, <1>3, SeqEqual
<1>5. QED
  BY <1>1, <1>4 DEF rest

\* The last event's number is the length of the log.
Numbered(p) == p.next_seq = Len(p.event_log)

\* A pane, some events later.
Grows(p, q) ==
    /\ p \in PaneState /\ q \in PaneState
    /\ Numbered(p) => Numbered(q)
    /\ \E more \in Seq(Event) : q.event_log = p.event_log \o more

LEMMA GrowsNot ==
    ASSUME NEW p \in PaneState, NEW q \in PaneState,
           q.event_log = p.event_log, q.next_seq = p.next_seq
    PROVE  Grows(p, q)
<1>1. PICK log \in Seq(Event) : log = p.event_log
  BY DEF PaneState
<1>2. log \o << >> = log /\ << >> \in Seq(Event)
  BY ConcatEmptySeq, EmptySeq
<1>3. QED
  BY <1>1, <1>2 DEF Grows, Numbered

LEMMA GrowsOn ==
    ASSUME NEW p, NEW q, NEW r, Grows(p, q), Grows(q, r)
    PROVE  Grows(p, r)
<1>1. PICK more \in Seq(Event) : q.event_log = p.event_log \o more
  BY DEF Grows
<1>2. PICK further \in Seq(Event) : r.event_log = q.event_log \o further
  BY DEF Grows
<1>3. PICK log \in Seq(Event) : log = p.event_log
  BY DEF Grows, PaneState
<1>4. more \o further \in Seq(Event)
  BY ConcatProperties
<1>5. (log \o more) \o further = log \o (more \o further)
  BY ConcatAssociative
<1>6. r.event_log = p.event_log \o (more \o further)
  BY <1>1, <1>2, <1>3, <1>5
<1>7. QED
  BY <1>4, <1>6 DEF Grows

\* push_event: one event more, and the next number.
LEMMA GrowsPush ==
    ASSUME NEW p \in PaneState, NEW kind \in EventKinds, NEW what \in Payloads,
           kind = "Overflow" => what[1] \in Nat,
           NEW q, q = PushEvent(p, kind, what)
    PROVE  Grows(p, q)
<1>1. PICK e \in Event : q.event_log = Append(p.event_log, e)
  BY PushKeeps
<1>2. q \in PaneState
  BY PushKeeps
<1>3. q.next_seq = p.next_seq + 1
  <2>1. p.next_seq \in Nat
    BY DEF PaneState
  <2>2. QED
    BY <2>1 DEF PushEvent, PaneState
<1>4. PICK log \in Seq(Event) : log = p.event_log
  BY DEF PaneState
<1>5. Append(log, e) = log \o <<e>> /\ Len(Append(log, e)) = Len(log) + 1
  BY AppendIsConcat, AppendProperties
<1>6. <<e>> \in Seq(Event)
  OBVIOUS
<1>7. Numbered(p) => Numbered(q)
  BY <1>1, <1>3, <1>4, <1>5 DEF Numbered
<1>8. q.event_log = p.event_log \o <<e>>
  BY <1>1, <1>4, <1>5
<1>9. QED
  BY <1>2, <1>6, <1>7, <1>8 DEF Grows

LEMMA TransitionGrows ==
    ASSUME NEW p \in PaneState, NEW new \in States
    PROVE  Grows(p, TransitionState(p, new))
<1> DEFINE q == TransitionState(p, new)
           moved == [p EXCEPT !.state = new]
           change == <<p.state, new>>
<1>1. CASE p.state = new
  BY <1>1, GrowsNot DEF TransitionState
<1>2. CASE p.state # new
  <2>1. q = PushEvent(moved, "StateChanged", change)
    BY <1>2 DEF TransitionState
  <2>2. /\ moved \in PaneState /\ moved.event_log = p.event_log
        /\ moved.next_seq = p.next_seq
    BY DEF PaneState
  <2>3. change \in Payloads
    BY DEF PaneState, Payloads
  <2>4. PICK kind \in EventKinds : kind = "StateChanged"
    BY DEF EventKinds
  <2> HIDE DEF q, moved, change
  <2>5. Grows(moved, q)
    <3>1. q = PushEvent(moved, kind, change) /\ (kind = "Overflow" => change[1] \in Nat)
      BY <2>1, <2>4
    <3>2. QED
      BY <2>2, <2>3, <3>1, GrowsPush
  <2>6. Grows(p, moved)
    BY <2>2, GrowsNot
  <2>7. Grows(p, q)
    BY <2>5, <2>6, GrowsOn
  <2>8. QED
    BY <2>7 DEF q
<1>3. QED
  BY <1>1, <1>2

\* An event without a payload.
LEMMA GrowsPlain ==
    ASSUME NEW p \in PaneState, NEW kind \in EventKinds \ {"Overflow"}
    PROVE  Grows(p, PushEvent(p, kind, << >>))
<1>1. PICK what \in Payloads : what = << >>
  BY DEF Payloads
<1>2. PICK q : q = PushEvent(p, kind, what)
  OBVIOUS
<1>3. Grows(p, q)
  BY <1>2, GrowsPush
<1>4. QED
  BY <1>1, <1>2, <1>3

LEMMA FlushGrows ==
    ASSUME NEW p \in PaneState, NEW rotated
    PROVE  Grows(p, FlushPending(p, rotated))
<1> DEFINE q == FlushPending(p, rotated)
           flushed == [p EXCEPT !.pending = FALSE]
<1>1. q = IF p.pending /\ rotated
          THEN PushEvent(flushed, "TranscriptRotated", << >>) ELSE flushed
  BY DEF FlushPending
<1>2. /\ flushed \in PaneState /\ flushed.event_log = p.event_log
      /\ flushed.next_seq = p.next_seq
  BY DEF PaneState
<1> HIDE DEF q, flushed
<1>3. Grows(p, flushed)
  BY <1>2, GrowsNot
<1>4. Grows(flushed, PushEvent(flushed, "TranscriptRotated", << >>))
  <2>1. "TranscriptRotated" \in EventKinds \ {"Overflow"}
    BY DEF EventKinds
  <2>2. QED
    BY <1>2, <2>1, GrowsPlain
<1>5. Grows(p, q)
  BY <1>1, <1>3, <1>4, GrowsOn
<1>6. QED
  BY <1>5 DEF q

\* How a pane ends.
LEMMA EndGrows ==
    ASSUME NEW p \in PaneState, NEW new \in Terminal
    PROVE  Grows(p, TransitionState(SetExitIfNotKilledOrFailed(p, new), new))
<1> DEFINE r == SetExitIfNotKilledOrFailed(p, new)
<1>1. r \in PaneState /\ r.event_log = p.event_log /\ r.next_seq = p.next_seq
  BY DEF SetExitIfNotKilledOrFailed, PaneState
<1> HIDE DEF r
<1>2. Grows(p, r)
  BY <1>1, GrowsNot
<1>3. Grows(r, TransitionState(r, new))
  <2>1. new \in States
    BY DEF States
  <2>2. QED
    BY <1>1, <2>1, TransitionGrows
<1>4. Grows(p, TransitionState(r, new))
  BY <1>2, <1>3, GrowsOn
<1>5. QED
  BY <1>4 DEF r

LEMMA FailGrows ==
    ASSUME NEW p \in PaneState, NEW rotated
    PROVE  Grows(p, FailPane(p, rotated))
<1> DEFINE flushed == FlushPending(p, rotated)
           failed == PushEvent(flushed, "Error", << >>)
           ended == TransitionState(SetExitIfNotKilledOrFailed(failed, "Failed"), "Failed")
<1>1. FailPane(p, rotated) =
        IF p.state \in {"Starting", "Running"} THEN ended ELSE failed
  BY DEF FailPane
<1>2. Grows(p, flushed)
  BY FlushGrows
<1> HIDE DEF flushed
<1>3. Grows(flushed, failed)
  <2>1. "Error" \in EventKinds \ {"Overflow"} /\ flushed \in PaneState
    BY <1>2 DEF EventKinds, Grows
  <2>2. QED
    BY <2>1, GrowsPlain
<1> HIDE DEF failed
<1>4. Grows(failed, ended)
  <2>1. "Failed" \in Terminal /\ failed \in PaneState
    BY <1>3 DEF Terminal, Grows
  <2>2. QED
    BY <2>1, EndGrows
<1> HIDE DEF ended
<1>5. Grows(p, failed)
  BY <1>2, <1>3, GrowsOn
<1>6. Grows(p, ended)
  BY <1>4, <1>5, GrowsOn
<1>7. QED
  BY <1>1, <1>5, <1>6

LEMMA ExitGrows ==
    ASSUME NEW p \in PaneState, NEW rotated
    PROVE  Grows(p, HandleExitFrame(p, rotated))
<1> DEFINE seen == [p EXCEPT !.exit_event_observed = TRUE]
           flushed == FlushPending(seen, rotated)
           exited == PushEvent(flushed, "Exited", << >>)
           ended == TransitionState(SetExitIfNotKilledOrFailed(exited, "Exited"), "Exited")
<1>1. HandleExitFrame(p, rotated) =
        IF p.state \in {"Starting", "Running"} THEN ended ELSE exited
  BY DEF HandleExitFrame
<1>2. seen \in PaneState /\ seen.event_log = p.event_log /\ seen.next_seq = p.next_seq
  BY DEF PaneState
<1> HIDE DEF seen
<1>3. Grows(p, seen)
  BY <1>2, GrowsNot
<1>4. Grows(seen, flushed)
  BY <1>2, FlushGrows
<1> HIDE DEF flushed
<1>5. Grows(flushed, exited)
  <2>1. "Exited" \in EventKinds \ {"Overflow"} /\ flushed \in PaneState
    BY <1>4 DEF EventKinds, Grows
  <2>2. QED
    BY <2>1, GrowsPlain
<1> HIDE DEF exited
<1>6. Grows(exited, ended)
  <2>1. "Exited" \in Terminal /\ exited \in PaneState
    BY <1>5 DEF Terminal, Grows
  <2>2. QED
    BY <2>1, EndGrows
<1> HIDE DEF ended
<1>7. Grows(p, flushed)
  BY <1>3, <1>4, GrowsOn
<1>8. Grows(p, exited)
  BY <1>5, <1>7, GrowsOn
<1>9. Grows(p, ended)
  BY <1>6, <1>8, GrowsOn
<1>10. QED
  BY <1>1, <1>8, <1>9

LEMMA RecordGrows ==
    ASSUME NEW p \in PaneState, NEW bytes \in Nat, NEW o \in OutputOutcome
    PROVE  Grows(p, RecordOutputFrame(p, bytes, o))
<1> DEFINE n == p.recorded + bytes
           kept == [p EXCEPT !.recorded = n, !.pending = o.held]
           rotated == IF o.rotated THEN PushEvent(kept, "TranscriptRotated", << >>) ELSE kept
           output == PushEvent(rotated, "Output", << >>)
           changed == PushEvent(output, "SurfaceChanged", << >>)
<1>1. RecordOutputFrame(p, bytes, o) = IF o.fed /\ o.changed THEN changed ELSE output
  BY DEF RecordOutputFrame
<1>2. n \in Nat /\ o.held \in BOOLEAN
  BY DEF PaneState, OutputOutcome
<1> HIDE DEF n
<1>3. kept \in PaneState /\ kept.event_log = p.event_log /\ kept.next_seq = p.next_seq
  BY <1>2 DEF PaneState
<1> HIDE DEF kept
<1>4. Grows(p, kept)
  BY <1>3, GrowsNot
<1>5. {"TranscriptRotated", "Output", "SurfaceChanged"} \subseteq EventKinds \ {"Overflow"}
  BY DEF EventKinds
<1>6. Grows(p, rotated)
  <2>1. Grows(kept, PushEvent(kept, "TranscriptRotated", << >>))
    BY <1>3, <1>5, GrowsPlain
  <2>2. Grows(p, PushEvent(kept, "TranscriptRotated", << >>))
    BY <1>4, <2>1, GrowsOn
  <2>3. QED
    BY <1>4, <2>2
<1> HIDE DEF rotated
<1>7. Grows(p, output)
  <2>1. Grows(rotated, output)
    BY <1>5, <1>6, GrowsPlain DEF Grows
  <2> HIDE DEF output
  <2>2. QED
    BY <1>6, <2>1, GrowsOn
<1> HIDE DEF output
<1>8. Grows(p, changed)
  <2>1. Grows(output, changed)
    BY <1>5, <1>7, GrowsPlain DEF Grows
  <2> HIDE DEF changed
  <2>2. QED
    BY <1>7, <2>1, GrowsOn
<1> HIDE DEF changed
<1>9. QED
  BY <1>1, <1>7, <1>8

\* Whatever frame is handled.
LEMMA FrameGrows ==
    ASSUME NEW p \in PaneState, NEW f \in Frame, NEW o \in OutputOutcome, NEW rotated
    PROVE  Grows(p, HandlePtyFrame(p, f, o, rotated))
<1> DEFINE q == HandlePtyFrame(p, f, o, rotated)
<1>1. f.kind \in {"Output", "Overflow", "Error", "Exited"} /\ f.bytes \in Nat
  BY DEF Frame, FrameKinds
<1>2. CASE f.kind = "Output"
  <2> DEFINE r == RecordOutputFrame(p, f.bytes, o)
  <2>1. q = IF o.fed THEN r ELSE FailPane(r, rotated)
    BY <1>2 DEF HandlePtyFrame, HandleOutputFrame
  <2>2. Grows(p, r)
    BY <1>1, RecordGrows
  <2> HIDE DEF q, r
  <2>3. Grows(r, FailPane(r, rotated))
    <3>1. r \in PaneState
      BY <2>2 DEF Grows
    <3>2. QED
      BY <3>1, FailGrows
  <2>4. Grows(p, FailPane(r, rotated))
    BY <2>2, <2>3, GrowsOn
  <2>5. Grows(p, q)
    BY <2>1, <2>2, <2>4
  <2>6. QED
    BY <2>5 DEF q
<1>3. CASE f.kind = "Overflow"
  <2>1. q = PushEvent(p, "Overflow", <<f.bytes>>)
    BY <1>3 DEF HandlePtyFrame
  <2>2. PICK what \in Payloads : what = <<f.bytes>> /\ what[1] \in Nat
    <3>1. PICK n \in Nat : n = f.bytes
      BY <1>1
    <3>2. <<n>> \in Payloads
      BY DEF Payloads
    <3>3. <<n>>[1] = n
      OBVIOUS
    <3>4. QED
      BY <3>1, <3>2, <3>3
  <2>3. PICK kind \in EventKinds : kind = "Overflow"
    BY DEF EventKinds
  <2> HIDE DEF q
  <2>4. q = PushEvent(p, kind, what) /\ (kind = "Overflow" => what[1] \in Nat)
    BY <2>1, <2>2, <2>3
  <2>5. Grows(p, q)
    BY <2>4, GrowsPush
  <2>6. QED
    BY <2>5 DEF q
<1>4. CASE f.kind = "Error"
  <2>1. q = FailPane(p, rotated)
    BY <1>4 DEF HandlePtyFrame
  <2> HIDE DEF q
  <2>2. Grows(p, q)
    BY <2>1, FailGrows
  <2>3. QED
    BY <2>2 DEF q
<1>5. CASE f.kind = "Exited"
  <2>1. q = HandleExitFrame(p, rotated)
    BY <1>5 DEF HandlePtyFrame
  <2> HIDE DEF q
  <2>2. Grows(p, q)
    BY <2>1, ExitGrows
  <2>3. QED
    BY <2>2 DEF q
<1>6. QED
  BY <1>1, <1>2, <1>3, <1>4, <1>5

LEMMA RemovalGrows ==
    ASSUME NEW p \in PaneState, NEW rotated
    PROVE  Grows(p, FlushedForRemoval(p, rotated))
<1> DEFINE flushed == FlushPending(p, rotated)
           seen == [flushed EXCEPT !.exit_event_observed = TRUE]
           exited == PushEvent(seen, "Exited", << >>)
<1>1. FlushedForRemoval(p, rotated) =
        IF p.state \in {"Killed", "Failed"} /\ ~p.exit_event_observed
        THEN exited ELSE flushed
  BY DEF FlushedForRemoval
<1>2. Grows(p, flushed)
  BY FlushGrows
<1> HIDE DEF flushed
<1>3. /\ seen \in PaneState /\ seen.event_log = flushed.event_log
      /\ seen.next_seq = flushed.next_seq /\ flushed \in PaneState
  BY <1>2 DEF Grows, PaneState
<1> HIDE DEF seen
<1>4. Grows(flushed, seen)
  BY <1>3, GrowsNot
<1>5. Grows(seen, exited)
  <2>1. "Exited" \in EventKinds \ {"Overflow"}
    BY DEF EventKinds
  <2>2. QED
    BY <1>3, <2>1, GrowsPlain
<1> HIDE DEF exited
<1>6. Grows(p, seen)
  BY <1>2, <1>4, GrowsOn
<1>7. Grows(p, exited)
  BY <1>5, <1>6, GrowsOn
<1>8. QED
  BY <1>1, <1>2, <1>7

LEMMA SpawnGrows ==
    /\ Grows(NewPane, TransitionState(PushEvent(NewPane, "Spawned", << >>), "Running"))
    /\ NewPane.event_log = << >> /\ Numbered(NewPane)
<1> DEFINE spawned == PushEvent(NewPane, "Spawned", << >>)
           running == TransitionState(spawned, "Running")
<1>1. << >> \in Seq(Event) /\ Len(<< >>) = 0
  BY EmptySeq
<1>2. /\ NewPane \in PaneState /\ NewPane.event_log = << >> /\ NewPane.next_seq = 0
  BY <1>1 DEF NewPane, PaneState, States
<1>3. Grows(NewPane, spawned)
  <2>1. "Spawned" \in EventKinds \ {"Overflow"}
    BY DEF EventKinds
  <2>2. QED
    BY <1>2, <2>1, GrowsPlain
<1> HIDE DEF spawned
<1>4. Grows(spawned, running)
  <2>1. "Running" \in States /\ spawned \in PaneState
    BY <1>3 DEF States, Grows
  <2>2. QED
    BY <2>1, TransitionGrows
<1> HIDE DEF running
<1>5. Grows(NewPane, running)
  BY <1>3, <1>4, GrowsOn
<1>6. QED
  BY <1>1, <1>2, <1>5 DEF running, spawned, Numbered

LEMMA WriteGrows ==
    ASSUME NEW p \in PaneState, NEW written \in BOOLEAN
    PROVE  Grows(p, PushEvent([p EXCEPT !.inputs = @ + 1],
                              IF written THEN "InputSent" ELSE "Error", << >>))
<1> DEFINE r == [p EXCEPT !.inputs = @ + 1]
           kind == IF written THEN "InputSent" ELSE "Error"
<1>1. r \in PaneState /\ r.event_log = p.event_log /\ r.next_seq = p.next_seq
  <2>1. p.inputs + 1 \in Nat
    BY DEF PaneState
  <2>2. QED
    BY <2>1 DEF PaneState
<1>2. kind \in EventKinds \ {"Overflow"}
  BY DEF EventKinds
<1> HIDE DEF r, kind
<1>3. Grows(p, r)
  BY <1>1, GrowsNot
<1>4. Grows(r, PushEvent(r, kind, << >>))
  BY <1>1, <1>2, GrowsPlain
<1>5. Grows(p, PushEvent(r, kind, << >>))
  BY <1>3, <1>4, GrowsOn
<1>6. QED
  BY <1>5 DEF r, kind

-----------------------------------------------------------------------------
(* What a step does to the logs of all panes. *)

Before(id) == IF id \in Live THEN panes[id].event_log ELSE << >>

Untouched(id) ==
    /\ id \in Live' <=> id \in Live
    /\ id \in Live => panes'[id] = panes[id]

\* One pane pushed these events, and may have been removed.
Grew(id, more) ==
    /\ more \in Seq(Event)
    /\ Live' \subseteq Live \cup {id}
    /\ \A other \in Ids \ {id} : Untouched(other)
    /\ \/ /\ removed' = removed
          /\ id \in Live' /\ Numbered(panes'[id])
          /\ panes'[id].event_log = Before(id) \o more
       \/ /\ id \in Live /\ id \notin Live'
          /\ \E r \in Gone : /\ removed' = Append(removed, r) /\ r.id = id
                             /\ r.pane.event_log = Before(id) \o more

AllNumbered == \A id \in Live : Numbered(panes[id])

\* A pane exchanged for one with more events.
LEMMA PaneGrew ==
    ASSUME Registry, AllNumbered, NEW id \in Live, NEW p, p = panes[id],
           NEW q, Grows(p, q),
           panes' = [panes EXCEPT ![id] = q], removed' = removed
    PROVE  Live' = Live /\ \E more : Grew(id, more)
<1>1. panes \in [Live -> PaneState]
  BY DEF Registry
<1>2. /\ Live' = Live /\ panes'[id] = q
      /\ \A other \in Live : other # id => panes'[other] = panes[other]
  BY <1>1 DEF Live
<1>3. PICK more \in Seq(Event) : q.event_log = p.event_log \o more
  BY DEF Grows
<1>4. Numbered(q)
  BY DEF Grows, AllNumbered
<1>5. panes'[id].event_log = Before(id) \o more
  BY <1>2, <1>3 DEF Before
<1>6. \A other \in Ids \ {id} : Untouched(other)
  BY <1>2 DEF Untouched
<1>7. /\ Numbered(panes'[id]) /\ id \in Live' /\ removed' = removed
      /\ Live' \subseteq Live \cup {id}
  BY <1>2, <1>4
<1>8. Grew(id, more)
  BY <1>5, <1>6, <1>7, Zenon DEF Grew
<1>9. QED
  BY <1>2, <1>8

LEMMA PaneType ==
    ASSUME Registry, NEW id \in Live
    PROVE  panes[id] \in PaneState
BY DEF Registry

\* A frame taken.
LEMMA TakeGrew ==
    ASSUME IInv, AllNumbered, NEW id \in Live, TakeFrame(id), removed' = removed
    PROVE  Live' = Live /\ \E more : Grew(id, more)
<1> DEFINE f == Head(pty[id].queue.frames)
<1>1. Registry /\ PanesMatched
  BY DEF IInv
<1>2. PICK o \in Outcomes, rotated \in {FALSE, MayRotate} :
        /\ pty[id].queue.frames # << >>
        /\ panes' = [panes EXCEPT ![id] = HandlePtyFrame(@, f, o, rotated)]
  BY DEF TakeFrame
<1>3. f \in Frame
  <2>1. PICK frames \in Seq(Frame) : frames = pty[id].queue.frames
    BY <1>1, PtyNumbers DEF PanesMatched, Matched
  <2>2. Head(frames) \in Frame
    BY <1>2, <2>1, HeadTailProperties
  <2>3. QED
    BY <2>1, <2>2
<1> HIDE DEF f
<1>4. PICK p \in PaneState : p = panes[id]
  BY <1>1, PaneType
<1>5. PICK q : q = HandlePtyFrame(p, f, o, rotated)
  OBVIOUS
<1>6. panes' = [panes EXCEPT ![id] = q]
  BY <1>1, <1>2, <1>4, <1>5 DEF Registry
<1>7. o \in OutputOutcome
  BY OutcomesAssumption
<1>8. Grows(p, q)
  BY <1>3, <1>5, <1>7, FrameGrows
<1>9. QED
  BY <1>1, <1>4, <1>6, <1>8, PaneGrew

\* A pane spawned.
LEMMA SpawnGrew ==
    ASSUME Registry, NEW id \in Ids, SpawnAs(id)
    PROVE  UNCHANGED <<panes, removed>> \/ \E more : Grew(id, more)
<1>1. CASE UNCHANGED <<panes, pty, used>>
  BY <1>1 DEF SpawnAs
<1> DEFINE q == TransitionState(PushEvent(NewPane, "Spawned", << >>), "Running")
<1>2. CASE /\ id \notin Live
           /\ panes' = [i \in Live \cup {id} |-> IF i = id THEN q ELSE panes[i]]
  <2>1. Grows(NewPane, q) /\ NewPane.event_log = << >> /\ Numbered(NewPane)
    BY SpawnGrows
  <2> HIDE DEF q
  <2>2. PICK more \in Seq(Event) : q.event_log = NewPane.event_log \o more
    BY <2>1 DEF Grows
  <2>3. Numbered(q)
    BY <2>1 DEF Grows
  <2>4. /\ Live' = Live \cup {id} /\ panes'[id] = q
        /\ \A other \in Live : other # id => panes'[other] = panes[other]
    BY <1>2 DEF Live
  <2>5. panes'[id].event_log = Before(id) \o more
    BY <1>2, <2>1, <2>2, <2>4 DEF Before
  <2>6. \A other \in Ids \ {id} : Untouched(other)
    BY <2>4 DEF Untouched
  <2>7. removed' = removed /\ Live' \subseteq Live \cup {id}
    BY <2>4 DEF SpawnAs
  <2>8. Grew(id, more)
    BY <2>3, <2>4, <2>5, <2>6, <2>7 DEF Grew
  <2>9. QED
    BY <2>8
<1>3. QED
  BY <1>1, <1>2 DEF SpawnAs

\* A pane removed.
LEMMA RemoveGrew ==
    ASSUME IInv, IInv', NEW id \in Live, RemoveFinishes(id)
    PROVE  \E more : Grew(id, more)
<1>1. Registry
  BY DEF IInv
<1>2. PICK rotated \in {FALSE, MayRotate} :
        removed' = Append(removed, [id   |-> id,
                                    pane |-> FlushedForRemoval(panes[id], rotated),
                                    pty  |-> pty[id]])
  BY DEF RemoveFinishes
<1>3. PICK p \in PaneState : p = panes[id]
  BY <1>1, PaneType
<1>4. PICK q : q = FlushedForRemoval(p, rotated)
  OBVIOUS
<1>5. Grows(p, q)
  BY <1>4, RemovalGrows
<1>6. PICK more \in Seq(Event) : q.event_log = p.event_log \o more
  BY <1>5 DEF Grows
<1>7. PICK r : r = [id |-> id, pane |-> q, pty |-> pty[id]]
  OBVIOUS
<1>8. removed' = Append(removed, r) /\ r.id = id /\ r.pane = q
  BY <1>2, <1>3, <1>4, <1>7
<1>9. r \in Gone
  <2>1. removed \in Seq(Gone) /\ removed' \in Seq(Gone)
    BY DEF IInv, Registry
  <2>2. /\ Len(removed) + 1 \in 1 .. Len(removed') /\ removed'[Len(removed) + 1] = r
    BY <1>8, <2>1
  <2>3. QED
    BY <2>1, <2>2, ElementOfSeq
<1>10. /\ id \notin Live'
       /\ \A other \in Live : other # id =>
            other \in Live' /\ panes'[other] = panes[other]
       /\ \A other \in Live' : other \in Live
  <2>1. panes' = [i \in Live \ {id} |-> panes[i]]
    BY DEF RemoveFinishes, Restrict
  <2>2. Live' = Live \ {id}
    BY <2>1 DEF Live
  <2>3. QED
    BY <2>1, <2>2
<1>11. \A other \in Ids \ {id} : Untouched(other)
  BY <1>10 DEF Untouched
<1>12. r.pane.event_log = Before(id) \o more /\ Live' \subseteq Live \cup {id}
  BY <1>3, <1>6, <1>8, <1>10 DEF Before
<1>13. Grew(id, more)
  BY <1>8, <1>9, <1>10, <1>11, <1>12 DEF Grew
<1>14. QED
  BY <1>13

\* Every step changes no log, or one.
LEMMA StepGrew ==
    ASSUME IInv, IdInv, AllNumbered, Live \subseteq Ids, Next
    PROVE  UNCHANGED <<panes, removed>> \/ \E id \in Ids : \E more : Grew(id, more)
<1>1. Registry /\ IInv'
  BY NextKeeps DEF IInv
<1>2. ASSUME NEW id \in Ids, SpawnAs(id)
      PROVE  UNCHANGED <<panes, removed>> \/ \E more : Grew(id, more)
  BY <1>1, <1>2, SpawnGrew
<1>3. CASE SpawnExplicit
  BY <1>2, <1>3 DEF SpawnExplicit
<1>4. CASE SpawnAuto
  <2>1. PICK id \in Ids : SpawnAs(id)
    BY <1>4, ManagerAssumption DEF SpawnAuto, IdInv, Ids
  <2>2. QED
    BY <1>2, <2>1
<1>5. ASSUME NEW id \in Live, Reader(id)
      PROVE  UNCHANGED <<panes, removed>>
  BY <1>5 DEF Reader, ReaderOutput, ReaderError, ReaderEnds, Read
<1>6. ASSUME NEW id \in Live, PollFrame(id) \/ RemoveDrains(id)
      PROVE  \E more : Grew(id, more)
  <2>1. TakeFrame(id) /\ removed' = removed
    BY <1>6 DEF PollFrame, RemoveDrains
  <2>2. QED
    BY <2>1, TakeGrew
<1>7. ASSUME NEW id \in Live,
             \/ \E then_remove \in BOOLEAN : BeginKill(id, then_remove)
             \/ KillFails(id) \/ BeginRemove(id) \/ RemoveChecks(id) \/ RemoveDrained(id)
      PROVE  UNCHANGED <<panes, removed>>
  BY <1>7 DEF BeginKill, KillFails, BeginRemove, RemoveChecks, RemoveDrained
<1>8. ASSUME NEW id \in Live, KillReturns(id)
      PROVE  \E more : Grew(id, more)
  <2>1. PICK p \in PaneState : p = panes[id]
    BY <1>1, PaneType
  <2>2. PICK new \in Terminal : new = "Killed"
    BY DEF Terminal
  <2>3. PICK q : q = TransitionState(SetExitIfNotKilledOrFailed(p, new), new)
    OBVIOUS
  <2>4. panes' = [panes EXCEPT ![id] = q] /\ removed' = removed
    BY <1>1, <1>8, <2>1, <2>2, <2>3 DEF KillReturns, Registry
  <2>5. Grows(p, q)
    BY <2>3, EndGrows
  <2>6. QED
    BY <1>1, <2>1, <2>4, <2>5, PaneGrew
<1>9. ASSUME NEW id \in Live, SendRawBytes(id)
      PROVE  \E more : Grew(id, more)
  <2>1. PICK p \in PaneState : p = panes[id]
    BY <1>1, PaneType
  <2>2. PICK written \in BOOLEAN :
          panes' = [panes EXCEPT ![id] =
                      PushEvent([panes[id] EXCEPT !.inputs = @ + 1],
                                IF written THEN "InputSent" ELSE "Error", << >>)]
    BY <1>9 DEF SendRawBytes
  <2>3. PICK q : q = PushEvent([p EXCEPT !.inputs = @ + 1],
                               IF written THEN "InputSent" ELSE "Error", << >>)
    OBVIOUS
  <2>4. panes' = [panes EXCEPT ![id] = q]
    BY <2>1, <2>2, <2>3
  <2>5. removed' = removed
    BY <1>9 DEF SendRawBytes
  <2>6. Grows(p, q)
    BY <2>3, WriteGrows
  <2>7. QED
    BY <1>1, <2>1, <2>4, <2>5, <2>6, PaneGrew
<1>10. ASSUME NEW id \in Live, RemoveFinishes(id)
       PROVE  \E more : Grew(id, more)
  BY <1>1, <1>10, RemoveGrew
<1>11. ASSUME NEW id \in Live, Operation(id)
       PROVE  UNCHANGED <<panes, removed>> \/ \E more : Grew(id, more)
  BY <1>6, <1>7, <1>8, <1>9, <1>10, <1>11, Zenon DEF Operation, Removal
<1>12. QED
  BY <1>3, <1>4, <1>5, <1>11 DEF Next

-----------------------------------------------------------------------------
(* What a step pushes. *)

\* The logs of the panes there were under an id.
Lives(id, s) == [n \in DOMAIN s |-> IF s[n].id = id THEN s[n].pane.event_log ELSE << >>]

\* One removed pane's events, as those of an id.
LifeOf(id, r) == IF r.id = id THEN r.pane.event_log ELSE << >>

LEMMA LivesType ==
    ASSUME NEW id, NEW s \in Seq(Gone)
    PROVE  /\ Lives(id, s) \in Seq(Seq(Event)) /\ Len(Lives(id, s)) = Len(s)
           /\ \A n \in 1 .. Len(s) : Lives(id, s)[n] = LifeOf(id, s[n])
           /\ FlattenSeq(Lives(id, s)) \in Seq(Event)
<1>1. ASSUME NEW n \in 1 .. Len(s) PROVE LifeOf(id, s[n]) \in Seq(Event)
  <2>1. s[n] \in Gone
    BY ElementOfSeq
  <2>2. s[n].pane.event_log \in Seq(Event)
    BY <2>1 DEF Gone, PaneState
  <2>3. << >> \in Seq(Event)
    BY EmptySeq
  <2>4. QED
    BY <2>2, <2>3 DEF LifeOf
<1>2. Len(s) \in Nat /\ DOMAIN s = 1 .. Len(s)
  OBVIOUS
<1>3. Lives(id, s) = [n \in 1 .. Len(s) |-> LifeOf(id, s[n])]
  BY <1>2, Zenon DEF Lives, LifeOf
<1>4. /\ Lives(id, s) \in Seq(Seq(Event)) /\ Len(Lives(id, s)) = Len(s)
      /\ \A n \in 1 .. Len(s) : Lives(id, s)[n] = LifeOf(id, s[n])
  BY <1>1, <1>2, <1>3
<1>5. FlattenSeq(Lives(id, s)) \in Seq(Event)
  <2>1. << >> \in Seq(Event)
    BY EmptySeq
  <2>2. QED
    BY <1>4, <2>1, FlattenAppend
<1>6. QED
  BY <1>4, <1>5

LEMMA LivesAppend ==
    ASSUME NEW id, NEW s \in Seq(Gone), NEW r \in Gone
    PROVE  FlattenSeq(Lives(id, Append(s, r))) = FlattenSeq(Lives(id, s)) \o LifeOf(id, r)
<1>1. PICK m \in Nat, t \in Seq(Gone) :
          /\ t = Append(s, r) /\ m = Len(s) /\ Len(t) = m + 1
          /\ t[m + 1] = r /\ \A n \in 1 .. m : t[n] = s[n]
  <2>1. /\ Append(s, r) \in Seq(Gone) /\ Len(s) \in Nat
        /\ Len(Append(s, r)) = Len(s) + 1 /\ Append(s, r)[Len(s) + 1] = r
        /\ \A n \in 1 .. Len(s) : Append(s, r)[n] = s[n]
    BY AppendProperties, LenProperties
  <2>2. QED
    BY <2>1
<1>2. /\ Lives(id, s) \in Seq(Seq(Event)) /\ Len(Lives(id, s)) = m
      /\ \A n \in 1 .. m : Lives(id, s)[n] = LifeOf(id, s[n])
  BY <1>1, LivesType
<1>3. /\ Lives(id, t) \in Seq(Seq(Event)) /\ Len(Lives(id, t)) = m + 1
      /\ \A n \in 1 .. m + 1 : Lives(id, t)[n] = LifeOf(id, t[n])
  BY <1>1, LivesType
<1> PICK x : x = LifeOf(id, r)
  OBVIOUS
<1>4. PICK a \in Seq(Seq(Event)), b \in Seq(Seq(Event)) :
          /\ a = Lives(id, s) /\ b = Lives(id, t)
          /\ Len(a) = m /\ Len(b) = m + 1
          /\ b[m + 1] = x /\ \A n \in 1 .. m : a[n] = b[n]
  <2>1. Lives(id, t)[m + 1] = LifeOf(id, r)
    <3>1. m + 1 \in 1 .. m + 1
      OBVIOUS
    <3>2. QED
      BY <1>1, <1>3, <3>1
  <2>2. ASSUME NEW n \in 1 .. m PROVE Lives(id, s)[n] = Lives(id, t)[n]
    <3>1. n \in 1 .. m + 1
      OBVIOUS
    <3>2. QED
      BY <1>1, <1>2, <1>3, <3>1
  <2>3. QED
    BY <1>2, <1>3, <2>1, <2>2
<1>5. x \in Seq(Event)
  <2>1. m + 1 \in 1 .. Len(b)
    BY <1>4
  <2>2. b[m + 1] \in Seq(Event)
    BY <2>1, ElementOfSeq
  <2>3. QED
    BY <1>4, <2>2
<1>6. b = Append(a, x)
  <2>1. /\ Append(a, x) \in Seq(Seq(Event)) /\ Len(Append(a, x)) = m + 1
        /\ Append(a, x)[m + 1] = x /\ \A n \in 1 .. m : Append(a, x)[n] = a[n]
    BY <1>4, <1>5, AppendProperties
  <2>2. \A n \in 1 .. m + 1 : Append(a, x)[n] = b[n]
    BY <1>4, <2>1
  <2>3. QED
    BY <1>4, <2>1, <2>2, SeqEqual
<1>7. FlattenSeq(b) = FlattenSeq(a) \o x
  BY <1>5, <1>6, FlattenAppend
<1>8. QED
  BY <1>1, <1>4, <1>7

LEMMA LivedType ==
    ASSUME Registry, NEW id
    PROVE  /\ Before(id) \in Seq(Event) /\ PastLives(id) \in Seq(Event)
           /\ PastLives(id) = FlattenSeq(Lives(id, removed))
           /\ LivedThrough(id) = PastLives(id) \o Before(id)
           /\ LivedThrough(id) \in Seq(Event)
<1>1. Before(id) \in Seq(Event)
  <2>1. << >> \in Seq(Event)
    BY EmptySeq
  <2>2. id \in Live => panes[id].event_log \in Seq(Event)
    BY PaneType DEF PaneState
  <2>3. QED
    BY <2>1, <2>2 DEF Before
<1>2. PastLives(id) = FlattenSeq(Lives(id, removed))
  BY Zenon DEF PastLives, Lives
<1>3. PastLives(id) \in Seq(Event)
  BY <1>2, LivesType DEF Registry
<1>4. LivedThrough(id) = PastLives(id) \o Before(id)
  BY DEF LivedThrough, Before
<1>5. PastLives(id) \o Before(id) \in Seq(Event)
  BY <1>1, <1>3, ConcatProperties
<1>6. QED
  BY <1>1, <1>2, <1>3, <1>4, <1>5

\* The log a step leaves a pane, or leaves of it.
After(id) ==
    IF id \in Live' THEN panes'[id].event_log
    ELSE IF id \in Live THEN Last(removed').pane.event_log ELSE << >>

LEMMA PushedIsRest ==
    ASSUME NEW id
    PROVE  PushedFor(id) = SubSeq(After(id), Len(Before(id)) + 1, Len(After(id)))
<1>1. Len(Before(id)) = IF id \in Live THEN Len(panes[id].event_log) ELSE 0
  BY EmptySeq DEF Before
<1>2. QED
  BY <1>1 DEF PushedFor, After, Live

\* Nothing, if nothing happened to the pane.
LEMMA QuietPushes ==
    ASSUME Registry, NEW id, Untouched(id)
    PROVE  PushedFor(id) = << >> /\ Before(id)' = Before(id)
<1>1. PICK log \in Seq(Event) : log = Before(id)
  BY LivedType
<1>2. After(id) = log /\ Before(id)' = log
  BY <1>1 DEF After, Before, Untouched
<1>3. << >> \in Seq(Event) /\ log = log \o << >>
  BY EmptySeq, ConcatEmptySeq
<1>4. SubSeq(log, Len(log) + 1, Len(log)) = << >>
  BY <1>3, RestOf
<1>5. QED
  BY <1>1, <1>2, <1>4, PushedIsRest

\* What one pane pushed is what its log grew by, and what its id lived through.
LEMMA GrewPushes ==
    ASSUME Registry, NEW id, NEW more, Grew(id, more)
    PROVE  PushedFor(id) = more /\ LivedThrough(id)' = LivedThrough(id) \o more
<1>1. PICK past \in Seq(Event), log \in Seq(Event) :
          past = PastLives(id) /\ log = Before(id) /\ LivedThrough(id) = past \o log
  BY LivedType
<1>2. more \in Seq(Event)
  BY DEF Grew
<1>3. (past \o log) \o more = past \o (log \o more)
  BY <1>2, ConcatAssociative
<1>4. SubSeq(log \o more, Len(log) + 1, Len(log \o more)) = more /\ log \o more \in Seq(Event)
  BY <1>2, RestOf
<1>5. CASE /\ removed' = removed /\ id \in Live'
           /\ panes'[id].event_log = Before(id) \o more
  <2>1. After(id) = log \o more /\ Before(id)' = log \o more
    BY <1>1, <1>5 DEF After, Before
  <2>2. PastLives(id)' = past
    BY <1>1, <1>5 DEF PastLives
  <2>3. LivedThrough(id)' = past \o (log \o more)
    BY <2>1, <2>2 DEF LivedThrough, Before
  <2>4. PushedFor(id) = more
    BY <1>1, <1>4, <2>1, PushedIsRest
  <2>5. QED
    BY <1>1, <1>3, <2>3, <2>4
<1>6. CASE /\ id \in Live /\ id \notin Live'
           /\ \E r \in Gone : /\ removed' = Append(removed, r) /\ r.id = id
                              /\ r.pane.event_log = Before(id) \o more
  <2>1. PICK r \in Gone : /\ removed' = Append(removed, r) /\ r.id = id
                          /\ r.pane.event_log = log \o more
    BY <1>1, <1>6
  <2>2. Last(removed') = r
    <3>1. removed \in Seq(Gone)
      BY DEF Registry
    <3>2. Len(removed') = Len(removed) + 1 /\ removed'[Len(removed) + 1] = r
      BY <2>1, <3>1, AppendProperties
    <3>3. QED
      BY <3>2 DEF Last
  <2>3. After(id) = log \o more /\ Before(id)' = << >>
    BY <1>6, <2>1, <2>2 DEF After, Before
  <2>4. PushedFor(id) = more
    BY <1>1, <1>4, <2>3, PushedIsRest
  <2>5. PastLives(id)' = past \o (log \o more)
    <3>1. past = FlattenSeq(Lives(id, removed)) /\ removed \in Seq(Gone)
      BY <1>1, LivedType DEF Registry
    <3>2. LifeOf(id, r) = log \o more
      BY <2>1 DEF LifeOf
    <3>3. FlattenSeq(Lives(id, Append(removed, r))) = past \o (log \o more)
      BY <3>1, <3>2, LivesAppend
    <3>4. PastLives(id)' = FlattenSeq(Lives(id, removed'))
      BY DEF PastLives, Lives
    <3>5. QED
      BY <2>1, <3>3, <3>4
  <2>6. LivedThrough(id)' = (past \o (log \o more)) \o << >>
    BY <2>3, <2>5 DEF LivedThrough, Before
  <2>7. past \o (log \o more) \in Seq(Event)
    BY <1>4, ConcatProperties
  <2>8. LivedThrough(id)' = past \o (log \o more)
    BY <2>6, <2>7, ConcatEmptySeq
  <2>9. QED
    BY <1>1, <1>3, <2>4, <2>8
<1>7. QED
  BY <1>5, <1>6 DEF Grew

\* Do the events pushed by this step continue every pane's story?
Continues ==
    \A id \in Ids : /\ PushedFor(id) \in Seq(Event)
                   /\ LivedThrough(id)' = LivedThrough(id) \o PushedFor(id)

\* Does at most one pane push any?
OnePushes(id) ==
    /\ PushedFor(id) \in Seq(Event)
    /\ \A other \in Ids \ {id} : PushedFor(other) = << >>

LEMMA NonePush ==
    ASSUME Registry, UNCHANGED <<panes, removed>>
    PROVE  Continues /\ \A id \in Ids : PushedFor(id) = << >>
<1>1. ASSUME NEW id \in Ids
      PROVE  /\ PushedFor(id) = << >> /\ PushedFor(id) \in Seq(Event)
             /\ LivedThrough(id)' = LivedThrough(id) \o PushedFor(id)
  <2>1. Untouched(id)
    BY DEF Untouched, Live
  <2>2. PushedFor(id) = << >> /\ Before(id)' = Before(id)
    BY <2>1, QuietPushes
  <2>3. LivedThrough(id)' = LivedThrough(id)
    BY DEF LivedThrough, PastLives, Live
  <2>4. LivedThrough(id) \o << >> = LivedThrough(id)
    BY LivedType, ConcatEmptySeq
  <2>5. << >> \in Seq(Event)
    BY EmptySeq
  <2>6. QED
    BY <2>2, <2>3, <2>4, <2>5
<1>2. QED
  BY <1>1 DEF Continues

LEMMA OnlyPushes ==
    ASSUME Registry, NEW id \in Ids, NEW more, Grew(id, more)
    PROVE  Continues /\ OnePushes(id)
<1>1. PushedFor(id) = more /\ LivedThrough(id)' = LivedThrough(id) \o more
  BY GrewPushes
<1>2. more \in Seq(Event) /\ \A other \in Ids \ {id} : Untouched(other)
  BY DEF Grew
<1>3. removed' = removed \/ \E r \in Gone : removed' = Append(removed, r) /\ r.id = id
  BY DEF Grew
<1>4. ASSUME NEW other \in Ids \ {id}
      PROVE  /\ PushedFor(other) = << >> /\ PushedFor(other) \in Seq(Event)
             /\ LivedThrough(other)' = LivedThrough(other) \o PushedFor(other)
  <2>1. PushedFor(other) = << >> /\ Before(other)' = Before(other)
    BY <1>2, QuietPushes
  <2>2. PastLives(other)' = PastLives(other)
    <3>1. CASE removed' = removed
      BY <3>1 DEF PastLives
    <3>2. CASE \E r \in Gone : removed' = Append(removed, r) /\ r.id = id
      <4>1. PICK r \in Gone : removed' = Append(removed, r) /\ r.id = id
        BY <3>2
      <4>2. LifeOf(other, r) = << >>
        BY <4>1 DEF LifeOf
      <4>3. PICK past \in Seq(Event) :
              past = PastLives(other) /\ past = FlattenSeq(Lives(other, removed))
        BY LivedType
      <4>4. FlattenSeq(Lives(other, Append(removed, r))) = past \o << >>
        BY <4>2, <4>3, LivesAppend DEF Registry
      <4>5. PastLives(other)' = FlattenSeq(Lives(other, removed'))
        BY DEF PastLives, Lives
      <4>6. past \o << >> = past
        BY ConcatEmptySeq
      <4>7. QED
        BY <4>1, <4>3, <4>4, <4>5, <4>6
    <3>3. QED
      BY <1>3, <3>1, <3>2
  <2>3. LivedThrough(other)' = LivedThrough(other)
    BY <2>1, <2>2 DEF LivedThrough, Before
  <2>4. LivedThrough(other) \o << >> = LivedThrough(other)
    BY LivedType, ConcatEmptySeq
  <2>5. << >> \in Seq(Event)
    BY EmptySeq
  <2>6. QED
    BY <2>1, <2>3, <2>4, <2>5
<1>5. Continues
  <2>1. ASSUME NEW any \in Ids
        PROVE  /\ PushedFor(any) \in Seq(Event)
               /\ LivedThrough(any)' = LivedThrough(any) \o PushedFor(any)
    <3>1. CASE any = id
      BY <1>1, <1>2, <3>1
    <3>2. CASE any # id
      BY <1>4, <3>2
    <3>3. QED
      BY <3>1, <3>2
  <2>2. QED
    BY <2>1 DEF Continues
<1>6. OnePushes(id)
  BY <1>1, <1>2, <1>4 DEF OnePushes
<1>7. QED
  BY <1>5, <1>6

\* What all panes push is what one of them pushes.
LEMMA TaggedType ==
    ASSUME NEW other \in Nat, NEW s \in Seq(Event)
    PROVE  Tagged(other, s) \in Seq(TaggedEvent)
<1>1. PICK kind \in EventKinds : kind = "Error"
  BY DEF EventKinds
<1>2. PICK what \in Payloads : what = << >>
  BY DEF Payloads
<1>3. [kind |-> kind, seq |-> 0, what |-> what] \in Event
  BY <1>1 DEF Event
<1>4. QED
  BY <1>3, TaggedAppend

LEMMA TaggedNone == \A id : Tagged(id, << >>) = << >>
BY DEF Tagged

LEMMA PushedOne ==
    ASSUME NEW id \in Ids, OnePushes(id)
    PROVE  Pushed = Tagged(id, PushedFor(id)) /\ Pushed \in Seq(TaggedEvent)
<1> DEFINE s == [i \in Ids |-> Tagged(i, PushedFor(i))]
<1>1. MaxId \in Nat /\ Ids = 1 .. MaxId /\ id \in Nat
  BY ManagerAssumption DEF Ids
<1>2. \A i \in Ids : s[i] = Tagged(i, PushedFor(i))
  OBVIOUS
<1>3. s[id] \in Seq(TaggedEvent)
  BY <1>1, <1>2, TaggedType DEF OnePushes
<1>4. \A i \in Ids : i # id => s[i] = << >>
  BY <1>2, TaggedNone DEF OnePushes
<1>5. << >> \in Seq(TaggedEvent)
  BY EmptySeq
<1>6. \A i \in Ids : s[i] \in Seq(TaggedEvent)
  BY <1>3, <1>4, <1>5
<1>7. s \in [1 .. MaxId -> Seq(TaggedEvent)]
  BY <1>1, <1>6
<1>8. Pushed = FlattenSeq(s)
  BY DEF Pushed
<1> HIDE DEF s
<1>9. FlattenSeq(s) = s[id]
  BY <1>1, <1>4, <1>7, FlattenOne
<1>10. QED
  BY <1>2, <1>3, <1>8, <1>9

LEMMA PushedNone ==
    ASSUME \A id \in Ids : PushedFor(id) = << >>
    PROVE  Pushed = << >>
<1> DEFINE s == [i \in Ids |-> Tagged(i, PushedFor(i))]
<1>1. MaxId \in Nat /\ Ids = 1 .. MaxId
  BY ManagerAssumption DEF Ids
<1>2. \A i \in Ids : s[i] = << >>
  BY TaggedNone
<1>3. << >> \in Seq(TaggedEvent)
  BY EmptySeq
<1>4. s \in [1 .. MaxId -> Seq(TaggedEvent)]
  BY <1>1, <1>2, <1>3
<1>5. Pushed = FlattenSeq(s)
  BY DEF Pushed
<1> HIDE DEF s
<1>6. FlattenSeq(s) = << >>
  BY <1>1, <1>2, <1>4, FlattenNone
<1>7. QED
  BY <1>5, <1>6

\* Behind what has been queued, every pane's own events come as pushed.
LEMMA StepDelivers ==
    ASSUME Registry,
           UNCHANGED <<panes, removed>> \/ \E id \in Ids : \E more : Grew(id, more),
           NEW all \in Seq(TaggedEvent)
    PROVE  /\ Continues /\ Pushed \in Seq(TaggedEvent)
           /\ \A id \in Ids : EventsOf(id, all \o Pushed) = EventsOf(id, all) \o PushedFor(id)
<1>1. CASE UNCHANGED <<panes, removed>>
  <2>1. Continues /\ \A id \in Ids : PushedFor(id) = << >>
    BY <1>1, NonePush
  <2>2. Pushed = << >>
    BY <2>1, PushedNone
  <2>3. << >> \in Seq(TaggedEvent) /\ all \o << >> = all
    BY EmptySeq, ConcatEmptySeq
  <2>4. ASSUME NEW id \in Ids
        PROVE  EventsOf(id, all \o Pushed) = EventsOf(id, all) \o PushedFor(id)
    <3>1. EventsOf(id, all) \o << >> = EventsOf(id, all)
      <4>1. id \in Nat /\ << >> \in Seq(Event)
        BY EmptySeq DEF Ids
      <4>2. Delivers(id, id, all, << >>)
        BY <4>1, EventsPushed
      <4>3. QED
        BY <2>3, <4>2, TaggedNone DEF Delivers
    <3>2. QED
      BY <2>1, <2>2, <2>3, <3>1
  <2>5. QED
    BY <2>1, <2>2, <2>3, <2>4
<1>2. CASE \E id \in Ids : \E more : Grew(id, more)
  <2> PICK one \in Ids : \E more : Grew(one, more)
    BY <1>2
  <2>1. PICK more : Grew(one, more)
    OBVIOUS
  <2>2. Continues /\ OnePushes(one)
    BY <2>1, OnlyPushes
  <2>3. Pushed = Tagged(one, PushedFor(one)) /\ Pushed \in Seq(TaggedEvent)
    BY <2>2, PushedOne
  <2>4. PICK pushed \in Seq(Event) : pushed = PushedFor(one)
    BY <2>2 DEF OnePushes
  <2>5. ASSUME NEW id \in Ids
        PROVE  EventsOf(id, all \o Pushed) = EventsOf(id, all) \o PushedFor(id)
    <3>1. one \in Nat
      BY DEF Ids
    <3>2. Delivers(id, one, all, pushed)
      BY <3>1, EventsPushed
    <3>3. PushedFor(id) = IF one = id THEN pushed ELSE << >>
      BY <2>2, <2>4 DEF OnePushes
    <3>4. QED
      BY <2>3, <2>4, <3>2, <3>3 DEF Delivers
  <2>6. QED
    BY <2>2, <2>3, <2>5
<1>3. QED
  BY <1>1, <1>2

\* A live pane's log is what it was and what was pushed.
LEMMA LogsGrew ==
    ASSUME Registry, AllNumbered, Live \subseteq Ids,
           UNCHANGED <<panes, removed>> \/ \E id \in Ids : \E more : Grew(id, more)
    PROVE  /\ Live' \subseteq Ids /\ AllNumbered'
           /\ \A id \in Live' : panes'[id].event_log = Before(id) \o PushedFor(id)
<1>1. ASSUME NEW id \in Live, panes'[id] = panes[id], PushedFor(id) = << >>
      PROVE  /\ panes'[id].event_log = Before(id) \o PushedFor(id)
             /\ Numbered(panes'[id])
  <2>1. panes'[id].event_log = Before(id) /\ Before(id) \in Seq(Event)
    BY <1>1, LivedType DEF Before
  <2>2. Before(id) \o << >> = Before(id)
    BY <2>1, ConcatEmptySeq
  <2>3. QED
    BY <1>1, <2>1, <2>2 DEF AllNumbered
<1>2. CASE UNCHANGED <<panes, removed>>
  <2>1. Live' = Live /\ \A id \in Live : panes'[id] = panes[id]
    BY <1>2 DEF Live
  <2>2. \A id \in Ids : PushedFor(id) = << >>
    BY <1>2, NonePush
  <2>3. \A id \in Live : /\ panes'[id].event_log = Before(id) \o PushedFor(id)
                        /\ Numbered(panes'[id])
    BY <1>1, <2>1, <2>2
  <2>4. QED
    BY <2>1, <2>3 DEF AllNumbered
<1>3. CASE \E id \in Ids : \E more : Grew(id, more)
  <2> PICK one \in Ids : \E more : Grew(one, more)
    BY <1>3
  <2>1. PICK more : Grew(one, more)
    OBVIOUS
  <2>2. PushedFor(one) = more /\ OnePushes(one)
    BY <2>1, GrewPushes, OnlyPushes
  <2>3. Live' \subseteq Live \cup {one}
    BY <2>1 DEF Grew
  <2>4. ASSUME NEW id \in Live'
        PROVE  /\ panes'[id].event_log = Before(id) \o PushedFor(id)
               /\ Numbered(panes'[id])
    <3>1. CASE id = one
      BY <2>1, <2>2, <2>4, <3>1 DEF Grew
    <3>2. CASE id # one
      <4>1. id \in Live /\ id \in Ids \ {one}
        BY <2>3, <2>4, <3>2
      <4>2. panes'[id] = panes[id]
        BY <2>1, <4>1 DEF Grew, Untouched
      <4>3. PushedFor(id) = << >>
        BY <2>2, <4>1 DEF OnePushes
      <4>4. QED
        BY <1>1, <4>1, <4>2, <4>3
    <3>3. QED
      BY <3>1, <3>2
  <2>5. QED
    BY <2>3, <2>4 DEF AllNumbered
<1>4. QED
  BY <1>2, <1>3

-----------------------------------------------------------------------------
(* The retained log. *)

LogState == [kept : Seq(Event), dropped : Nat]

\* Are these the events of a history after the first d?
Follows(kept, n, history, d) == \A i \in 1 .. n : kept[i] = history[d + i]

\* A log retains the last of the first m events of a history that the policy
\* allows it, and counts the others.
Keeps(log, history, m) ==
    /\ log \in LogState
    /\ log.dropped + Len(log.kept) = m
    /\ Follows(log.kept, Len(log.kept), history, log.dropped)
    /\ \A limit \in retention :
         /\ Len(log.kept) <= limit
         /\ log.dropped > 0 => Len(log.kept) = limit
    /\ log.dropped > 0 => retention # Unlimited

\* What Bound makes of a log one event too long.
LEMMA BoundKeeps ==
    ASSUME NEW limit \in Nat, retention = {limit},
           NEW history, NEW m \in Nat, NEW n \in Nat, NEW d \in Nat,
           NEW kept \in Seq(Event), Len(kept) = n + 1, d + n = m,
           n <= limit, d > 0 => n = limit,
           Follows(kept, n + 1, history, d),
           NEW log, log = [kept |-> kept, dropped |-> d]
    PROVE  Keeps(Bound(log, limit), history, m + 1)
<1>1. PICK excess \in Nat, left \in Nat :
          /\ excess = IF n + 1 > limit THEN n + 1 - limit ELSE 0
          /\ excess + left = n + 1 /\ left <= limit
          /\ d + excess > 0 => left = limit
  <2>1. CASE n + 1 > limit
    <3>1. n + 1 - limit = 1 /\ 1 + n = n + 1 /\ n = limit
      BY <2>1
    <3>2. QED
      BY <2>1, <3>1
  <2>2. CASE ~(n + 1 > limit)
    <3>1. n + 1 <= limit /\ d = 0 /\ 0 + (n + 1) = n + 1 /\ n + 1 \in Nat
      BY <2>2
    <3>2. QED
      BY <2>2, <3>1
  <2>3. QED
    BY <2>1, <2>2
<1>2. PICK rest \in Seq(Event) :
          /\ rest = SubSeq(kept, excess + 1, n + 1) /\ Len(rest) = left
          /\ \A i \in 1 .. left : rest[i] = kept[excess + i]
  <2>1. Len(kept) = excess + left
    BY <1>1
  <2>2. /\ SubSeq(kept, excess + 1, excess + left) \in Seq(Event)
        /\ Len(SubSeq(kept, excess + 1, excess + left)) = left
        /\ \A i \in 1 .. left : SubSeq(kept, excess + 1, excess + left)[i] = kept[excess + i]
    BY <2>1, LastOnes
  <2>3. QED
    BY <1>1, <2>2
<1>3. PICK dropped \in Nat : dropped = d + excess /\ dropped + left = m + 1
  <2>1. d + excess \in Nat /\ (d + excess) + left = m + 1
    BY <1>1
  <2>2. QED
    BY <2>1
<1>4. Bound(log, limit) = [kept |-> rest, dropped |-> dropped]
  <2>1. log.kept = kept /\ log.dropped = d /\ Len(log.kept) = n + 1
    OBVIOUS
  <2>2. excess = IF Len(log.kept) > limit THEN Len(log.kept) - limit ELSE 0
    BY <1>1, <2>1
  <2>3. Bound(log, limit) = [kept    |-> SubSeq(log.kept, excess + 1, Len(log.kept)),
                             dropped |-> log.dropped + excess]
    BY <2>2, Zenon DEF Bound
  <2>4. QED
    BY <1>2, <1>3, <2>1, <2>3, Zenon
<1>5. PICK r \in LogState :
          /\ r = [kept |-> rest, dropped |-> dropped]
          /\ r.kept = rest /\ r.dropped = dropped
  <2>1. [kept |-> rest, dropped |-> dropped] \in LogState
    BY DEF LogState
  <2>2. QED
    BY <2>1
<1>6. Follows(rest, left, history, dropped)
  <2>1. ASSUME NEW i \in 1 .. left PROVE rest[i] = history[dropped + i]
    <3>1. PICK j \in 1 .. n + 1 : j = excess + i /\ d + j = dropped + i
      <4>1. excess + i \in 1 .. n + 1 /\ d + (excess + i) = dropped + i
        BY <1>1, <1>3
      <4>2. QED
        BY <4>1
    <3>2. kept[j] = history[d + j]
      BY DEF Follows
    <3>3. QED
      BY <1>2, <3>1, <3>2
  <2>2. QED
    BY <2>1 DEF Follows
<1>7. dropped > 0 => left = limit
  BY <1>1, <1>3
<1>8. retention # Unlimited /\ \A any \in retention : any = limit
  BY DEF Unlimited
<1>9. Keeps(r, history, m + 1)
  BY <1>1, <1>2, <1>3, <1>5, <1>6, <1>7, <1>8 DEF Keeps
<1>10. QED
  BY <1>4, <1>5, <1>9

\* retain_event_log keeps the log so with one event more.
LEMMA RetainKeeps ==
    ASSUME retention \in Retentions, NEW history, NEW m \in Nat, NEW log,
           Keeps(log, history, m), NEW e \in Event, e = history[m + 1]
    PROVE  Keeps(RetainEventLog(log, e), history, m + 1)
<1>1. PICK k \in Seq(Event), n \in Nat, d \in Nat :
          k = log.kept /\ n = Len(log.kept) /\ d = log.dropped /\ log = [kept |-> k, dropped |-> d]
  BY LenProperties DEF Keeps, LogState
<1>2. /\ d + n = m /\ Follows(k, n, history, d)
      /\ \A limit \in retention : n <= limit /\ (d > 0 => n = limit)
      /\ d > 0 => retention # Unlimited
  BY <1>1 DEF Keeps
<1>3. PICK kept \in Seq(Event) : /\ kept = Append(k, e) /\ Len(kept) = n + 1
                                 /\ kept[n + 1] = e /\ \A i \in 1 .. n : kept[i] = k[i]
  <2>1. /\ Append(k, e) \in Seq(Event) /\ Len(Append(k, e)) = Len(k) + 1
        /\ Append(k, e)[Len(k) + 1] = e /\ \A i \in 1 .. Len(k) : Append(k, e)[i] = k[i]
    BY AppendProperties
  <2>2. Len(k) = n
    BY <1>1
  <2>3. QED
    BY <2>1, <2>2
<1>4. Follows(kept, n + 1, history, d)
  <2>1. ASSUME NEW i \in 1 .. n + 1 PROVE kept[i] = history[d + i]
    <3>1. CASE i = n + 1
      <4>1. d + i = m + 1
        BY <1>2, <3>1
      <4>2. QED
        BY <1>3, <3>1, <4>1
    <3>2. CASE i # n + 1
      <4>1. i \in 1 .. n
        BY <3>2
      <4>2. kept[i] = k[i] /\ k[i] = history[d + i]
        BY <1>2, <1>3, <4>1 DEF Follows
      <4>3. QED
        BY <4>2
    <3>3. QED
      BY <3>1, <3>2
  <2>2. QED
    BY <2>1 DEF Follows
<1>5. PICK appended : appended = [kept |-> kept, dropped |-> d]
  OBVIOUS
<1>6. [log EXCEPT !.kept = Append(@, e)] = appended
  <2>1. [log EXCEPT !.kept = kept] = [kept |-> kept, dropped |-> d]
    BY <1>1 DEF LogState
  <2>2. log.kept = k
    BY <1>1
  <2>3. QED
    BY <1>3, <1>5, <2>1, <2>2, Zenon
<1>7. CASE retention = Unlimited
  <2>1. RetainEventLog(log, e) = appended
    BY <1>6, <1>7 DEF RetainEventLog
  <2>2. d = 0 /\ d + (n + 1) = m + 1
    BY <1>2, <1>7
  <2>3. appended \in LogState /\ appended.kept = kept /\ appended.dropped = d
    BY <1>5 DEF LogState
  <2>4. Keeps(appended, history, m + 1)
    BY <1>3, <1>4, <1>7, <2>2, <2>3 DEF Keeps, Unlimited
  <2>5. QED
    BY <2>1, <2>4
<1>8. CASE retention # Unlimited
  <2>1. PICK limit \in Nat : retention = {limit}
    BY <1>8, RetentionAssumption DEF Unlimited
  <2>2. (CHOOSE any \in retention : TRUE) = limit
    BY <2>1
  <2>3. RetainEventLog(log, e) = Bound(appended, limit)
    BY <1>6, <1>8, <2>2 DEF RetainEventLog
  <2>4. n <= limit /\ (d > 0 => n = limit)
    BY <1>2, <2>1
  <2>5. Keeps(Bound(appended, limit), history, m + 1)
    BY <1>2, <1>3, <1>4, <1>5, <2>1, <2>4, BoundKeeps
  <2>6. QED
    BY <2>3, <2>5
<1>9. QED
  BY <1>7, <1>8

\* The log a step's events are first retained in.
LogBefore(id) == IF id \in Live THEN logs[id] ELSE NewLog

\* A log after each of the events of a step.
RetainSteps(f, start, pushed, l) ==
    /\ f[0] = start
    /\ \A n \in 1 .. l : f[n] = RetainEventLog(f[n - 1], pushed[n])

\* The recursion of Retains is well defined.
LEMMA RetainsSteps ==
    ASSUME NEW id, NEW l \in Nat, l = Len(PushedFor(id))
    PROVE  \E f : Retains(id) = f[l] /\ RetainSteps(f, LogBefore(id), PushedFor(id), l)
<1> DEFINE pushed == PushedFor(id)
           start == LogBefore(id)
           Body(f, m) == [n \in 0 .. m |-> IF n = 0 THEN start
                                          ELSE RetainEventLog(f[n - 1], pushed[n])]
           S == {m \in Nat : \E f : f = Body(f, m)}
<1>1. 0 \in S
  <2> DEFINE f == [n \in 0 .. 0 |-> start]
  <2>1. f = Body(f, 0)
    <3> HIDE DEF start, pushed
    <3>1. QED
      OBVIOUS
  <2>2. QED
    BY <2>1
<1>2. ASSUME NEW m \in Nat, m \in S PROVE m + 1 \in S
  <2>1. PICK f : f = Body(f, m)
    BY <1>2
  <2> HIDE DEF start, pushed
  <2> DEFINE g == Body(f, m + 1)
             h == Body(g, m + 1)
  <2>2. ASSUME NEW n \in 0 .. m PROVE f[n] = g[n]
    <3>1. f[n] = Body(f, m)[n]
      BY <2>1
    <3>2. QED
      BY <3>1
  <2>3. ASSUME NEW n \in 0 .. m + 1 PROVE g[n] = h[n]
    <3>1. CASE n = 0
      BY <3>1
    <3>2. CASE n # 0
      <4>1. n - 1 \in 0 .. m
        BY <3>2
      <4>2. f[n - 1] = g[n - 1]
        BY <2>2, <4>1
      <4>3. /\ g[n] = RetainEventLog(f[n - 1], pushed[n])
            /\ h[n] = RetainEventLog(g[n - 1], pushed[n])
        BY <3>2
      <4> HIDE DEF g, h
      <4>4. QED
        BY <4>2, <4>3
    <3>3. QED
      BY <3>1, <3>2
  <2>4. g = h
    <3>1. g = [n \in 0 .. m + 1 |-> g[n]] /\ h = [n \in 0 .. m + 1 |-> h[n]]
      OBVIOUS
    <3> HIDE DEF g, h
    <3>2. QED
      BY <2>3, <3>1
  <2>5. m + 1 \in Nat /\ g = Body(g, m + 1)
    <3>1. h = Body(g, m + 1)
      OBVIOUS
    <3> HIDE DEF g, h, Body
    <3>2. QED
      BY <2>4, <3>1
  <2> HIDE DEF g
  <2>6. QED
    BY <2>5
<1>3. l \in S
  <2> HIDE DEF S
  <2>1. QED
    BY <1>1, <1>2, CountingUp
<1> DEFINE all == CHOOSE f : f = Body(f, l)
<1>4. all = Body(all, l)
  <2>1. \E f : f = Body(f, l)
    BY <1>3
  <2> HIDE DEF Body
  <2>2. QED
    BY <2>1
<1>5. Retains(id) = all[l]
  BY Zenon DEF Retains, LogBefore
<1>6. RetainSteps(all, start, pushed, l)
  <2> HIDE DEF all, start, pushed
  <2>1. all[0] = start
    BY <1>4
  <2>2. ASSUME NEW n \in 1 .. l
        PROVE  all[n] = RetainEventLog(all[n - 1], pushed[n])
    <3>1. all[n] = Body(all, l)[n]
      BY <1>4
    <3>2. QED
      BY <3>1
  <2>3. QED
    BY <2>1, <2>2 DEF RetainSteps
<1>7. QED
  BY <1>5, <1>6

\* The events retained are the last of the history there is.
LEMMA RetainsKeeps ==
    ASSUME retention \in Retentions, NEW id,
           NEW before \in Seq(Event), NEW pushed \in Seq(Event), pushed = PushedFor(id),
           NEW history, history = before \o pushed,
           Keeps(LogBefore(id), before, Len(before))
    PROVE  Keeps(Retains(id), history, Len(history))
<1>1. PICK b \in Nat, l \in Nat : b = Len(before) /\ l = Len(pushed)
  BY LenProperties
<1>2. /\ history \in Seq(Event) /\ Len(history) = b + l
      /\ \A i \in 1 .. b + l : history[i] = IF i <= b THEN before[i] ELSE pushed[i - b]
  BY <1>1, ConcatProperties
<1>3. PICK f : Retains(id) = f[l] /\ RetainSteps(f, LogBefore(id), pushed, l)
  BY <1>1, RetainsSteps
<1> DEFINE S == {n \in Nat : n <= l => Keeps(f[n], history, b + n)}
<1>4. 0 \in S
  <2>1. PICK log : log = f[0]
    OBVIOUS
  <2>2. log = LogBefore(id)
    BY <1>3, <2>1 DEF RetainSteps
  <2>3. Keeps(log, before, b)
    BY <1>1, <2>2
  <2>4. PICK k \in Seq(Event), n \in Nat, d \in Nat :
            k = log.kept /\ n = Len(k) /\ d = log.dropped
    BY <2>3, LenProperties DEF Keeps, LogState
  <2>5. d + n = b /\ Follows(k, n, before, d)
    BY <2>3, <2>4 DEF Keeps
  <2>6. ASSUME NEW i \in 1 .. n PROVE k[i] = history[d + i]
    <3>1. d + i \in 1 .. b + l /\ d + i <= b
      BY <2>5
    <3>2. history[d + i] = before[d + i]
      BY <1>2, <3>1
    <3>3. QED
      BY <2>5, <3>2 DEF Follows
  <2>7. Follows(k, n, history, d)
    BY <2>6 DEF Follows
  <2>8. Keeps(log, history, b)
    BY <2>3, <2>4, <2>7, Zenon DEF Keeps
  <2>9. QED
    BY <2>1, <2>8
<1>5. ASSUME NEW n \in Nat, n \in S PROVE n + 1 \in S
  <2>1. SUFFICES ASSUME n + 1 <= l PROVE Keeps(f[n + 1], history, b + (n + 1))
    OBVIOUS
  <2> PICK log : log = f[n]
    OBVIOUS
  <2> PICK m \in Nat : m = b + n
    OBVIOUS
  <2>2. Keeps(log, history, m)
    <3>1. n <= l
      BY <2>1
    <3>2. Keeps(f[n], history, b + n)
      BY <1>5, <3>1
    <3>3. QED
      BY <3>2
  <2>3. PICK e \in Event : e = pushed[n + 1]
    BY <1>1, <2>1, ElementOfSeq
  <2>4. e = history[m + 1]
    <3>1. m + 1 \in 1 .. b + l /\ ~(m + 1 <= b) /\ (m + 1) - b = n + 1
      BY <2>1
    <3>2. QED
      BY <1>2, <2>3, <3>1
  <2>5. f[n + 1] = RetainEventLog(log, e)
    <3>1. PICK i \in 1 .. l : i = n + 1 /\ i - 1 = n
      BY <2>1
    <3>2. f[i] = RetainEventLog(f[i - 1], pushed[i])
      BY <1>3 DEF RetainSteps
    <3>3. QED
      BY <2>3, <3>1, <3>2
  <2>6. Keeps(RetainEventLog(log, e), history, m + 1)
    BY <2>2, <2>4, RetainKeeps
  <2>7. m + 1 = b + (n + 1)
    OBVIOUS
  <2>8. QED
    BY <2>5, <2>6, <2>7
<1>6. \A n \in Nat : n \in S
  <2> HIDE DEF S
  <2>1. QED
    BY <1>4, <1>5, CountingUp
<1>7. Keeps(f[l], history, b + l)
  BY <1>6
<1>8. QED
  BY <1>2, <1>3, <1>7

-----------------------------------------------------------------------------
(* The invariant of the delivery. *)

LogsRetained ==
    \A id \in Live : Keeps(logs[id], panes[id].event_log, Len(panes[id].event_log))

DeliveryInv ==
    /\ retention \in Retentions
    /\ Live \subseteq Ids /\ AllNumbered
    /\ events \in Seq(TaggedEvent) /\ drained \in Seq(TaggedEvent)
    /\ LogsRetained
    /\ StreamComplete

LEMMA DeliveryBegins == DeliveryInit => DeliveryInv
<1> SUFFICES ASSUME DeliveryInit PROVE DeliveryInv
  OBVIOUS
<1>1. Live = {} /\ retention \in Retentions
  BY DEF DeliveryInit, Init, Live
<1>2. events = << >> /\ drained = << >> /\ removed = << >> /\ << >> \in Seq(TaggedEvent)
  BY EmptySeq DEF DeliveryInit, Init
<1>3. events \in Seq(TaggedEvent) /\ drained \in Seq(TaggedEvent)
  BY <1>2
<1>4. AllNumbered /\ LogsRetained
  BY <1>1 DEF AllNumbered, LogsRetained
<1>5. StreamComplete
  <2>1. FlattenSeq(<< >>) = << >> /\ << >> \o << >> = << >>
    <3>1. << >> \in Seq(Event) /\ Len(<< >>) = 0
      BY EmptySeq
    <3>2. << >> \o << >> = << >>
      BY <3>1, ConcatEmptySeq
    <3>3. FlattenSeq(<< >>) = << >>
      BY <3>1 DEF FlattenSeq
    <3>4. QED
      BY <3>2, <3>3
  <2>2. ASSUME NEW id \in Ids
        PROVE  EventsOf(id, drained \o events) = LivedThrough(id)
    <3>1. EventsOf(id, drained \o events) = << >>
      <4>1. drained \o events = << >>
        BY <1>2, <2>1
      <4>2. EventsOf(id, << >>) = FlattenSeq(<< >>)
        BY DEF EventsOf
      <4>3. QED
        BY <2>1, <4>1, <4>2
    <3>2. PastLives(id) = << >>
      <4>1. PastLives(id) = FlattenSeq(<< >>)
        BY <1>2 DEF PastLives
      <4>2. QED
        BY <2>1, <4>1
    <3>3. QED
      BY <1>1, <2>1, <3>1, <3>2 DEF LivedThrough
  <2>3. QED
    BY <2>2 DEF StreamComplete
<1>6. QED
  BY <1>1, <1>3, <1>4, <1>5 DEF DeliveryInv

\* push_event: what a step of the manager pushes is queued and retained.
LEMMA PushKeepsDelivery ==
    ASSUME IInv, IdInv, DeliveryInv, Next, PushEvents
    PROVE  DeliveryInv'
<1>1. /\ Registry /\ retention \in Retentions
      /\ Live \subseteq Ids /\ AllNumbered /\ LogsRetained /\ StreamComplete
      /\ events \in Seq(TaggedEvent) /\ drained \in Seq(TaggedEvent)
  BY DEF IInv, DeliveryInv
<1>2. /\ logs' = [id \in DOMAIN panes' |-> Retains(id)] /\ events' = events \o Pushed
      /\ retention' = retention /\ drained' = drained
  BY DEF PushEvents
<1>3. UNCHANGED <<panes, removed>> \/ \E id \in Ids : \E more : Grew(id, more)
  BY <1>1, StepGrew
<1>4. /\ Live' \subseteq Ids /\ AllNumbered'
      /\ \A id \in Live' : panes'[id].event_log = Before(id) \o PushedFor(id)
  BY <1>1, <1>3, LogsGrew
<1>5. PICK all \in Seq(TaggedEvent) : all = drained \o events
  BY <1>1, ConcatProperties
<1>6. /\ Continues /\ Pushed \in Seq(TaggedEvent)
      /\ \A id \in Ids : EventsOf(id, all \o Pushed) = EventsOf(id, all) \o PushedFor(id)
  BY <1>1, <1>3, StepDelivers
<1>7. events' \in Seq(TaggedEvent) /\ drained' \in Seq(TaggedEvent)
  BY <1>1, <1>2, <1>6, ConcatProperties
<1>8. StreamComplete'
  <2>1. drained' \o events' = all \o Pushed
    <3>1. PICK pushed \in Seq(TaggedEvent) : pushed = Pushed
      BY <1>6
    <3>2. (drained \o events) \o pushed = drained \o (events \o pushed)
      BY <1>1, ConcatAssociative
    <3>3. QED
      BY <1>2, <1>5, <3>1, <3>2
  <2>2. ASSUME NEW id \in Ids
        PROVE  EventsOf(id, drained' \o events') = LivedThrough(id)'
    <3>1. EventsOf(id, all) = LivedThrough(id)
      BY <1>1, <1>5 DEF StreamComplete
    <3>2. LivedThrough(id)' = LivedThrough(id) \o PushedFor(id)
      BY <1>6 DEF Continues
    <3>3. EventsOf(id, all \o Pushed) = EventsOf(id, all) \o PushedFor(id)
      BY <1>6
    <3>4. QED
      BY <2>1, <3>1, <3>2, <3>3
  <2>3. QED
    BY <2>2 DEF StreamComplete, EventsOf
<1>9. LogsRetained'
  <2>1. ASSUME NEW id \in Live'
        PROVE  Keeps(Retains(id), panes'[id].event_log, Len(panes'[id].event_log))
    <3>1. PICK before \in Seq(Event), pushed \in Seq(Event) :
              before = Before(id) /\ pushed = PushedFor(id)
      BY <1>1, <1>4, <1>6, LivedType DEF Continues
    <3>2. PICK history : history = panes'[id].event_log /\ history = before \o pushed
      BY <1>4, <3>1
    <3>3. Keeps(LogBefore(id), before, Len(before))
      <4>1. CASE id \in Live
        BY <1>1, <3>1, <4>1 DEF LogsRetained, LogBefore, Before
      <4>2. CASE id \notin Live
        <5>1. before = << >> /\ LogBefore(id) = NewLog
          BY <3>1, <4>2 DEF Before, LogBefore
        <5>2. Len(<< >>) = 0 /\ << >> \in Seq(Event)
          BY EmptySeq
        <5>3. NewLog \in LogState /\ NewLog.kept = << >> /\ NewLog.dropped = 0
          BY <5>2 DEF NewLog, LogState
        <5>4. Follows(<< >>, 0, << >>, 0)
          BY DEF Follows
        <5>5. \A limit \in retention : limit \in Nat
          BY <1>1, RetentionAssumption
        <5>6. Keeps(NewLog, << >>, 0)
          BY <5>2, <5>3, <5>4, <5>5 DEF Keeps
        <5>7. QED
          BY <5>1, <5>2, <5>6
      <4>3. QED
        BY <4>1, <4>2
    <3>4. Keeps(Retains(id), history, Len(history))
      BY <1>1, <3>1, <3>2, <3>3, RetainsKeeps
    <3>5. QED
      BY <3>2, <3>4
  <2>2. ASSUME NEW id \in Live'
        PROVE  Keeps(logs'[id], panes'[id].event_log, Len(panes'[id].event_log))
    <3>1. logs'[id] = Retains(id)
      BY <1>2 DEF Live
    <3>2. QED
      BY <2>1, <3>1
  <2>3. QED
    BY <1>2, <2>2 DEF LogsRetained, Keeps, Follows
<1>10. QED
  BY <1>1, <1>2, <1>4, <1>7, <1>8, <1>9 DEF DeliveryInv

\* drain_events: what was queued has been drained, in the same order.
LEMMA DrainKeepsDelivery ==
    ASSUME DeliveryInv, DrainEvents
    PROVE  DeliveryInv'
<1>1. /\ UNCHANGED <<panes, removed, retention, logs>>
      /\ drained' = drained \o events /\ events' = << >>
  BY DEF DrainEvents, vars
<1>2. events \in Seq(TaggedEvent) /\ drained \in Seq(TaggedEvent) /\ StreamComplete
  BY DEF DeliveryInv
<1>3. drained' \in Seq(TaggedEvent) /\ events' \in Seq(TaggedEvent)
  BY <1>1, <1>2, ConcatProperties, EmptySeq
<1>4. drained' \o events' = drained \o events
  <2>1. PICK all \in Seq(TaggedEvent) : all = drained \o events
    BY <1>2, ConcatProperties
  <2>2. all \o << >> = all
    BY ConcatEmptySeq
  <2>3. QED
    BY <1>1, <2>1, <2>2
<1>5. StreamComplete'
  <2>1. ASSUME NEW id \in Ids
        PROVE  EventsOf(id, drained' \o events') = LivedThrough(id)'
    <3>1. LivedThrough(id)' = LivedThrough(id)
      BY <1>1 DEF LivedThrough, PastLives, Live
    <3>2. QED
      BY <1>2, <1>4, <3>1 DEF StreamComplete
  <2>2. QED
    BY <2>1 DEF StreamComplete, EventsOf
<1>6. /\ retention' \in Retentions /\ Live' \subseteq Ids
      /\ AllNumbered' /\ LogsRetained'
  BY <1>1 DEF DeliveryInv, AllNumbered, LogsRetained, Live, Numbered, Keeps, Follows
<1>7. QED
  BY <1>3, <1>5, <1>6 DEF DeliveryInv

LEMMA DeliveryInvariant == DeliverySafe => [](IInv /\ DeliveryInv)
<1>1. DeliveryInit => IInv /\ IdInv /\ DeliveryInv
  <2>1. DeliveryInit => Init
    BY DEF DeliveryInit
  <2>2. Init => IdInv
    BY DEF Init, IdInv
  <2>3. QED
    BY <2>1, <2>2, InitKeeps, DeliveryBegins
<1>2. IInv /\ IdInv /\ DeliveryInv /\ [DeliveryNext]_<<vars, delivery>>
        => IInv' /\ IdInv' /\ DeliveryInv'
  <2> SUFFICES ASSUME IInv, IdInv, DeliveryInv, [DeliveryNext]_<<vars, delivery>>
               PROVE  IInv' /\ IdInv' /\ DeliveryInv'
    OBVIOUS
  <2>1. [Next]_vars
    BY DEF DeliveryNext, DrainEvents
  <2>2. IInv' /\ IdInv'
    BY <2>1, NextKeeps, IdsKeep
  <2>3. ASSUME Next, PushEvents PROVE DeliveryInv'
    BY <2>3, PushKeepsDelivery, Zenon
  <2>4. ASSUME DrainEvents PROVE DeliveryInv'
    BY <2>4, DrainKeepsDelivery, Zenon
  <2>5. ASSUME UNCHANGED <<vars, delivery>> PROVE DeliveryInv'
    <3>1. UNCHANGED <<panes, removed, retention, logs, events, drained>>
      BY <2>5 DEF vars, delivery
    <3>2. \A id \in Ids : EventsOf(id, drained \o events)' = EventsOf(id, drained \o events)
      BY <3>1 DEF EventsOf
    <3>3. \A id \in Ids : LivedThrough(id)' = LivedThrough(id)
      BY <3>1 DEF LivedThrough, PastLives, Live
    <3>4. StreamComplete'
      BY <3>2, <3>3 DEF DeliveryInv, StreamComplete
    <3>5. AllNumbered' /\ Live' = Live
      BY <3>1 DEF DeliveryInv, AllNumbered, Live, Numbered
    <3>6. LogsRetained'
      BY <3>1, <3>5, Zenon DEF DeliveryInv, LogsRetained, Keeps, Follows
    <3>7. QED
      BY <3>1, <3>4, <3>5, <3>6, Zenon DEF DeliveryInv
  <2>6. DeliveryInv'
    BY <2>3, <2>4, <2>5, Zenon DEF DeliveryNext
  <2>7. QED
    BY <2>2, <2>6
<1>3. QED
  BY <1>1, <1>2, PTL DEF DeliverySafe

\* push_event and drain_events: what the host has drained and what is still
\* queued is, for every pane id, every event of every pane it was given to, once
\* and in order, whatever is retained, removed and spawned again under that id.
THEOREM EveryEventOnce == DeliverySafe => []StreamComplete
<1>1. DeliveryInv => StreamComplete
  BY DEF DeliveryInv
<1>2. QED
  BY <1>1, DeliveryInvariant, PTL

\* retain_event_log: under every policy the retained log is the end of the
\* pane's history, as long as the policy allows, and begins where the count of
\* dropped events says.
THEOREM RetentionExact == DeliverySafe => []RetainedLogExact
<1>1. IInv /\ DeliveryInv => RetainedLogExact
  <2> SUFFICES ASSUME IInv, DeliveryInv, NEW id \in Live
               PROVE  LET history == panes[id].event_log  log == logs[id]
                      IN  /\ log.kept = SubSeq(history, log.dropped + 1, Len(history))
                          /\ log.dropped + Len(log.kept) = panes[id].next_seq
                          /\ \A limit \in retention : Len(log.kept) <= limit
                          /\ log.dropped > 0 => \A limit \in retention : Len(log.kept) = limit
                          /\ log.dropped > 0 => retention # Unlimited
    BY DEF RetainedLogExact
  <2>0. panes[id].event_log \in Seq(Event)
    BY PaneType DEF IInv, PaneState
  <2> PICK history \in Seq(Event) : history = panes[id].event_log
    BY <2>0
  <2> PICK log : log = logs[id]
    OBVIOUS
  <2> PICK m \in Nat : m = Len(history)
    BY LenProperties
  <2>1. Keeps(log, history, m)
    <3>1. Keeps(logs[id], panes[id].event_log, Len(panes[id].event_log))
      BY DEF DeliveryInv, LogsRetained
    <3>2. QED
      BY <3>1
  <2>2. PICK kept \in Seq(Event), n \in Nat, d \in Nat :
            kept = log.kept /\ n = Len(kept) /\ d = log.dropped
    BY <2>1, LenProperties DEF Keeps, LogState
  <2>3. /\ d + n = m /\ Follows(kept, n, history, d)
        /\ \A limit \in retention : n <= limit /\ (d > 0 => n = limit)
        /\ d > 0 => retention # Unlimited
    BY <2>1, <2>2 DEF Keeps
  <2>4. kept = SubSeq(history, d + 1, m)
    <3> PICK rest : rest = SubSeq(history, d + 1, d + n)
      OBVIOUS
    <3>0. Len(history) = d + n
      BY <2>3
    <3>1. /\ rest \in Seq(Event) /\ Len(rest) = n
          /\ \A i \in 1 .. n : rest[i] = history[d + i]
      BY <3>0, LastOnes
    <3>2. \A i \in 1 .. n : kept[i] = rest[i]
      BY <2>3, <3>1 DEF Follows
    <3>3. kept = rest
      <4>1. Len(kept) = n /\ Len(rest) = n /\ kept \in Seq(Event) /\ rest \in Seq(Event)
        BY <2>2, <3>1
      <4>2. \A i \in 1 .. Len(kept) : kept[i] = rest[i]
        BY <3>2, <4>1
      <4>3. QED
        BY <4>1, <4>2, SeqEqual
    <3>4. QED
      BY <2>3, <3>3
  <2>5. panes[id].next_seq = m
    BY <2>1 DEF DeliveryInv, AllNumbered, Numbered
  <2>6. QED
    BY <2>1, <2>2, <2>3, <2>4, <2>5
<1>2. QED
  BY <1>1, DeliveryInvariant, PTL

=============================================================================
