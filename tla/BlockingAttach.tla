---------------------------- MODULE BlockingAttach ----------------------------
(***************************************************************************)
(* BlockingAttachSession::run (panesmith-attach/src/session.rs) with its   *)
(* AttachBridge and AttachGuard (attach.rs), over a host terminal that is  *)
(* lent and taken back by CrosstermHost.                                   *)
(*                                                                         *)
(* It is the stand-alone twin of PaneAttach, and differs from it: the PTY  *)
(* is resized before the surface, the child's end does not end the attach, *)
(* there is no transcript, and a session can be run again after any error. *)
(* The calls of run follow each other through session.stage; each call to  *)
(* terminal, PTY or surface can fail.  Frames come from a child that may   *)
(* flood without end; one of its output frames, any one, is "Watched".     *)
(* What the user types is the chord or not: the rest is DetachMatcher's.   *)
(* The child's own mode switches on the lent terminal are left out.        *)
(***************************************************************************)
EXTENDS CrosstermHost

CONSTANTS
    Sizes,           \* sizes the real terminal can have
    EmbeddedSize,    \* the session's embedded_size
    FramesPerTick,   \* DEFAULT_MAX_PTY_FRAMES_PER_TICK
    DrainPasses,     \* passes that fit in DEFAULT_DETACH_DRAIN_MAX_WAIT
    Options,         \* the AttachOptions to consider
    Hosts,           \* the terminals hosts may have set up
    MaxRuns,         \* bound: runs of one session
    MaxResizes       \* bound: size changes of the real terminal

Option == [screen : ScreenPolicies, resize : {"UseRealTerminalSize", "KeepEmbeddedSize"},
           output : {"FanoutToSurfaceAndStdout", "StdoutOnlyThenReplay"}]

ASSUME BlockingAttachAssumption ==
    /\ Options \subseteq Option
    /\ Hosts \subseteq {HostTerminal(raw, screen) : raw \in BOOLEAN, screen \in Screens}
    /\ EmbeddedSize \in Sizes
    /\ {FramesPerTick, DrainPasses} \subseteq Nat \ {0}
    /\ MaxRuns \in Nat /\ MaxResizes \in Nat

VARIABLES
    options,    \* AttachOptions of the session
    session,    \* the locals of run, and how the last run ended
    bridge,     \* AttachState, or "Panicked": an assertion of AttachBridge failed
    guard,      \* the token AttachGuard holds, if any
    events,     \* those of the latest run, InputSent left out
    term, host, \* the host terminal now, and as the host had set it up
    target,     \* the sizes of the child's PTY and of the surface
    child,      \* "reading", "waiting" (a read failed) or "done"
    watched,    \* history, of the watched frame: "unread", "shown" on stdout,
                \* "fed" to the surface, or "settled": lost by a run that failed
    real_size, resizes,
    chord,      \* the user has typed the detach chord
    runs,
    trouble     \* history: what went wrong with the terminal, in any run

vars == <<options, session, bridge, guard, events, term, host, target, child, watched,
          real_size, resizes, chord, runs, trouble>>
user == <<real_size, resizes, chord>>
fixed == <<options, host>>
lent == <<guard, term, runs, trouble>>

NoRun(outcome) ==
    [ stage |-> "idle", outcome |-> outcome, terminal_size |-> EmbeddedSize, replay |-> {},
      drained |-> 0, passes |-> 0,
      restored |-> FALSE,         \* restored_embedded_size
      resize_refused |-> FALSE ]  \* history: the abort failed to give the size back

Init ==
    /\ options \in Options
    /\ session = NoRun("none")
    /\ bridge = "Embedded"
    /\ guard = {}
    /\ events = << >>
    /\ host \in Hosts
    /\ term = host
    /\ target = [pty |-> EmbeddedSize, surface |-> EmbeddedSize]
    /\ child = "reading" /\ watched = "unread"
    /\ real_size \in Sizes /\ resizes = 0
    /\ chord = FALSE /\ runs = 0 /\ trouble = {}

Idle == session.stage = "idle"
Output == {"Output", "Watched"}

\* AttachBridge: each transition asserts the state it starts from.
Moves(from, to) == bridge' = IF bridge = from THEN to ELSE "Panicked"
ResetBridge == bridge' = IF bridge = "Panicked" THEN bridge ELSE "Embedded"

Event(kind, size) == [kind |-> kind, size |-> size]
Error == Event("Error", "none")
AttachStarted == Event("AttachStarted", "none")
AttachEnded == Event("AttachEnded", EmbeddedSize)
Pushes(log) == events' = events \o log

\* run pushes the error run_attached returns, then aborts.
Abandons(reported) == /\ session' = [session EXCEPT !.stage = "abort"]
                      /\ Pushes(reported \o <<Error>>)
Goes(stage) == session' = [session EXCEPT !.stage = stage] /\ UNCHANGED events

-----------------------------------------------------------------------------
(* resize_attached_target: the PTY, the surface, and then the event. *)

Resizes(size) ==
    {[ok |-> TRUE,  target |-> [pty |-> size, surface |-> size],
      log |-> <<Event("Resized", size)>>],
     [ok |-> FALSE, target |-> [target EXCEPT !.pty = size], log |-> << >>],
     [ok |-> FALSE, target |-> target, log |-> << >>]}

ResizesIfReal(size) ==
    IF options.resize = "UseRealTerminalSize" THEN Resizes(size)
    ELSE {[ok |-> TRUE, target |-> target, log |-> << >>]}

-----------------------------------------------------------------------------
(* run: begin *)

\* A host that has lost its terminal does not attach again.
MayRun == Idle /\ runs < MaxRuns /\ "gave_up" \notin trouble

\* The terminal cannot be measured.
Refused ==
    /\ MayRun
    /\ runs' = runs + 1
    /\ session' = NoRun("Refused")
    /\ events' = <<Error>>
    /\ UNCHANGED <<fixed, bridge, guard, term, target, child, watched, user, trouble>>

Noted(s) == trouble \cup (IF s.cut THEN {"suspend_cut"} ELSE {})
                    \cup (IF s.tidy THEN {} ELSE {"gave_up"})

\* mutant: the early return forgets to reset the bridge
SuspendFailsKeepsBridge ==
    /\ MayRun
    /\ runs' = runs + 1
    /\ \E s \in {x \in Suspends(term, options.screen, host.screen = "alternate") : ~x.ok} :
         term' = s.term /\ trouble' = Noted(s)
    /\ session' = NoRun("Refused")
    /\ events' = <<Error>>
    /\ Moves("Embedded", "Attaching")
    /\ UNCHANGED <<fixed, guard, target, child, watched, user>>

SuspendFails ==
    /\ MayRun
    /\ runs' = runs + 1
    /\ \E s \in {x \in Suspends(term, options.screen, host.screen = "alternate") : ~x.ok} :
         term' = s.term /\ trouble' = Noted(s)
    /\ session' = NoRun("Refused")
    /\ events' = <<Error>>
    /\ ResetBridge
    /\ UNCHANGED <<fixed, guard, target, child, watched, user>>

Suspend ==
    /\ MayRun
    /\ runs' = runs + 1
    /\ \E s \in {x \in Suspends(term, options.screen, host.screen = "alternate") : x.ok} :
         term' = s.term /\ guard' = {s.token}
    /\ session' = [NoRun("none") EXCEPT !.stage = "enter", !.terminal_size = real_size]
    /\ events' = <<AttachStarted>>
    /\ Moves("Embedded", "Attaching")
    /\ watched' = IF watched = "shown" THEN "settled" ELSE watched
    /\ UNCHANGED <<fixed, target, child, user, trouble>>

\* The first resize, confirm_attached, and a second look at the size.
EnterAttached ==
    /\ session.stage = "enter"
    /\ \E done \in ResizesIfReal(session.terminal_size), measured \in BOOLEAN :
         /\ target' = done.target
         /\ IF done.ok THEN Moves("Attaching", "Attached") ELSE UNCHANGED bridge
         /\ IF done.ok /\ measured
            THEN session' = [session EXCEPT !.stage = "size"] /\ Pushes(done.log)
            ELSE Abandons(done.log)
    /\ UNCHANGED <<fixed, lent, child, watched, user>>

-----------------------------------------------------------------------------
(* run_attached: each tick looks at the size, stdin and the output. *)

CheckSize ==
    /\ session.stage = "size"
    /\ \/ Abandons(<< >>) /\ UNCHANGED target
       \/ real_size = session.terminal_size /\ Goes("stdin") /\ UNCHANGED target
       \/ /\ real_size # session.terminal_size
          /\ \E done \in ResizesIfReal(real_size) :
               /\ target' = done.target
               /\ IF done.ok
                  THEN /\ session' = [session EXCEPT !.stage = "stdin",
                                                     !.terminal_size = real_size]
                       /\ Pushes(done.log)
                  ELSE Abandons(done.log)
    /\ UNCHANGED <<fixed, bridge, lent, child, watched, user>>

\* The chord, once typed, is in the next chunk read; what precedes it is
\* written to the child first.
PollStdin ==
    /\ session.stage = "stdin"
    /\ \/ Abandons(<< >>) /\ UNCHANGED <<bridge, chord>>   \* reading or writing fails
       \/ /\ ~chord
          /\ session' = [session EXCEPT !.stage = "output", !.drained = 0]
          /\ UNCHANGED <<bridge, events, chord>>
       \/ /\ chord
          /\ chord' = FALSE
          /\ session' = [session EXCEPT !.stage = "drain", !.drained = 0]
          /\ Moves("Attached", "Detaching")
          /\ UNCHANGED events
    /\ UNCHANGED <<fixed, lent, target, child, watched, real_size, resizes>>

-----------------------------------------------------------------------------
(* drain_output, in the loop or while detaching *)

Draining == session.stage \in {"output", "drain"} /\ session.drained < FramesPerTick

Shows(f, how) == watched' = IF f = "Watched" THEN how ELSE watched

OutputFrame ==
    /\ Draining /\ child = "reading"
    /\ \E f \in Output :
         /\ f = "Watched" => watched = "unread"
         /\ \/ Abandons(<< >>) /\ Shows(f, "settled")   \* write_stdout fails
            \/ /\ options.output = "FanoutToSurfaceAndStdout"
               /\ \/ /\ session' = [session EXCEPT !.drained = @ + 1]
                     /\ Shows(f, "fed")
                     /\ UNCHANGED events
                  \/ Abandons(<< >>) /\ Shows(f, "shown")   \* feed_output fails
            \/ /\ options.output = "StdoutOnlyThenReplay"
               /\ session' = [session EXCEPT !.drained = @ + 1, !.replay = @ \cup {f}]
               /\ Shows(f, "shown")
               /\ UNCHANGED events
    /\ UNCHANGED <<fixed, bridge, lent, target, child, user>>

\* Overflow and cursor requests are skipped; the exit code is only noted.
OtherFrame ==
    /\ Draining /\ child # "done"
    /\ child' \in IF child = "reading" THEN {"reading", "done"} ELSE {"done"}
    /\ session' = [session EXCEPT !.drained = @ + 1]
    /\ UNCHANGED <<fixed, bridge, events, lent, target, watched, user>>

ErrorFrame ==
    /\ Draining /\ child # "done"
    /\ child' = IF child = "reading" THEN "waiting" ELSE "done"
    /\ Abandons(<< >>)
    /\ UNCHANGED <<fixed, bridge, lent, target, watched, user>>

\* The queue is empty, or the tick's frames are used up.
TickEnds ==
    /\ session.stage = "output"
    /\ Goes("size")
    /\ UNCHANGED <<fixed, bridge, lent, target, child, watched, user>>

\* mutant: the detach drain waits for silence however long it takes
DrainPassWaitsForSilence ==
    /\ session.stage = "drain"
    /\ \/ /\ session.drained > 0
          /\ session' = [session EXCEPT !.drained = 0]
          /\ UNCHANGED events
       \/ session.drained = 0 /\ Goes("replay")
    /\ UNCHANGED <<fixed, bridge, lent, target, child, watched, user>>

\* drain_detaching_output: another pass, or it was quiet, or long, enough.
DrainPass ==
    /\ session.stage = "drain"
    /\ \/ /\ session.passes + 1 < DrainPasses
          /\ session' = [session EXCEPT !.drained = 0, !.passes = @ + 1]
          /\ UNCHANGED events
       \/ Goes("replay")
    /\ UNCHANGED <<fixed, bridge, lent, target, child, watched, user>>

-----------------------------------------------------------------------------
(* finish_detach *)

\* mutant: the buffer is cleared without having been fed
ReplayForgets ==
    /\ session.stage = "replay"
    /\ session' = [session EXCEPT !.stage = "restore_size", !.replay = {}]
    /\ UNCHANGED <<fixed, bridge, events, lent, target, child, watched, user>>

Replay ==
    /\ session.stage = "replay"
    /\ \/ /\ session' = [session EXCEPT !.stage = "restore_size", !.replay = {}]
          /\ watched' = IF "Watched" \in session.replay THEN "fed" ELSE watched
          /\ UNCHANGED events
       \/ session.replay # {} /\ Abandons(<< >>) /\ UNCHANGED watched   \* feed_output fails
    /\ UNCHANGED <<fixed, bridge, lent, target, child, user>>

\* mutant: restored_embedded_size is set before the resize has succeeded
RestoreSizeMarksFirst ==
    /\ session.stage = "restore_size"
    /\ \E done \in ResizesIfReal(EmbeddedSize) :
         /\ target' = done.target
         /\ session' = [session EXCEPT !.stage = IF done.ok THEN "hand_back" ELSE "abort",
                                       !.restored = TRUE]
         /\ Pushes(IF done.ok THEN done.log ELSE done.log \o <<Error>>)
    /\ UNCHANGED <<fixed, bridge, lent, child, watched, user>>

RestoreSize ==
    /\ session.stage = "restore_size"
    /\ \E done \in ResizesIfReal(EmbeddedSize) :
         /\ target' = done.target
         /\ session' = [session EXCEPT !.stage = IF done.ok THEN "hand_back" ELSE "abort",
                                       !.restored = done.ok]
         /\ Pushes(IF done.ok THEN done.log ELSE done.log \o <<Error>>)
    /\ UNCHANGED <<fixed, bridge, lent, child, watched, user>>

Popped(r) == IF r.popped THEN {"popped"} ELSE {}

\* guard.detach keeps the token when restoring fails.
HandBack ==
    /\ session.stage = "hand_back"
    /\ \E token \in guard : \E r \in Restores(term, token) :
         /\ term' = r.term
         /\ trouble' = trouble \cup Popped(r)
         /\ IF r.ok
            THEN /\ guard' = {}
                 /\ Moves("Detaching", "Embedded")
                 /\ session' = NoRun("UserChord")
                 /\ Pushes(<<AttachEnded>>)
            ELSE Abandons(<< >>) /\ UNCHANGED <<guard, bridge>>
    /\ UNCHANGED <<fixed, runs, target, child, watched, user>>

-----------------------------------------------------------------------------
(* best_effort_abort *)

\* guard.detach, once more if it fails, then disarm
DetachTwice(t, token) ==
    UNION {IF r.ok THEN {[term |-> r.term, log |-> << >>, trouble |-> {}]}
           ELSE {[term |-> s.term,
                  log |-> IF s.ok THEN <<Error>> ELSE <<Error, Error>>,
                  trouble |-> Popped(r) \cup (IF s.ok THEN {} ELSE {"gave_up"})]
                 : s \in Restores(r.term, token)}
           : r \in Restores(t, token)}

AbortSizes == IF session.restored THEN {[ok |-> TRUE, target |-> target, log |-> << >>]}
              ELSE ResizesIfReal(EmbeddedSize)

\* mutant: no AttachEnded event after an error
AbortEndsSilently ==
    /\ session.stage = "abort"
    /\ \E done \in AbortSizes, token \in guard : \E back \in DetachTwice(term, token) :
         /\ target' = done.target
         /\ term' = back.term
         /\ trouble' = trouble \cup back.trouble
         /\ session' = [NoRun("Error") EXCEPT !.resize_refused = ~done.ok]
         /\ Pushes(done.log \o (IF done.ok THEN << >> ELSE <<Error>>) \o back.log)
    /\ guard' = {}
    /\ ResetBridge
    /\ UNCHANGED <<fixed, runs, child, watched, user>>

Abort ==
    /\ session.stage = "abort"
    /\ \E done \in AbortSizes, token \in guard : \E back \in DetachTwice(term, token) :
         /\ target' = done.target
         /\ term' = back.term
         /\ trouble' = trouble \cup back.trouble
         /\ session' = [NoRun("Error") EXCEPT !.resize_refused = ~done.ok]
         /\ Pushes(done.log \o (IF done.ok THEN << >> ELSE <<Error>>) \o back.log
                   \o <<AttachEnded>>)
    /\ guard' = {}
    /\ ResetBridge
    /\ UNCHANGED <<fixed, runs, child, watched, user>>

-----------------------------------------------------------------------------
(* The user and the real terminal. *)

TypeChord ==
    /\ session.stage \in {"size", "stdin", "output"}
    /\ chord' = TRUE
    /\ UNCHANGED <<fixed, session, bridge, events, lent, target, child, watched,
                   real_size, resizes>>

ResizeTerminal ==
    /\ resizes < MaxResizes
    /\ resizes' = resizes + 1
    /\ real_size' \in Sizes \ {real_size}
    /\ UNCHANGED <<fixed, session, bridge, events, lent, target, child, watched, chord>>

Run == \/ EnterAttached \/ CheckSize \/ PollStdin
       \/ OutputFrame \/ OtherFrame \/ ErrorFrame \/ TickEnds \/ DrainPass
       \/ Replay \/ RestoreSize \/ HandBack \/ Abort

Next == \/ Refused \/ SuspendFails \/ Suspend
        \/ Run \/ TypeChord \/ ResizeTerminal

Safe == Init /\ [][Next]_vars

(***************************************************************************)
(* Fairness: run blocks its thread and runs on, and the calls it makes     *)
(* return.  Nothing is assumed of the child, the user or the terminal.     *)
(***************************************************************************)
Spec == Safe /\ WF_vars(Run)

-----------------------------------------------------------------------------
(* Properties. *)

\* The token of a run that finds the terminal as the host had set it up.
HostToken == Token(options.screen, host.raw, host.screen = "alternate")

\* However run ends, the host has its terminal back in the modes it had set,
\* as attach.rs demands of a control, after any failure of any other call.
\* Failures of the control itself leave this much: raw mode and screen are
\* the host's again unless the last attempt failed, or a failed clean-up was
\* ignored; the mouse modes, if in addition no suspend was cut short; and the
\* keyboard flags, of either screen, if besides no restore was repeated after
\* it had popped.  A policy that switches the screen does not give the
\* keyboard flags back even without a failure: nothing is said of them then.
HostHandedBack ==
    Idle /\ "gave_up" \notin trouble =>
        /\ term.raw = host.raw /\ term.screen = host.screen
        /\ "suspend_cut" \notin trouble => term.mouse = host.mouse
        /\ trouble = {} /\ ~SwitchesScreen(HostToken) => term.keyboard = host.keyboard

\* Afterwards PTY and surface have the embedded size again, wherever the run
\* broke off and however often the real terminal was resized - unless giving
\* it back was tried in the abort, too, and failed; and while the bridge is
\* attached the surface is fed at the size the child writes for.
SizesHandedBack ==
    IF Idle
    THEN session.outcome \in {"UserChord", "Error"} /\ ~session.resize_refused
         /\ options.resize = "UseRealTerminalSize"
         => target = [pty |-> EmbeddedSize, surface |-> EmbeddedSize]
    ELSE session.stage \notin {"enter", "abort"} /\ bridge = "Attached"
         /\ options.resize = "UseRealTerminalSize"
         => target = [pty |-> session.terminal_size, surface |-> session.terminal_size]

\* A run that ends by the chord has fed the surface every frame it put on the
\* real terminal, also what came while detaching, under both policies.
SurfaceSawAll == Idle /\ session.outcome = "UserChord" => watched # "shown"

\* The events of a run tell its story: AttachStarted comes first and is closed
\* by one AttachEnded, last; a failure is reported in between; and who follows
\* the Resized events knows the size the pane ends up with.
Told(kind) == {i \in DOMAIN events : events[i].kind = kind}
LastSize == IF Told("Resized") = {} THEN EmbeddedSize
            ELSE events[CHOOSE i \in Told("Resized") :
                          \A j \in Told("Resized") : j <= i].size
EventsTellOutcome ==
    Idle /\ session.outcome \in {"UserChord", "Error"} =>
        /\ Told("AttachStarted") = {1} /\ Told("AttachEnded") = {Len(events)}
        /\ session.outcome = "Error" <=> Told("Error") # {}
        /\ ~session.resize_refused => LastSize = EmbeddedSize

\* A session can be run again after every outcome that has not lost the host
\* its terminal (MayRun): none of the bridge's assertions ever fails, on no
\* path of errors.
BridgeNeverPanics == bridge # "Panicked"

\* A flooding child cannot keep the user attached, nor can its end: once the
\* chord is typed, run returns.
ChordReturns == chord ~> Idle
=============================================================================
