------------------------- MODULE BlockingAttachProofs -------------------------
(***************************************************************************)
(* Proofs about BlockingAttach, for all sizes, options, hosts and bounds.  *)
(*                                                                         *)
(* All five invariants speak of a run that is over, or of the bridge; the  *)
(* strengthening says of each stage what the abort may rely on there.      *)
(* The bridge is where the stage says (BridgeInv).  restored_embedded_size *)
(* is set only when the embedded size is back, so that the abort may skip  *)
(* the resize (SizeInv).  What went to stdout only is in the replay        *)
(* (OutputInv).  The events begin with AttachStarted, hold an Error if and *)
(* only if the run is aborting, and the last Resized tells the size        *)
(* wherever no resize will follow (EventInv).  And the lent terminal is in *)
(* a state from which Undo leads back to the host's modes (LentInv): raw   *)
(* mode on, the screen the host's unless the token says otherwise, the     *)
(* host's mouse modes saved, and, if the token switches no screen, one set *)
(* of keyboard flags above the host's.                                     *)
(***************************************************************************)
EXTENDS BlockingAttach, SequenceTheorems, WellFoundedInduction, TLAPS

Stages == {"idle", "enter", "size", "stdin", "output", "drain", "replay",
           "restore_size", "hand_back", "abort"}
Outcomes == {"none", "Refused", "UserChord", "Error"}
EventKinds == {"AttachStarted", "Resized", "Error", "AttachEnded"}
EventType == [kind : EventKinds, size : Sizes \cup {"none"}]

SessionType ==
    [ stage : Stages, outcome : Outcomes, terminal_size : Sizes, replay : SUBSET Output,
      drained : Nat, passes : Nat, restored : BOOLEAN, resize_refused : BOOLEAN ]

\* The stacks of both screens, and what one more push does to them.
Flags == {"host", "shell", "attach"}
KeyboardType == [Screens -> Seq(Flags)]
Pushed(keyboard, s) == [keyboard EXCEPT ![s] = Append(@, "attach")]

TermType ==
    [ raw : BOOLEAN, screen : Screens, keyboard : KeyboardType,
      mouse : {"host", "default", "capture"},
      saved_mouse : {"none", "host", "default", "capture"} ]

TypeOK ==
    /\ options \in Options /\ host \in Hosts
    /\ session \in SessionType
    /\ events \in Seq(EventType)
    /\ term \in TermType
    /\ target \in [pty : Sizes, surface : Sizes]
    /\ child \in {"reading", "waiting", "done"}
    /\ watched \in {"unread", "shown", "fed", "settled"}
    /\ real_size \in Sizes
    /\ chord \in BOOLEAN /\ runs \in Nat /\ resizes \in Nat
    /\ trouble \subseteq {"gave_up", "suspend_cut", "popped"}

\* The bridge's state in each stage, which its assertions demand.
BridgeInv ==
    bridge \in CASE session.stage = "idle"  -> {"Embedded"}
                 [] session.stage = "enter" -> {"Attaching"}
                 [] session.stage \in {"size", "stdin", "output"} -> {"Attached"}
                 [] session.stage \in {"drain", "replay", "restore_size", "hand_back"} ->
                        {"Detaching"}
                 [] session.stage = "abort" -> {"Attaching", "Attached", "Detaching"}

Embedded == [pty |-> EmbeddedSize, surface |-> EmbeddedSize]

SizeInv ==
    /\ SizesHandedBack
    /\ session.restored => session.stage \in {"hand_back", "abort"}
    /\ session.stage = "hand_back" => session.restored
    /\ session.restored /\ options.resize = "UseRealTerminalSize" => target = Embedded

OutputInv ==
    /\ SurfaceSawAll
    /\ ~Idle /\ session.stage # "abort" /\ watched = "shown" =>
          "Watched" \in session.replay
    /\ session.stage \in {"restore_size", "hand_back"} => session.replay = {}

\* The last Resized event of a log, if it has one, has this size.
Knows(log, size) ==
    /\ \A i \in 1 .. Len(log) :
          /\ log[i].kind = "Resized"
          /\ \A j \in 1 .. Len(log) : log[j].kind = "Resized" => j <= i
          => log[i].size = size
    /\ (\A i \in 1 .. Len(log) : log[i].kind # "Resized") => size = EmbeddedSize

EventInv ==
    /\ EventsTellOutcome
    /\ ~Idle =>
         /\ Len(events) >= 1 /\ events[1].kind = "AttachStarted"
         /\ \A i \in 2 .. Len(events) : events[i].kind \in {"Resized", "Error"}
         /\ session.stage = "abort" <=> \E i \in 1 .. Len(events) : events[i].kind = "Error"
         /\ options.resize = "KeepEmbeddedSize" \/ session.restored =>
               Knows(events, EmbeddedSize)

LentInv ==
    /\ HostHandedBack
    /\ host = HostTerminal(host.raw, host.screen)
    /\ IF Idle THEN guard = {} ELSE guard = {HostToken}
    /\ ~Idle =>
         /\ "gave_up" \notin trouble
         /\ term.raw = TRUE
         /\ ~HostToken.left_host_alternate_screen
            /\ ~HostToken.entered_fresh_alternate_screen => term.screen = host.screen
         /\ "suspend_cut" \notin trouble => term.saved_mouse = "host"
         /\ trouble = {} /\ ~SwitchesScreen(HostToken) =>
               term.keyboard = Pushed(host.keyboard, host.screen)

IInv == /\ TypeOK /\ BridgeInv /\ SizeInv /\ OutputInv /\ EventInv /\ LentInv

-----------------------------------------------------------------------------
(* The control sequences: what is on the terminal when a write breaks off. *)

TokenType == [ raw_mode_was_enabled : BOOLEAN, left_host_alternate_screen : BOOLEAN,
               entered_fresh_alternate_screen : BOOLEAN ]

\* The recursive function After satisfies its equation, for the lengths that
\* occur: the function with the values computed one by one does.
LEMMA AfterEquation ==
    ASSUME NEW t, NEW s, Len(s) \in 0 .. 4
    PROVE  /\ After(t, s)[0] = t
           /\ \A n \in 1 .. Len(s) : After(t, s)[n] = Apply(After(t, s)[n - 1], s[n])
<1> DEFINE Eq(f) == f = [n \in 0 .. Len(s) |->
                           IF n = 0 THEN t ELSE Apply(f[n - 1], s[n])]
           one   == Apply(t, s[1])
           two   == Apply(one, s[2])
           three == Apply(two, s[3])
           four  == Apply(three, s[4])
           f     == [n \in 0 .. Len(s) |->
                       IF n = 0 THEN t ELSE IF n = 1 THEN one ELSE IF n = 2 THEN two
                       ELSE IF n = 3 THEN three ELSE four]
           g     == [n \in 0 .. Len(s) |-> IF n = 0 THEN t ELSE Apply(f[n - 1], s[n])]
<1>1. ASSUME NEW n \in 0 .. Len(s)
      PROVE  f[n] = g[n]
  <2>1. n = 0 \/ n = 1 \/ n = 2 \/ n = 3 \/ n = 4
    <3> HIDE DEF f, g
    <3> DEFINE l == Len(s)
    <3>1. l \in 0 .. 4 /\ n \in 0 .. l
      OBVIOUS
    <3> HIDE DEF l
    <3>2. QED
      BY <3>1
  <2>2. CASE n = 0
    BY <2>2
  <2>3. CASE n = 1
    BY <2>3
  <2>4. CASE n = 2
    BY <2>4
  <2>5. CASE n = 3
    BY <2>5
  <2>6. CASE n = 4
    BY <2>6
  <2>7. QED
    BY <2>1, <2>2, <2>3, <2>4, <2>5, <2>6
<1>2. Eq(f)
  <2>1. f = g
    <3> HIDE DEF one, two, three, four
    <3>1. f = [n \in 0 .. Len(s) |-> f[n]] /\ g = [n \in 0 .. Len(s) |-> g[n]]
      OBVIOUS
    <3> HIDE DEF f, g
    <3>2. QED
      BY <1>1, <3>1
  <2>2. QED
    BY <2>1
<1>3. After(t, s) = CHOOSE h : Eq(h)
  BY DEF After
<1>4. Eq(After(t, s))
  <2> HIDE DEF Eq, f
  <2>1. QED
    BY <1>2, <1>3
<1>5. QED
  BY <1>4

\* What each sequence of a suspend or restore does to the terminal.
LEMMA ApplyPush ==
    ASSUME NEW t \in TermType
    PROVE  LET u == Apply(t, "PushKeyboard")
           IN  /\ u \in TermType /\ u.raw = t.raw /\ u.screen = t.screen
               /\ u.mouse = t.mouse /\ u.saved_mouse = t.saved_mouse
               /\ u.keyboard = Pushed(t.keyboard, t.screen)
<1> DEFINE k == Pushed(t.keyboard, t.screen)
<1>1. k \in KeyboardType
  BY DEF TermType, KeyboardType, Flags, Pushed
<1>2. Apply(t, "PushKeyboard") = [t EXCEPT !.keyboard = k]
  BY DEF Apply, Pushed, TermType, KeyboardType
<1> HIDE DEF k
<1>3. Apply(t, "PushKeyboard").keyboard = k
  BY <1>2 DEF TermType
<1>4. QED
  BY <1>1, <1>2, <1>3 DEF TermType, k

\* A pop undoes a push.
LEMMA PopAfterPush ==
    ASSUME NEW stack \in Seq(Flags)
    PROVE  Append(stack, "attach") # << >> /\ Front(Append(stack, "attach")) = stack
<1> DEFINE s == Append(stack, "attach")
<1>1. s \in Seq(Flags) /\ Len(s) = Len(stack) + 1 /\ Len(stack) \in Nat
      /\ \A i \in 1 .. Len(stack) : s[i] = stack[i]
  BY DEF Flags
<1> HIDE DEF s
<1>2. Front(s) = SubSeq(s, 1, Len(stack))
  BY <1>1 DEF Front
<1>3. /\ Front(s) \in Seq(Flags) /\ Len(Front(s)) = Len(stack)
      /\ \A i \in 1 .. Len(stack) : Front(s)[i] = stack[i]
  BY <1>1, <1>2, SubSeqProperties
<1>4. Front(s) = stack
  BY <1>3, SeqEqual
<1>5. s # << >>
  BY <1>1
<1>6. QED
  BY <1>4, <1>5 DEF s

\* PopKeyboardEnhancementFlags takes the topmost flags off the stack of the
\* screen shown, and leaves the rest of the terminal alone.
LEMMA ApplyPop ==
    ASSUME NEW t \in TermType
    PROVE  LET u == Apply(t, "PopKeyboard")
           IN  /\ u \in TermType /\ u.raw = t.raw /\ u.screen = t.screen
               /\ u.mouse = t.mouse /\ u.saved_mouse = t.saved_mouse
               /\ \A k \in KeyboardType : t.keyboard = Pushed(k, t.screen) => u.keyboard = k
<1> DEFINE stack == t.keyboard[t.screen]
           top   == IF stack = << >> THEN stack ELSE Front(stack)
           k     == [t.keyboard EXCEPT ![t.screen] = top]
<1>1. /\ stack \in Seq(Flags) /\ t.screen \in Screens
      /\ t.keyboard \in [Screens -> Seq(Flags)]
  BY DEF TermType, KeyboardType
<1>2. Apply(t, "PopKeyboard") = [t EXCEPT !.keyboard = k]
  BY <1>1 DEF Apply, TermType
<1>3. top \in Seq(Flags)
  <2> HIDE DEF stack
  <2>1. CASE stack # << >>
    <3>1. Len(stack) \in Nat /\ \A i \in 1 .. Len(stack) - 1 : stack[i] \in Flags
      BY <1>1
    <3>2. Front(stack) \in Seq(Flags)
      BY <1>1, <3>1, SubSeqProperties DEF Front
    <3>3. QED
      BY <2>1, <3>2
  <2>2. QED
    BY <1>1, <2>1
<1>4. k \in KeyboardType
  <2> HIDE DEF top
  <2>1. QED
    BY <1>1, <1>3 DEF KeyboardType
<1>5. ASSUME NEW before \in KeyboardType, t.keyboard = Pushed(before, t.screen)
      PROVE  k = before
  <2>1. stack = Append(before[t.screen], "attach") /\ before[t.screen] \in Seq(Flags)
    BY <1>1, <1>5 DEF Pushed, KeyboardType
  <2>2. top = before[t.screen]
    BY <2>1, PopAfterPush
  <2>3. \A s \in Screens : k[s] = before[s]
    <3> HIDE DEF top
    <3>1. QED
      BY <1>1, <1>5, <2>2 DEF Pushed, KeyboardType
  <2> HIDE DEF k
  <2>4. QED
    BY <1>4, <2>3 DEF KeyboardType
<1> HIDE DEF k
<1>6. Apply(t, "PopKeyboard").keyboard = k
  BY <1>2 DEF TermType
<1>7. QED
  BY <1>2, <1>4, <1>5, <1>6 DEF TermType

\* What saving, enabling and restoring the mouse modes do to a terminal; restoring
\* brings the host's modes back if they are the saved ones.
LEMMA ApplyMouse ==
    ASSUME NEW t \in TermType
    PROVE  /\ LET u == Apply(t, "SaveMouse")
              IN  /\ u \in TermType /\ u.raw = t.raw /\ u.screen = t.screen
                  /\ u.mouse = t.mouse /\ u.saved_mouse = t.mouse
                  /\ u.keyboard = t.keyboard
           /\ LET u == Apply(t, "EnableMouse")
              IN  /\ u \in TermType /\ u.raw = t.raw /\ u.screen = t.screen
                  /\ u.mouse = "capture" /\ u.saved_mouse = t.saved_mouse
                  /\ u.keyboard = t.keyboard
           /\ LET u == Apply(t, "RestoreMouse")
              IN  /\ u \in TermType /\ u.raw = t.raw /\ u.screen = t.screen
                  /\ u.saved_mouse = t.saved_mouse /\ u.keyboard = t.keyboard
                  /\ t.saved_mouse = "host" => u.mouse = "host"
<1>1. LET u == Apply(t, "SaveMouse")
      IN  /\ u \in TermType /\ u.raw = t.raw /\ u.screen = t.screen
          /\ u.mouse = t.mouse /\ u.saved_mouse = t.mouse /\ u.keyboard = t.keyboard
  BY DEF Apply, TermType
<1>2. LET u == Apply(t, "EnableMouse")
      IN  /\ u \in TermType /\ u.raw = t.raw /\ u.screen = t.screen
          /\ u.mouse = "capture" /\ u.saved_mouse = t.saved_mouse
          /\ u.keyboard = t.keyboard
  BY DEF Apply, TermType
<1>3. LET u == Apply(t, "RestoreMouse")
      IN  /\ u \in TermType /\ u.raw = t.raw /\ u.screen = t.screen
          /\ u.saved_mouse = t.saved_mouse /\ u.keyboard = t.keyboard
          /\ t.saved_mouse = "host" => u.mouse = "host"
  BY DEF Apply, TermType
<1>4. QED
  BY <1>1, <1>2, <1>3

\* Entering and leaving the alternate screen change the screen alone.
LEMMA ApplyScreen ==
    ASSUME NEW t \in TermType,
           NEW c \in {"EnterAlternate", "LeaveAlternate"}
    PROVE  LET u == Apply(t, c)
           IN  /\ u \in TermType /\ u.raw = t.raw /\ u.mouse = t.mouse
               /\ u.saved_mouse = t.saved_mouse /\ u.keyboard = t.keyboard
               /\ u.screen = IF c = "EnterAlternate" THEN "alternate" ELSE "main"
BY DEF Apply, TermType, Screens

\* retrying_write_all: how much was sent, and what the terminal has made of it.
LEMMA WrittenIs ==
    ASSUME NEW t, NEW s, Len(s) \in Nat, NEW w \in Written(t, s)
    PROVE  /\ w.ok \in BOOLEAN /\ w.sent \in 0 .. Len(s)
           /\ w.ok => w.sent = Len(s)
           /\ w.term = After(t, s)[w.sent]
<1>1. CASE w = [ok |-> TRUE, sent |-> Len(s), term |-> After(t, s)[Len(s)]]
  BY <1>1
<1>2. CASE \E n \in 0 .. Len(s) : w = [ok |-> FALSE, sent |-> n, term |-> After(t, s)[n]]
  <2>1. PICK n \in 0 .. Len(s) : w = [ok |-> FALSE, sent |-> n, term |-> After(t, s)[n]]
    BY <1>2
  <2>2. QED
    BY <2>1
<1>3. QED
  BY <1>1, <1>2, Zenon DEF Written

\* The modes a terminal keeps through a suspend that is undone, and back.
Screen(t, token) ==
    IF token.left_host_alternate_screen THEN "alternate"
    ELSE IF token.entered_fresh_alternate_screen THEN "main"
    ELSE t.screen

\* A write of Undo: the screen is the host's and the mouse modes are those
\* saved when it is complete; the keyboard flags are popped as the second step.
LEMMA WrittenUndo ==
    ASSUME NEW t \in TermType, NEW token \in TokenType,
           ~(token.left_host_alternate_screen /\ token.entered_fresh_alternate_screen),
           NEW w \in Written(t, Undo(token))
    PROVE  /\ w.ok \in BOOLEAN /\ w.sent \in Nat /\ w.term \in TermType
           /\ w.term.raw = t.raw /\ w.term.saved_mouse = t.saved_mouse
           /\ ~token.left_host_alternate_screen /\ ~token.entered_fresh_alternate_screen
                 => w.term.screen = t.screen
           /\ w.sent < 2 => w.term.keyboard = t.keyboard
           /\ w.ok => /\ w.sent >= 2
                      /\ w.term.screen = Screen(t, token)
                      /\ t.saved_mouse = "host" => w.term.mouse = "host"
                      /\ \A k \in KeyboardType :
                            t.keyboard = Pushed(k, t.screen) => w.term.keyboard = k
<1> DEFINE s   == Undo(token)
           one == Apply(t, "RestoreMouse")
           two == Apply(one, "PopKeyboard")
           out == IF token.left_host_alternate_screen THEN "EnterAlternate"
                  ELSE "LeaveAlternate"
           switched == token.left_host_alternate_screen
                       \/ token.entered_fresh_alternate_screen
<1>1. /\ Len(s) = IF switched THEN 3 ELSE 2
      /\ s[1] = "RestoreMouse" /\ s[2] = "PopKeyboard"
      /\ switched => s[3] = out
  <2>1. CASE token.left_host_alternate_screen
    BY <2>1 DEF Undo
  <2>2. CASE token.entered_fresh_alternate_screen
    BY <2>2 DEF Undo
  <2>3. CASE ~switched
    BY <2>3 DEF Undo
  <2>4. QED
    BY <2>1, <2>2, <2>3
<1>2. /\ After(t, s)[0] = t /\ After(t, s)[1] = one /\ After(t, s)[2] = two
      /\ switched => After(t, s)[3] = Apply(two, out)
  <2> HIDE DEF s
  <2>1. Len(s) \in 0 .. 4
    BY <1>1
  <2>2. /\ After(t, s)[0] = t
        /\ \A n \in 1 .. Len(s) : After(t, s)[n] = Apply(After(t, s)[n - 1], s[n])
    BY <2>1, AfterEquation
  <2>3. After(t, s)[1] = one
    BY <1>1, <2>2
  <2>4. After(t, s)[2] = two
    BY <1>1, <2>2, <2>3
  <2>5. switched => After(t, s)[3] = Apply(two, out)
    BY <1>1, <2>2, <2>4
  <2>6. QED
    BY <2>2, <2>3, <2>4, <2>5
<1>3. /\ w.ok \in BOOLEAN /\ w.sent \in 0 .. Len(s) /\ (w.ok => w.sent = Len(s))
      /\ w.term = After(t, s)[w.sent]
  <2>1. Len(s) \in Nat
    BY <1>1
  <2>2. QED
    BY <2>1, WrittenIs
<1>4. /\ one \in TermType /\ one.raw = t.raw /\ one.screen = t.screen
      /\ one.saved_mouse = t.saved_mouse /\ one.keyboard = t.keyboard
      /\ t.saved_mouse = "host" => one.mouse = "host"
  BY ApplyMouse
<1>5. /\ two \in TermType /\ two.raw = t.raw /\ two.screen = t.screen
      /\ two.saved_mouse = t.saved_mouse /\ two.mouse = one.mouse
      /\ \A k \in KeyboardType : t.keyboard = Pushed(k, t.screen) => two.keyboard = k
  <2> HIDE DEF one
  <2>1. QED
    BY <1>4, ApplyPop
<1> DEFINE three == Apply(two, out)
<1>6. /\ three \in TermType /\ three.raw = t.raw /\ three.mouse = one.mouse
      /\ three.saved_mouse = t.saved_mouse /\ three.keyboard = two.keyboard
      /\ switched => three.screen = Screen(t, token)
  <2> HIDE DEF one, two
  <2>1. QED
    BY <1>5, ApplyScreen DEF Screen
<1> HIDE DEF s, one, two, three
<1>7. CASE w.sent = 0
  BY <1>1, <1>2, <1>3, <1>7
<1>8. CASE w.sent = 1
  BY <1>1, <1>2, <1>3, <1>4, <1>8
<1>9. CASE w.sent = 2
  BY <1>1, <1>2, <1>3, <1>4, <1>5, <1>9 DEF Screen
<1>10. CASE w.sent = 3
  <2>1. switched /\ w.term = three
    BY <1>1, <1>2, <1>3, <1>10 DEF three
  <2>2. QED
    BY <1>3, <1>4, <1>5, <1>6, <1>10, <2>1
<1>11. QED
  BY <1>1, <1>3, <1>7, <1>8, <1>9, <1>10

\* A write of Enter: the screen moves only if the token says so; when all is
\* sent, the mouse modes are saved and one set of keyboard flags is pushed.
LEMMA WrittenEnter ==
    ASSUME NEW t \in TermType, NEW token \in TokenType,
           ~(token.left_host_alternate_screen /\ token.entered_fresh_alternate_screen),
           NEW w \in Written(t, Enter(token))
    PROVE  /\ w.ok \in BOOLEAN /\ w.sent \in 0 .. Len(Enter(token))
           /\ w.term \in TermType /\ w.term.raw = t.raw
           /\ ~token.left_host_alternate_screen /\ ~token.entered_fresh_alternate_screen
                 => w.term.screen = t.screen
           /\ w.ok => w.sent = Len(Enter(token))
           /\ w.sent = Len(Enter(token)) =>
                 /\ w.term.saved_mouse = t.mouse
                 /\ w.term.keyboard = Pushed(t.keyboard, t.screen)
<1> DEFINE s     == Enter(token)
           one   == Apply(t, "PushKeyboard")
           two   == Apply(one, "SaveMouse")
           three == Apply(two, "EnableMouse")
           in    == IF token.left_host_alternate_screen THEN "LeaveAlternate"
                    ELSE "EnterAlternate"
           switched == token.left_host_alternate_screen
                       \/ token.entered_fresh_alternate_screen
<1>1. /\ Len(s) = IF switched THEN 4 ELSE 3
      /\ s[1] = "PushKeyboard" /\ s[2] = "SaveMouse" /\ s[3] = "EnableMouse"
      /\ switched => s[4] = in
  <2>1. CASE token.left_host_alternate_screen
    BY <2>1 DEF Enter
  <2>2. CASE token.entered_fresh_alternate_screen
    BY <2>2 DEF Enter
  <2>3. CASE ~switched
    BY <2>3 DEF Enter
  <2>4. QED
    BY <2>1, <2>2, <2>3
<1>2. /\ After(t, s)[0] = t /\ After(t, s)[1] = one /\ After(t, s)[2] = two
      /\ After(t, s)[3] = three
      /\ switched => After(t, s)[4] = Apply(three, in)
  <2> HIDE DEF s
  <2>1. Len(s) \in 0 .. 4
    BY <1>1
  <2>2. /\ After(t, s)[0] = t
        /\ \A n \in 1 .. Len(s) : After(t, s)[n] = Apply(After(t, s)[n - 1], s[n])
    BY <2>1, AfterEquation
  <2>3. After(t, s)[1] = one
    BY <1>1, <2>2
  <2>4. After(t, s)[2] = two
    BY <1>1, <2>2, <2>3
  <2>5. After(t, s)[3] = three
    BY <1>1, <2>2, <2>4
  <2>6. switched => After(t, s)[4] = Apply(three, in)
    BY <1>1, <2>2, <2>5
  <2>7. QED
    BY <2>2, <2>3, <2>4, <2>5, <2>6
<1>3. /\ w.ok \in BOOLEAN /\ w.sent \in 0 .. Len(s) /\ (w.ok => w.sent = Len(s))
      /\ w.term = After(t, s)[w.sent]
  <2>1. Len(s) \in Nat
    BY <1>1
  <2>2. QED
    BY <2>1, WrittenIs
<1>4. /\ one \in TermType /\ one.raw = t.raw /\ one.screen = t.screen
      /\ one.mouse = t.mouse
      /\ one.keyboard = Pushed(t.keyboard, t.screen)
  BY ApplyPush
<1>5. /\ two \in TermType /\ two.raw = t.raw /\ two.screen = t.screen
      /\ two.saved_mouse = t.mouse /\ two.keyboard = one.keyboard
  <2> HIDE DEF one
  <2>1. QED
    BY <1>4, ApplyMouse
<1>6. /\ three \in TermType /\ three.raw = t.raw /\ three.screen = t.screen
      /\ three.saved_mouse = t.mouse /\ three.keyboard = one.keyboard
  <2> HIDE DEF one, two
  <2>1. QED
    BY <1>5, ApplyMouse
<1> DEFINE four == Apply(three, in)
<1>7. /\ four \in TermType /\ four.raw = t.raw
      /\ four.saved_mouse = t.mouse /\ four.keyboard = one.keyboard
  <2> HIDE DEF one, two, three
  <2>1. QED
    BY <1>6, ApplyScreen
<1> HIDE DEF s, one, two, three, four
<1>8. CASE w.sent \in {0, 1, 2}
  BY <1>1, <1>2, <1>3, <1>4, <1>5, <1>8 DEF s
<1>9. CASE w.sent = 3
  BY <1>1, <1>2, <1>3, <1>4, <1>6, <1>9 DEF s
<1>10. CASE w.sent = 4
  <2>1. switched /\ w.term = four
    BY <1>1, <1>2, <1>3, <1>10 DEF four
  <2>2. QED
    BY <1>1, <1>3, <1>4, <1>7, <1>10, <2>1 DEF s
<1>11. QED
  BY <1>1, <1>3, <1>8, <1>9, <1>10

-----------------------------------------------------------------------------
(* Lending the terminal and taking it back. *)

\* The terminal as lent, and as handed back, given the trouble there has been.
Lent(t, troubles) ==
    /\ t.raw = TRUE
    /\ ~HostToken.left_host_alternate_screen
       /\ ~HostToken.entered_fresh_alternate_screen => t.screen = host.screen
    /\ "suspend_cut" \notin troubles => t.saved_mouse = "host"
    /\ troubles = {} /\ ~SwitchesScreen(HostToken) =>
          t.keyboard = Pushed(host.keyboard, host.screen)

Given(t, troubles) ==
    /\ t.raw = host.raw /\ t.screen = host.screen
    /\ "suspend_cut" \notin troubles => t.mouse = "host"
    /\ troubles = {} /\ ~SwitchesScreen(HostToken) => t.keyboard = host.keyboard

\* The host terminal, and the token of a suspend that finds it as it was.
LEMMA HostFacts ==
    ASSUME host \in Hosts
    PROVE  /\ host = HostTerminal(host.raw, host.screen)
           /\ host.raw \in BOOLEAN /\ host.screen \in {"main", "alternate"}
           /\ host.mouse = "host" /\ host.keyboard \in KeyboardType
           /\ host \in TermType
<1>1. PICK raw \in BOOLEAN, screen \in Screens : host = HostTerminal(raw, screen)
  BY BlockingAttachAssumption
<1> DEFINE k == [s \in Screens |-> IF s = screen THEN <<"host">>
                                  ELSE IF s = "main" THEN <<"shell">> ELSE << >>]
<1>2. k \in KeyboardType
  <2>1. /\ <<"host">> \in Seq(Flags) /\ <<"shell">> \in Seq(Flags)
        /\ << >> \in Seq(Flags)
    BY DEF Flags
  <2>2. QED
    BY <2>1 DEF KeyboardType
<1>3. host = [raw |-> raw, screen |-> screen, keyboard |-> k,
              mouse |-> "host", saved_mouse |-> "none"]
  BY <1>1 DEF HostTerminal
<1> HIDE DEF k
<1>4. /\ host.raw = raw /\ host.screen = screen /\ host.keyboard = k
      /\ host.mouse = "host" /\ host \in TermType
  BY <1>2, <1>3 DEF TermType
<1>5. QED
  BY <1>1, <1>2, <1>4 DEF Screens

\* A suspend token never says both that the host's screen was left and that a
\* fresh one was entered, and what it says agrees with the host's terminal.
LEMMA TokenFacts ==
    ASSUME host \in Hosts
    PROVE  /\ HostToken \in TokenType
           /\ HostToken.raw_mode_was_enabled = host.raw
           /\ ~(HostToken.left_host_alternate_screen
                /\ HostToken.entered_fresh_alternate_screen)
           /\ HostToken.left_host_alternate_screen => host.screen = "alternate"
           /\ HostToken.entered_fresh_alternate_screen => host.screen = "main"
BY HostFacts DEF HostToken, Token, TokenType

\* Raw mode, switched back.
LEMMA RawModeBackIs ==
    ASSUME host \in Hosts, NEW t \in TermType, t.raw = TRUE,
           NEW r \in RawModeBack(t, HostToken)
    PROVE  /\ r.ok \in BOOLEAN /\ r.term \in TermType
           /\ r.term.screen = t.screen /\ r.term.mouse = t.mouse
           /\ r.term.saved_mouse = t.saved_mouse /\ r.term.keyboard = t.keyboard
           /\ r.ok => r.term.raw = host.raw
           /\ ~r.ok => r.term = t
<1>1. host.raw \in BOOLEAN /\ HostToken.raw_mode_was_enabled = host.raw
  BY HostFacts, TokenFacts
<1>2. \/ host.raw /\ r = [ok |-> TRUE, term |-> t]
      \/ ~host.raw /\ r = [ok |-> TRUE, term |-> [t EXCEPT !.raw = FALSE]]
      \/ r = [ok |-> FALSE, term |-> t]
  BY <1>1 DEF RawModeBack
<1>3. CASE host.raw /\ r = [ok |-> TRUE, term |-> t]
  BY <1>3
<1>4. CASE ~host.raw /\ r = [ok |-> TRUE, term |-> [t EXCEPT !.raw = FALSE]]
  BY <1>1, <1>4 DEF TermType
<1>5. CASE r = [ok |-> FALSE, term |-> t]
  BY <1>5
<1>6. QED
  BY <1>2, <1>3, <1>4, <1>5

\* restore_after_attach: when it succeeds the terminal is handed back; when it
\* fails it is lent still, and it is known whether the keyboard was popped.
LEMMA RestoresIs ==
    ASSUME host \in Hosts, NEW t \in TermType, NEW troubles, Lent(t, troubles),
           NEW r \in Restores(t, HostToken)
    PROVE  /\ r.ok \in BOOLEAN /\ r.term \in TermType
           /\ r.ok => Given(r.term, troubles) /\ Popped(r) = {}
           /\ ~r.ok => Lent(r.term, troubles \cup Popped(r))
<1> DEFINE token == HostToken
<1>1. PICK w \in Written(t, Undo(token)) :
        r \in IF ~w.ok THEN {[ok |-> FALSE, term |-> w.term, popped |-> w.sent >= 2]}
              ELSE {[ok |-> raw.ok, term |-> raw.term, popped |-> ~raw.ok]
                    : raw \in RawModeBack(w.term, token)}
  BY Zenon DEF Restores
<1>2. /\ w.ok \in BOOLEAN /\ w.sent \in Nat /\ w.term \in TermType
      /\ w.term.raw = t.raw /\ w.term.saved_mouse = t.saved_mouse
      /\ ~token.left_host_alternate_screen /\ ~token.entered_fresh_alternate_screen
            => w.term.screen = t.screen
      /\ w.sent < 2 => w.term.keyboard = t.keyboard
      /\ w.ok => /\ w.sent >= 2
                 /\ w.term.screen = Screen(t, token)
                 /\ t.saved_mouse = "host" => w.term.mouse = "host"
                 /\ \A k \in KeyboardType :
                       t.keyboard = Pushed(k, t.screen) => w.term.keyboard = k
  BY TokenFacts, WrittenUndo
<1>3. CASE ~w.ok
  <2>1. r = [ok |-> FALSE, term |-> w.term, popped |-> w.sent >= 2]
    BY <1>1, <1>3
  <2>2. r.ok = FALSE /\ r.term = w.term /\ (r.popped <=> w.sent >= 2)
    BY <2>1
  <2>3. w.sent < 2 \/ Popped(r) = {"popped"}
    BY <1>2, <2>2 DEF Popped
  <2>4. QED
    BY <1>2, <2>2, <2>3 DEF Lent
<1>4. CASE w.ok
  <2>1. PICK raw \in RawModeBack(w.term, token) :
          r = [ok |-> raw.ok, term |-> raw.term, popped |-> ~raw.ok]
    BY <1>1, <1>4
  <2>2. /\ raw.ok \in BOOLEAN /\ raw.term \in TermType
        /\ raw.term.screen = w.term.screen /\ raw.term.mouse = w.term.mouse
        /\ raw.term.saved_mouse = w.term.saved_mouse
        /\ raw.term.keyboard = w.term.keyboard
        /\ raw.ok => raw.term.raw = host.raw
        /\ ~raw.ok => raw.term = w.term
    BY <1>2, RawModeBackIs DEF Lent
  <2>3. r.ok = raw.ok /\ r.term = raw.term /\ (r.popped <=> ~raw.ok)
    BY <2>1
  <2>4. CASE raw.ok
    <3>1. Popped(r) = {}
      BY <2>3, <2>4 DEF Popped
    <3>2. Screen(t, token) = host.screen
      BY TokenFacts DEF Screen, Lent
    <3>3. ASSUME troubles = {}, ~SwitchesScreen(token)
          PROVE  raw.term.keyboard = host.keyboard
      <4>1. t.screen = host.screen
        BY <3>3 DEF Lent, SwitchesScreen
      <4>2. t.keyboard = Pushed(host.keyboard, t.screen)
        BY <3>3, <4>1 DEF Lent
      <4>3. QED
        BY <1>2, <1>4, <2>2, <4>2, HostFacts
    <3>4. QED
      BY <1>2, <1>4, <2>2, <2>3, <2>4, <3>1, <3>2, <3>3 DEF Lent, Given
  <2>5. CASE ~raw.ok
    <3>1. Popped(r) = {"popped"}
      BY <2>3, <2>5 DEF Popped
    <3>2. QED
      BY <1>2, <1>4, <2>2, <2>3, <2>5, <3>1 DEF Lent
  <2>6. QED
    BY <2>2, <2>4, <2>5
<1>5. QED
  BY <1>2, <1>3, <1>4

\* best_effort_abort: guard.detach, and once more.
LEMMA DetachTwiceIs ==
    ASSUME host \in Hosts, NEW t \in TermType, NEW troubles, Lent(t, troubles),
           NEW back \in DetachTwice(t, HostToken)
    PROVE  /\ back.term \in TermType
           /\ back.log \in {<< >>, <<Error>>, <<Error, Error>>}
           /\ back.trouble \subseteq {"gave_up", "popped"}
           /\ "gave_up" \notin troubles \cup back.trouble =>
                 Given(back.term, troubles \cup back.trouble)
<1> DEFINE token == HostToken
<1>1. PICK r \in Restores(t, token) :
        back \in IF r.ok THEN {[term |-> r.term, log |-> << >>, trouble |-> {}]}
                 ELSE {[term |-> s.term,
                        log |-> IF s.ok THEN <<Error>> ELSE <<Error, Error>>,
                        trouble |-> Popped(r) \cup (IF s.ok THEN {} ELSE {"gave_up"})]
                       : s \in Restores(r.term, token)}
  BY Zenon DEF DetachTwice
<1>2. /\ r.ok \in BOOLEAN /\ r.term \in TermType
      /\ r.ok => Given(r.term, troubles)
      /\ ~r.ok => Lent(r.term, troubles \cup Popped(r))
  BY RestoresIs
<1>3. CASE r.ok
  <2>1. back = [term |-> r.term, log |-> << >>, trouble |-> {}]
    BY <1>1, <1>3
  <2>2. back.term = r.term /\ back.log = << >> /\ back.trouble = {}
    BY <2>1
  <2>3. QED
    BY <1>2, <1>3, <2>2
<1>4. CASE ~r.ok
  <2>1. PICK s \in Restores(r.term, token) :
          back = [term |-> s.term,
                  log |-> IF s.ok THEN <<Error>> ELSE <<Error, Error>>,
                  trouble |-> Popped(r) \cup (IF s.ok THEN {} ELSE {"gave_up"})]
    BY <1>1, <1>4
  <2>2. /\ s.ok \in BOOLEAN /\ s.term \in TermType
        /\ s.ok => Given(s.term, troubles \cup Popped(r))
    BY <1>2, <1>4, RestoresIs
  <2>3. /\ back.term = s.term
        /\ back.log = IF s.ok THEN <<Error>> ELSE <<Error, Error>>
        /\ back.trouble = Popped(r) \cup (IF s.ok THEN {} ELSE {"gave_up"})
    BY <2>1
  <2>4. Popped(r) \subseteq {"popped"}
    BY DEF Popped
  <2>5. CASE s.ok
    <3>1. back.trouble = Popped(r)
      BY <2>3, <2>5
    <3>2. QED
      BY <2>2, <2>3, <2>4, <2>5, <3>1
  <2>6. CASE ~s.ok
    BY <2>2, <2>3, <2>4, <2>6
  <2>7. QED
    BY <2>2, <2>5, <2>6
<1>5. QED
  BY <1>2, <1>3, <1>4

\* suspend_for_attach: when it succeeds the terminal is lent; when it fails,
\* and its clean-up did not fail too, the host still has it.
LEMMA SuspendsIs ==
    ASSUME host \in Hosts, term \in TermType, Given(term, trouble),
           NEW s \in Suspends(term, options.screen, host.screen = "alternate")
    PROVE  /\ s.ok \in BOOLEAN /\ s.term \in TermType
           /\ s.ok => s.token = HostToken /\ Lent(s.term, trouble)
           /\ ~s.ok /\ "gave_up" \notin Noted(s) => Given(s.term, Noted(s))
<1> DEFINE token == HostToken
           raw   == [term EXCEPT !.raw = TRUE]
<1>1. Token(options.screen, term.raw, host.screen = "alternate") = token
  BY DEF HostToken, Given
<1>2. \/ s = NotSuspended(term, token, FALSE, TRUE)
      \/ \E w \in Written(raw, Enter(token)) :
           s \in IF w.ok THEN {Suspended(w.term, token)} ELSE CleanedUp(w, token)
  BY <1>1, Zenon DEF Suspends
<1>3. /\ raw \in TermType /\ raw.raw = TRUE /\ raw.screen = term.screen
      /\ raw.mouse = term.mouse /\ raw.keyboard = term.keyboard
  BY DEF TermType
<1>4. CASE s = NotSuspended(term, token, FALSE, TRUE)
  <2>1. /\ s.ok = FALSE /\ s.term = term /\ s.cut = FALSE /\ s.tidy = TRUE
    BY <1>4 DEF NotSuspended
  <2>2. Noted(s) = trouble
    BY <2>1 DEF Noted
  <2>3. QED
    BY <2>1, <2>2
<1>5. ASSUME NEW w \in Written(raw, Enter(token)),
             s \in IF w.ok THEN {Suspended(w.term, token)} ELSE CleanedUp(w, token)
      PROVE  /\ s.ok \in BOOLEAN /\ s.term \in TermType
             /\ s.ok => s.token = HostToken /\ Lent(s.term, trouble)
             /\ ~s.ok /\ "gave_up" \notin Noted(s) => Given(s.term, Noted(s))
  <2> HIDE DEF raw
  <2>1. /\ w.ok \in BOOLEAN /\ w.sent \in 0 .. Len(Enter(token))
        /\ w.term \in TermType /\ w.term.raw = TRUE
        /\ ~token.left_host_alternate_screen /\ ~token.entered_fresh_alternate_screen
              => w.term.screen = host.screen
        /\ w.ok => w.sent = Len(Enter(token))
        /\ w.sent = Len(Enter(token)) =>
              /\ w.term.saved_mouse = term.mouse
              /\ w.term.keyboard = Pushed(term.keyboard, term.screen)
    BY <1>3, TokenFacts, WrittenEnter DEF Given
  <2>2. CASE w.ok
    <3>1. s = Suspended(w.term, token)
      BY <1>5, <2>2
    <3>2. s.ok = TRUE /\ s.term = w.term /\ s.token = token
      BY <3>1 DEF Suspended
    <3>3. QED
      BY <2>1, <2>2, <3>2 DEF Lent, Given
  <2>3. CASE ~w.ok
    <3>1. s \in CleanedUp(w, token)
      BY <1>5, <2>3
    <3>2. PICK undone \in Written(w.term, Undo(token)) :
            \E back \in RawModeBack(undone.term, token) :
              s = NotSuspended(back.term, token, w.sent < Len(Enter(token)),
                               undone.ok /\ back.ok)
      BY <3>1, Zenon DEF CleanedUp
    <3>3. PICK back \in RawModeBack(undone.term, token) :
            s = NotSuspended(back.term, token, w.sent < Len(Enter(token)),
                             undone.ok /\ back.ok)
      BY <3>2
    <3>4. /\ s.ok = FALSE /\ s.term = back.term
          /\ s.cut <=> w.sent < Len(Enter(token))
          /\ s.tidy <=> undone.ok /\ back.ok
      BY <3>3 DEF NotSuspended
    <3>5. /\ undone.ok \in BOOLEAN /\ undone.term \in TermType
          /\ undone.term.raw = TRUE
          /\ undone.ok =>
               /\ undone.term.screen = Screen(w.term, token)
               /\ w.term.saved_mouse = "host" => undone.term.mouse = "host"
               /\ \A k \in KeyboardType : w.term.keyboard = Pushed(k, w.term.screen) =>
                                            undone.term.keyboard = k
      BY <2>1, TokenFacts, WrittenUndo
    <3>6. /\ back.ok \in BOOLEAN /\ back.term \in TermType
          /\ back.term.screen = undone.term.screen
          /\ back.term.mouse = undone.term.mouse
          /\ back.term.keyboard = undone.term.keyboard
          /\ back.ok => back.term.raw = host.raw
      BY <3>5, RawModeBackIs
    <3>7. ASSUME "gave_up" \notin Noted(s)
          PROVE  Given(s.term, Noted(s))
      <4>1. undone.ok /\ back.ok
        BY <3>4, <3>7 DEF Noted
      <4>2. Screen(w.term, token) = host.screen
        BY <2>1, TokenFacts DEF Screen
      <4>3. trouble \subseteq Noted(s)
        BY DEF Noted
      <4>4. "suspend_cut" \notin Noted(s) =>
              w.sent = Len(Enter(token)) /\ "suspend_cut" \notin trouble
        <5>1. "suspend_cut" \notin Noted(s) => ~(w.sent < Len(Enter(token)))
          BY <3>4 DEF Noted
        <5>2. Len(Enter(token)) \in Nat
          BY DEF Enter
        <5>3. QED
          BY <2>1, <4>3, <5>1, <5>2
      <4>5. ASSUME Noted(s) = {}, ~SwitchesScreen(token)
            PROVE  s.term.keyboard = host.keyboard
        <5>1. trouble = {} /\ w.sent = Len(Enter(token))
          BY <4>3, <4>4, <4>5
        <5>2. w.term.keyboard = Pushed(host.keyboard, w.term.screen)
          BY <2>1, <4>5, <5>1 DEF Given, SwitchesScreen
        <5>3. undone.term.keyboard = host.keyboard
          BY <3>5, <4>1, <5>2, HostFacts
        <5>4. QED
          BY <3>4, <3>6, <5>3
      <4>6. QED
        BY <2>1, <3>4, <3>5, <3>6, <4>1, <4>2, <4>3, <4>4, <4>5 DEF Given
    <3>8. QED
      BY <3>4, <3>6, <3>7
  <2>4. QED
    BY <2>1, <2>2, <2>3
<1>6. QED
  BY <1>2, <1>4, <1>5

-----------------------------------------------------------------------------
(* The events of a run. *)

\* What a run pushes between its first and its last event.
Middle(log) == log \in Seq(EventType)
               /\ \A i \in 1 .. Len(log) : log[i].kind \in {"Resized", "Error"}
Quiet(log) == \A i \in 1 .. Len(log) : log[i].kind # "Resized"
HasError(log) == \E i \in 1 .. Len(log) : log[i].kind = "Error"
Begun(log) == /\ log \in Seq(EventType) /\ Len(log) >= 1 /\ log[1].kind = "AttachStarted"
              /\ \A i \in 2 .. Len(log) : log[i].kind \in {"Resized", "Error"}

\* The events that carry no size of the terminal.
LEMMA EventTypes ==
    /\ Error \in EventType /\ Error.kind = "Error"
    /\ AttachStarted \in EventType /\ AttachStarted.kind = "AttachStarted"
    /\ AttachEnded \in EventType /\ AttachEnded.kind = "AttachEnded"
    /\ <<Error>> \in Seq(EventType) /\ <<Error, Error>> \in Seq(EventType)
    /\ <<AttachEnded>> \in Seq(EventType) /\ <<AttachStarted>> \in Seq(EventType)
<1>1. /\ Error \in EventType /\ Error.kind = "Error"
      /\ AttachStarted \in EventType /\ AttachStarted.kind = "AttachStarted"
      /\ AttachEnded \in EventType /\ AttachEnded.kind = "AttachEnded"
  BY BlockingAttachAssumption
     DEF Error, AttachStarted, AttachEnded, Event, EventType, EventKinds
<1>2. QED
  BY <1>1

\* Each thing that is pushed, and whether it tells a size or an error.
LEMMA EventFacts ==
    /\ Middle(<< >>) /\ Quiet(<< >>) /\ ~HasError(<< >>)
    /\ Middle(<<Error>>) /\ Quiet(<<Error>>) /\ HasError(<<Error>>)
    /\ \A size \in Sizes :
          /\ Middle(<<Event("Resized", size)>>)
          /\ ~HasError(<<Event("Resized", size)>>)
<1>1. Middle(<< >>) /\ Quiet(<< >>) /\ ~HasError(<< >>)
  BY DEF Middle, Quiet, HasError
<1>2. Middle(<<Error>>) /\ Quiet(<<Error>>) /\ HasError(<<Error>>)
  BY EventTypes DEF Middle, Quiet, HasError
<1>3. ASSUME NEW size \in Sizes
      PROVE  Middle(<<Event("Resized", size)>>) /\ ~HasError(<<Event("Resized", size)>>)
  <2>1. Event("Resized", size) \in EventType /\ Event("Resized", size).kind = "Resized"
    BY DEF Event, EventType, EventKinds
  <2>2. QED
    BY <2>1 DEF Middle, HasError
<1>4. QED
  BY <1>1, <1>2, <1>3

\* Two pieces of a log, put together.
LEMMA Joined ==
    ASSUME NEW a \in Seq(EventType), NEW b \in Seq(EventType)
    PROVE  /\ a \o b \in Seq(EventType) /\ Len(a \o b) = Len(a) + Len(b)
           /\ \A i \in 1 .. Len(a) : (a \o b)[i] = a[i]
           /\ \A i \in 1 .. Len(b) : (a \o b)[Len(a) + i] = b[i]
           /\ \A i \in 1 .. Len(a) + Len(b) :
                 \/ i \in 1 .. Len(a) /\ (a \o b)[i] = a[i]
                 \/ i - Len(a) \in 1 .. Len(b) /\ (a \o b)[i] = b[i - Len(a)]
OBVIOUS

\* Two parts of a run's events make a part of its events.
LEMMA MiddleJoined ==
    ASSUME NEW a, NEW b, Middle(a), Middle(b)
    PROVE  /\ Middle(a \o b)
           /\ HasError(a \o b) <=> HasError(a) \/ HasError(b)
           /\ Quiet(a) /\ Quiet(b) => Quiet(a \o b)
<1>1. a \in Seq(EventType) /\ b \in Seq(EventType)
  BY DEF Middle
<1>2. Middle(a \o b)
  BY <1>1, Joined DEF Middle
<1>3. HasError(a \o b) => HasError(a) \/ HasError(b)
  BY <1>1, Joined DEF HasError
<1>4. HasError(a) => HasError(a \o b)
  BY <1>1, Joined DEF HasError
<1>5. HasError(b) => HasError(a \o b)
  <2>1. SUFFICES ASSUME NEW i \in 1 .. Len(b), b[i].kind = "Error"
                 PROVE  HasError(a \o b)
    BY DEF HasError
  <2>2. Len(a) + i \in 1 .. Len(a \o b) /\ (a \o b)[Len(a) + i] = b[i]
    BY <1>1, Joined
  <2>3. QED
    BY <2>1, <2>2 DEF HasError
<1>6. Quiet(a) /\ Quiet(b) => Quiet(a \o b)
  BY <1>1, Joined DEF Quiet
<1>7. QED
  BY <1>2, <1>3, <1>4, <1>5, <1>6

\* The events of a run that has begun, and what the run pushes next.
LEMMA BegunJoined ==
    ASSUME NEW a, NEW b, Begun(a), Middle(b)
    PROVE  /\ Begun(a \o b)
           /\ HasError(a \o b) <=> HasError(a) \/ HasError(b)
<1>1. a \in Seq(EventType) /\ b \in Seq(EventType) /\ Len(a) >= 1
  BY DEF Middle, Begun
<1>2. Begun(a \o b)
  <2>1. /\ a \o b \in Seq(EventType) /\ Len(a \o b) >= 1
        /\ (a \o b)[1].kind = "AttachStarted"
    BY <1>1, Joined DEF Begun
  <2>2. ASSUME NEW i \in 2 .. Len(a \o b)
        PROVE  (a \o b)[i].kind \in {"Resized", "Error"}
    <3>1. CASE i \in 1 .. Len(a) /\ (a \o b)[i] = a[i]
      BY <3>1 DEF Begun
    <3>2. CASE i - Len(a) \in 1 .. Len(b) /\ (a \o b)[i] = b[i - Len(a)]
      BY <3>2 DEF Middle
    <3>3. QED
      BY <1>1, <3>1, <3>2, Joined
  <2>3. QED
    BY <2>1, <2>2 DEF Begun
<1>3. HasError(a \o b) => HasError(a) \/ HasError(b)
  BY <1>1, Joined DEF HasError
<1>4. HasError(a) => HasError(a \o b)
  BY <1>1, Joined DEF HasError
<1>5. HasError(b) => HasError(a \o b)
  <2>1. SUFFICES ASSUME NEW i \in 1 .. Len(b), b[i].kind = "Error"
                 PROVE  HasError(a \o b)
    BY DEF HasError
  <2>2. Len(a) + i \in 1 .. Len(a \o b) /\ (a \o b)[Len(a) + i] = b[i]
    BY <1>1, Joined
  <2>3. QED
    BY <2>1, <2>2 DEF HasError
<1>6. QED
  BY <1>2, <1>3, <1>4, <1>5

\* Who follows the events still knows the size when no Resized is pushed, and
\* knows the new one when one is.
LEMMA KnowsQuiet ==
    ASSUME NEW a \in Seq(EventType), NEW b \in Seq(EventType), NEW size,
           Knows(a, size), Quiet(b)
    PROVE  Knows(a \o b, size)
<1>1. ASSUME NEW i \in 1 .. Len(a \o b), (a \o b)[i].kind = "Resized",
             \A j \in 1 .. Len(a \o b) : (a \o b)[j].kind = "Resized" => j <= i
      PROVE  (a \o b)[i].size = size
  <2>1. i \in 1 .. Len(a) /\ (a \o b)[i] = a[i]
    BY <1>1, Joined DEF Quiet
  <2>2. \A j \in 1 .. Len(a) : a[j].kind = "Resized" => j <= i
    BY <1>1, Joined
  <2>3. QED
    BY <1>1, <2>1, <2>2 DEF Knows
<1>2. ASSUME \A i \in 1 .. Len(a \o b) : (a \o b)[i].kind # "Resized"
      PROVE  size = EmbeddedSize
  <2>1. \A i \in 1 .. Len(a) : a[i].kind # "Resized"
    BY <1>2, Joined
  <2>2. QED
    BY <2>1 DEF Knows
<1>3. QED
  BY <1>1, <1>2 DEF Knows

\* Who reads a Resized event last knows its size.
LEMMA KnowsResized ==
    ASSUME NEW a \in Seq(EventType), NEW size \in Sizes
    PROVE  Knows(a \o <<Event("Resized", size)>>, size)
<1> DEFINE b == <<Event("Resized", size)>>
           l == Len(a) + 1
<1>1. /\ b \in Seq(EventType) /\ Len(b) = 1 /\ b[1].kind = "Resized"
      /\ b[1].size = size
  BY DEF Event, EventType, EventKinds
<1> HIDE DEF b
<1>2. Len(a \o b) = l /\ l \in 1 .. l /\ (a \o b)[l] = b[1]
  BY <1>1, Joined
<1>3. ASSUME NEW i \in 1 .. Len(a \o b),
             \A j \in 1 .. Len(a \o b) : (a \o b)[j].kind = "Resized" => j <= i
      PROVE  (a \o b)[i].size = size
  <2>1. l <= i
    BY <1>1, <1>2, <1>3
  <2>2. i = l
    BY <1>2, <2>1
  <2>3. QED
    BY <1>1, <1>2, <2>2
<1>4. ~\A i \in 1 .. Len(a \o b) : (a \o b)[i].kind # "Resized"
  BY <1>1, <1>2
<1>5. QED
  BY <1>3, <1>4 DEF Knows, b

\* Told and LastSize, of any log.
ToldIn(log, kind) == {i \in DOMAIN log : log[i].kind = kind}
LastIn(log) == IF ToldIn(log, "Resized") = {} THEN EmbeddedSize
               ELSE log[CHOOSE i \in ToldIn(log, "Resized") :
                          \A j \in ToldIn(log, "Resized") : j <= i].size

\* The size an observer of the events knows is the one LastSize finds: there is
\* a last Resized event, if there is one.
LEMMA KnowsLastSize ==
    ASSUME NEW log \in Seq(EventType), NEW size, Knows(log, size)
    PROVE  LastIn(log) = size
<1>1. ToldIn(log, "Resized") = {i \in 1 .. Len(log) : log[i].kind = "Resized"}
  BY DEF ToldIn
<1>2. CASE ToldIn(log, "Resized") = {}
  BY <1>1, <1>2 DEF LastIn, Knows
<1>3. CASE ToldIn(log, "Resized") # {}
  <2>1. PICK last \in ToldIn(log, "Resized") : \A j \in ToldIn(log, "Resized") : j <= last
    <3> DEFINE l == Len(log)
               Before(n) == {i \in ToldIn(log, "Resized") : l - i = n}
               Gaps == {l - i : i \in ToldIn(log, "Resized")}
    <3>1. Gaps \subseteq Nat /\ Gaps # {}
      BY <1>1, <1>3
    <3>2. PICK gap \in Gaps : \A n \in Gaps : gap <= n
      <4> DEFINE Below == {p \in Nat \X Nat : p[1] < p[2]}
      <4>1. IsWellFoundedOn(Below, Nat)
        BY NatLessThanWellFounded DEF OpToRel
      <4> HIDE DEF Below, Gaps
      <4>2. PICK gap \in Gaps : \A n \in Gaps : <<n, gap>> \notin Below
        BY <3>1, <4>1, WFMin, Zenon
      <4>3. ASSUME NEW n \in Gaps
            PROVE  gap <= n
        <5>1. n \in Nat /\ gap \in Nat
          BY <3>1
        <5>2. ~(n < gap)
          BY <4>2, <5>1 DEF Below
        <5>3. QED
          BY <5>1, <5>2
      <4>4. QED
        BY <4>3
    <3>3. PICK i \in ToldIn(log, "Resized") : gap = l - i
      BY <3>2
    <3>4. ASSUME NEW j \in ToldIn(log, "Resized")
          PROVE  j <= i
      <4>1. l - i <= l - j
        BY <3>2, <3>3
      <4>2. QED
        BY <1>1, <4>1
    <3>5. QED
      BY <3>4
  <2> DEFINE c == CHOOSE i \in ToldIn(log, "Resized") : \A j \in ToldIn(log, "Resized") : j <= i
  <2>2. c \in ToldIn(log, "Resized") /\ \A j \in ToldIn(log, "Resized") : j <= c
    BY <2>1
  <2>3. log[c].size = size
    <3> HIDE DEF c
    <3>1. QED
      BY <1>1, <2>2 DEF Knows
  <2>4. QED
    BY <1>3, <2>3 DEF LastIn
<1>4. QED
  BY <1>2, <1>3

\* Logs are put together in any grouping.
LEMMA Associates ==
    ASSUME NEW a \in Seq(EventType), NEW b \in Seq(EventType), NEW c \in Seq(EventType)
    PROVE  (a \o b) \o c = a \o (b \o c)
BY ConcatAssociative

\* A log closed by AttachEnded tells what the run went through.
LEMMA Closed ==
    ASSUME NEW log, Begun(log), NEW story, story = log \o <<AttachEnded>>
    PROVE  /\ ToldIn(story, "AttachStarted") = {1}
           /\ ToldIn(story, "AttachEnded") = {Len(story)}
           /\ ToldIn(story, "Error") # {} <=> HasError(log)
           /\ \A size : Knows(log, size) => LastIn(story) = size
<1> DEFINE last == <<AttachEnded>>
           l    == Len(log)
<1>1. /\ last \in Seq(EventType) /\ Len(last) = 1 /\ last[1].kind = "AttachEnded"
  BY EventTypes
<1> HIDE DEF last
<1>2. log \in Seq(EventType) /\ l \in Nat /\ l >= 1
  BY DEF Begun
<1>3. /\ story \in Seq(EventType) /\ Len(story) = l + 1
      /\ \A i \in 1 .. l : story[i] = log[i]
      /\ story[l + 1].kind = "AttachEnded"
  BY <1>1, <1>2, Joined DEF last
<1>4. DOMAIN story = 1 .. l + 1
  BY <1>3
<1>5. ToldIn(story, "AttachStarted") = {1}
  BY <1>2, <1>3, <1>4 DEF ToldIn, Begun
<1>6. ToldIn(story, "AttachEnded") = {l + 1}
  BY <1>2, <1>3, <1>4 DEF ToldIn, Begun
<1>7. ToldIn(story, "Error") # {} <=> HasError(log)
  BY <1>2, <1>3, <1>4 DEF ToldIn, HasError
<1>8. ASSUME NEW size, Knows(log, size)
      PROVE  LastIn(story) = size
  <2>1. Quiet(last)
    BY <1>1 DEF Quiet
  <2>2. Knows(story, size)
    BY <1>1, <1>2, <1>8, <2>1, KnowsQuiet DEF last
  <2>3. QED
    BY <1>3, <2>2, KnowsLastSize
<1>9. QED
  BY <1>3, <1>5, <1>6, <1>7, <1>8

\* A step that ends a run leaves events that tell its outcome.
LEMMA EndedTellsNext ==
    ASSUME NEW log, Begun(log), events' = log \o <<AttachEnded>>
    PROVE  /\ Told("AttachStarted")' = {1} /\ Told("AttachEnded")' = {Len(events')}
           /\ Told("Error")' # {} <=> HasError(log)
           /\ \A size : Knows(log, size) => LastSize' = size
<1> DEFINE story == events'
<1>1. /\ ToldIn(story, "AttachStarted") = {1}
      /\ ToldIn(story, "AttachEnded") = {Len(story)}
      /\ ToldIn(story, "Error") # {} <=> HasError(log)
      /\ \A size : Knows(log, size) => LastIn(story) = size
  BY Closed
<1>2. /\ \A kind : Told(kind)' = ToldIn(story, kind)
      /\ LastSize' = LastIn(story)
  BY DEF Told, ToldIn, LastSize, LastIn
<1>3. QED
  BY <1>1, <1>2

-----------------------------------------------------------------------------
(* The actions. *)

TargetType == [pty : Sizes, surface : Sizes]

\* How a resize of the target can end.
LEMMA ResizesIs ==
    ASSUME target \in TargetType, options \in Options, NEW size \in Sizes,
           NEW done \in ResizesIfReal(size)
    PROVE  /\ done.ok \in BOOLEAN /\ done.target \in TargetType
           /\ done.log \in {<< >>, <<Event("Resized", size)>>}
           /\ options.resize = "UseRealTerminalSize" /\ done.ok =>
                 /\ done.target = [pty |-> size, surface |-> size]
                 /\ done.log = <<Event("Resized", size)>>
           /\ options.resize = "KeepEmbeddedSize" =>
                 done.ok /\ done.target = target /\ done.log = << >>
           /\ options.resize \in {"UseRealTerminalSize", "KeepEmbeddedSize"}
<1>1. options.resize \in {"UseRealTerminalSize", "KeepEmbeddedSize"}
  BY BlockingAttachAssumption DEF Option
<1>2. CASE options.resize = "UseRealTerminalSize"
  <2>1. \/ done = [ok |-> TRUE,  target |-> [pty |-> size, surface |-> size],
                   log |-> <<Event("Resized", size)>>]
        \/ done = [ok |-> FALSE, target |-> [target EXCEPT !.pty = size], log |-> << >>]
        \/ done = [ok |-> FALSE, target |-> target, log |-> << >>]
    BY <1>2 DEF ResizesIfReal, Resizes
  <2>2. [target EXCEPT !.pty = size] \in TargetType
    BY DEF TargetType
  <2>3. [pty |-> size, surface |-> size] \in TargetType
    BY DEF TargetType
  <2>4. CASE done = [ok |-> TRUE,  target |-> [pty |-> size, surface |-> size],
                     log |-> <<Event("Resized", size)>>]
    BY <1>2, <2>3, <2>4
  <2>5. CASE done = [ok |-> FALSE, target |-> [target EXCEPT !.pty = size], log |-> << >>]
    BY <1>2, <2>2, <2>5
  <2>6. CASE done = [ok |-> FALSE, target |-> target, log |-> << >>]
    BY <1>2, <2>6
  <2>7. QED
    BY <2>1, <2>4, <2>5, <2>6
<1>3. CASE options.resize = "KeepEmbeddedSize"
  <2>1. done = [ok |-> TRUE, target |-> target, log |-> << >>]
    BY <1>3 DEF ResizesIfReal
  <2>2. QED
    BY <1>1, <1>3, <2>1
<1>4. QED
  BY <1>1, <1>2, <1>3

\* Those of the abort.
LEMMA AbortSizesIs ==
    ASSUME target \in TargetType, options \in Options, NEW done \in AbortSizes
    PROVE  /\ done.ok \in BOOLEAN /\ done.target \in TargetType
           /\ done.log \in {<< >>, <<Event("Resized", EmbeddedSize)>>}
           /\ session.restored => done.ok /\ done.target = target /\ done.log = << >>
           /\ ~session.restored => done \in ResizesIfReal(EmbeddedSize)
<1>1. CASE session.restored
  <2>1. done = [ok |-> TRUE, target |-> target, log |-> << >>]
    BY <1>1 DEF AbortSizes
  <2>2. QED
    BY <1>1, <2>1
<1>2. CASE ~session.restored
  <2>1. done \in ResizesIfReal(EmbeddedSize)
    BY <1>2 DEF AbortSizes
  <2>2. EmbeddedSize \in Sizes
    BY BlockingAttachAssumption
  <2>3. QED
    BY <1>2, <2>1, <2>2, ResizesIs
<1>3. QED
  BY <1>1, <1>2

\* The logs that are pushed keep the type of the events.
LEMMA ResizeLog ==
    ASSUME NEW size \in Sizes, NEW log \in {<< >>, <<Event("Resized", size)>>}
    PROVE  Middle(log) /\ ~HasError(log) /\ Middle(log \o <<Error>>)
           /\ HasError(log \o <<Error>>)
           /\ (log = << >> => Quiet(log) /\ Quiet(log \o <<Error>>))
BY EventFacts, MiddleJoined

\* Pushing keeps the type of the events.
LEMMA MiddleType ==
    ASSUME events \in Seq(EventType), NEW log, Middle(log)
    PROVE  events \o log \in Seq(EventType)
BY DEF Middle

\* The session's locals before and after a run.
LEMMA NoRunType ==
    ASSUME NEW outcome \in Outcomes
    PROVE  /\ NoRun(outcome) \in SessionType
           /\ NoRun(outcome).stage = "idle" /\ NoRun(outcome).outcome = outcome
           /\ NoRun(outcome).restored = FALSE
           /\ NoRun(outcome).resize_refused = FALSE
           /\ NoRun(outcome).replay = {}
BY BlockingAttachAssumption DEF NoRun, SessionType, Stages

\* A new session satisfies the inductive invariant.
LEMMA InitInv == ASSUME Init PROVE IInv
<1>1. /\ session \in SessionType /\ session.stage = "idle" /\ session.outcome = "none"
      /\ ~session.restored
  BY NoRunType DEF Init, Outcomes
<1>2. host \in Hosts /\ term = host /\ target = Embedded
  BY DEF Init, Embedded
<1>3. TypeOK
  <2>1. term \in TermType /\ events \in Seq(EventType)
    BY <1>2, HostFacts DEF Init
  <2>2. target \in [pty : Sizes, surface : Sizes]
    BY BlockingAttachAssumption DEF Init
  <2>3. QED
    BY <1>1, <2>1, <2>2 DEF Init, TypeOK
<1>4. BridgeInv
  BY <1>1 DEF Init, BridgeInv
<1>5. SizeInv
  BY <1>1, <1>2 DEF SizeInv, SizesHandedBack, Idle, Embedded
<1>6. OutputInv
  BY <1>1 DEF Init, OutputInv, SurfaceSawAll, Idle
<1>7. EventInv
  BY <1>1 DEF EventInv, EventsTellOutcome, Idle
<1>8. LentInv
  BY <1>1, <1>2, HostFacts DEF Init, LentInv, HostHandedBack, Idle
<1>9. QED
  BY <1>3, <1>4, <1>5, <1>6, <1>7, <1>8 DEF IInv

\* The host terminal is lent or given, as LentInv says.
LEMMA LentOrGiven ==
    ASSUME IInv
    PROVE  /\ host \in Hosts /\ term \in TermType
           /\ Idle /\ "gave_up" \notin trouble => Given(term, trouble)
           /\ ~Idle => Lent(term, trouble) /\ guard = {HostToken}
<1>1. host \in Hosts /\ term \in TermType /\ LentInv
  BY DEF IInv, TypeOK
<1>2. QED
  BY <1>1, HostFacts DEF LentInv, HostHandedBack, Lent, Given

\* The variables' types.
LEMMA StepTypeOK == IInv /\ [Next]_vars => TypeOK'
<1> SUFFICES ASSUME IInv, [Next]_vars PROVE TypeOK'
  OBVIOUS
<1> USE DEF TypeOK
<1>1. /\ TypeOK /\ session \in SessionType /\ target \in TargetType
      /\ options \in Options /\ events \in Seq(EventType)
  BY DEF IInv, TargetType
<1>2. /\ \A name \in {"enter", "size", "stdin", "output", "drain", "replay",
                      "restore_size", "hand_back", "abort"} : name \in Stages
      /\ \A name \in {"Refused", "UserChord", "none", "Error"} : name \in Outcomes
      /\ session.drained + 1 \in Nat /\ session.passes + 1 \in Nat /\ 0 \in Nat
      /\ session.terminal_size \in Sizes /\ real_size \in Sizes /\ runs + 1 \in Nat
      /\ EmbeddedSize \in Sizes
  BY <1>1, BlockingAttachAssumption DEF Stages, Outcomes, SessionType
<1>3. /\ events \o <<Error>> \in Seq(EventType) /\ <<Error>> \in Seq(EventType)
      /\ events \o (<< >> \o <<Error>>) \in Seq(EventType)
  BY <1>1, EventFacts, MiddleType, MiddleJoined DEF Middle
<1>4. CASE Refused
  <2>1. session' \in SessionType
    BY <1>2, <1>4, NoRunType DEF Refused
  <2>2. QED
    BY <1>1, <1>2, <1>3, <1>4, <2>1 DEF Refused, fixed, user
<1>5. CASE SuspendFails
  <2>1. session' \in SessionType
    BY <1>2, <1>5, NoRunType DEF SuspendFails
  <2>2. PICK s \in Suspends(term, options.screen, host.screen = "alternate") :
          ~s.ok /\ term' = s.term /\ trouble' = Noted(s)
    BY <1>5 DEF SuspendFails
  <2>3. Idle /\ "gave_up" \notin trouble
    BY <1>5 DEF SuspendFails, MayRun
  <2>4. term' \in TermType
    BY <2>2, <2>3, LentOrGiven, SuspendsIs
  <2>5. trouble' \subseteq {"gave_up", "suspend_cut", "popped"}
    BY <1>1, <2>2 DEF Noted
  <2>6. QED
    BY <1>1, <1>2, <1>3, <1>5, <2>1, <2>4, <2>5 DEF SuspendFails, fixed, user
<1>6. CASE Suspend
  <2>1. NoRun("none") \in SessionType
    BY <1>2, NoRunType
  <2>2. session' = [NoRun("none") EXCEPT !.stage = "enter", !.terminal_size = real_size]
    BY <1>6 DEF Suspend
  <2>3. session' \in SessionType
    BY <1>2, <2>1, <2>2 DEF SessionType
  <2>4. PICK s \in Suspends(term, options.screen, host.screen = "alternate") :
          s.ok /\ term' = s.term
    BY <1>6 DEF Suspend
  <2>5. Idle /\ "gave_up" \notin trouble
    BY <1>6 DEF Suspend, MayRun
  <2>6. term' \in TermType
    BY <2>4, <2>5, LentOrGiven, SuspendsIs
  <2>7. events' \in Seq(EventType)
    BY <1>6, EventTypes DEF Suspend
  <2>8. watched' \in {"unread", "shown", "fed", "settled"}
    BY <1>1, <1>6 DEF Suspend
  <2>9. QED
    BY <1>1, <1>2, <1>6, <2>3, <2>6, <2>7, <2>8 DEF Suspend, fixed, user
<1>7. ASSUME NEW size \in Sizes, NEW done \in ResizesIfReal(size)
      PROVE  /\ done.target \in TargetType /\ done.ok \in BOOLEAN
             /\ events \o done.log \in Seq(EventType)
             /\ events \o (done.log \o <<Error>>) \in Seq(EventType)
  <2>1. /\ done.target \in TargetType /\ done.ok \in BOOLEAN
        /\ done.log \in {<< >>, <<Event("Resized", size)>>}
    BY <1>1, <1>7, ResizesIs
  <2>2. Middle(done.log) /\ Middle(done.log \o <<Error>>)
    BY <2>1, ResizeLog
  <2>3. QED
    BY <1>1, <2>1, <2>2, MiddleType
<1>8. CASE EnterAttached
  <2>1. PICK done \in ResizesIfReal(session.terminal_size), measured \in BOOLEAN :
          /\ target' = done.target
          /\ IF done.ok /\ measured
             THEN session' = [session EXCEPT !.stage = "size"] /\ Pushes(done.log)
             ELSE Abandons(done.log)
    BY <1>8 DEF EnterAttached
  <2>2. target' \in TargetType /\ events' \in Seq(EventType)
    BY <1>2, <1>7, <2>1 DEF Pushes, Abandons
  <2>3. session' \in SessionType
    BY <1>1, <1>2, <2>1 DEF Abandons, SessionType
  <2>4. QED
    BY <1>1, <1>8, <2>2, <2>3 DEF EnterAttached, TargetType, fixed, lent, user
<1>9. CASE CheckSize
  <2>1. session' \in SessionType
    BY ZenonT(30), <1>1, <1>2, <1>9 DEF CheckSize, Abandons, Goes, SessionType
  <2>2. target' \in TargetType /\ events' \in Seq(EventType)
    BY <1>1, <1>2, <1>3, <1>7, <1>9 DEF CheckSize, Abandons, Goes, Pushes
  <2>3. QED
    BY <1>1, <1>9, <2>1, <2>2 DEF CheckSize, TargetType, fixed, lent, user
<1>10. CASE PollStdin
  <2>1. session' \in SessionType
    BY <1>1, <1>2, <1>10 DEF PollStdin, Abandons, SessionType
  <2>2. events' \in Seq(EventType)
    BY <1>1, <1>3, <1>10 DEF PollStdin, Abandons, Pushes
  <2>3. QED
    BY <1>1, <1>10, <2>1, <2>2 DEF PollStdin, fixed, lent
<1>11. CASE OutputFrame
  <2>1. PICK f \in Output :
         \/ Abandons(<< >>) /\ Shows(f, "settled")
         \/ /\ session' = [session EXCEPT !.drained = @ + 1]
            /\ Shows(f, "fed")
            /\ UNCHANGED events
         \/ Abandons(<< >>) /\ Shows(f, "shown")
         \/ /\ session' = [session EXCEPT !.drained = @ + 1, !.replay = @ \cup {f}]
            /\ Shows(f, "shown")
            /\ UNCHANGED events
    BY <1>11, Zenon DEF OutputFrame
  <2>2. session.replay \cup {f} \in SUBSET Output
    BY <1>1, <2>1 DEF SessionType
  <2>3. session' \in SessionType
    BY <1>1, <1>2, <2>1, <2>2 DEF Abandons, SessionType
  <2>4. events' \in Seq(EventType)
    BY <1>1, <1>3, <2>1 DEF Abandons, Pushes
  <2>5. watched' \in {"unread", "shown", "fed", "settled"}
    BY <1>1, <2>1 DEF Shows
  <2>6. QED
    BY <1>1, <1>11, <2>3, <2>4, <2>5 DEF OutputFrame, fixed, lent, user
<1>12. CASE OtherFrame
  <2>1. session' \in SessionType
    BY <1>1, <1>2, <1>12 DEF OtherFrame, SessionType
  <2>2. child' \in {"reading", "waiting", "done"}
    BY <1>12 DEF OtherFrame
  <2>3. QED
    BY <1>1, <1>12, <2>1, <2>2 DEF OtherFrame, fixed, lent, user
<1>13. CASE ErrorFrame
  <2>1. session' \in SessionType
    BY <1>1, <1>2, <1>13 DEF ErrorFrame, Abandons, SessionType
  <2>2. events' \in Seq(EventType)
    BY <1>1, <1>3, <1>13 DEF ErrorFrame, Abandons, Pushes
  <2>3. child' \in {"reading", "waiting", "done"}
    BY <1>13 DEF ErrorFrame
  <2>4. QED
    BY <1>1, <1>13, <2>1, <2>2, <2>3 DEF ErrorFrame, fixed, lent, user
<1>14. CASE TickEnds \/ DrainPass
  <2>1. session' \in SessionType /\ events' = events
    BY <1>1, <1>2, <1>14 DEF TickEnds, DrainPass, Goes, SessionType
  <2>2. QED
    BY <1>1, <1>14, <2>1 DEF TickEnds, DrainPass, fixed, lent, user
<1>15. CASE Replay
  <2>1. session' \in SessionType
    BY <1>1, <1>2, <1>15 DEF Replay, Abandons, SessionType
  <2>2. events' \in Seq(EventType)
    BY <1>1, <1>3, <1>15 DEF Replay, Abandons, Pushes
  <2>3. watched' \in {"unread", "shown", "fed", "settled"}
    BY <1>1, <1>15 DEF Replay
  <2>4. QED
    BY <1>1, <1>15, <2>1, <2>2, <2>3 DEF Replay, fixed, lent, user
<1>16. CASE RestoreSize
  <2>1. PICK done \in ResizesIfReal(EmbeddedSize) :
          /\ target' = done.target
          /\ session' = [session EXCEPT
                           !.stage = IF done.ok THEN "hand_back" ELSE "abort",
                           !.restored = done.ok]
          /\ Pushes(IF done.ok THEN done.log ELSE done.log \o <<Error>>)
    BY <1>16, Zenon DEF RestoreSize
  <2>2. /\ target' \in TargetType /\ events' \in Seq(EventType) /\ done.ok \in BOOLEAN
    BY <1>2, <1>7, <2>1 DEF Pushes
  <2>3. session' \in SessionType
    BY <1>1, <1>2, <2>1, <2>2 DEF SessionType
  <2>4. QED
    BY <1>1, <1>16, <2>2, <2>3 DEF RestoreSize, TargetType, fixed, lent, user
<1>17. CASE HandBack
  <2>1. PICK token \in guard : \E r \in Restores(term, token) :
          /\ term' = r.term
          /\ trouble' = trouble \cup Popped(r)
          /\ IF r.ok
             THEN /\ guard' = {}
                  /\ Moves("Detaching", "Embedded")
                  /\ session' = NoRun("UserChord")
                  /\ Pushes(<<AttachEnded>>)
             ELSE Abandons(<< >>) /\ UNCHANGED <<guard, bridge>>
    BY <1>17 DEF HandBack
  <2>2. PICK r \in Restores(term, token) :
          /\ term' = r.term
          /\ trouble' = trouble \cup Popped(r)
          /\ IF r.ok
             THEN /\ guard' = {}
                  /\ Moves("Detaching", "Embedded")
                  /\ session' = NoRun("UserChord")
                  /\ Pushes(<<AttachEnded>>)
             ELSE Abandons(<< >>) /\ UNCHANGED <<guard, bridge>>
    BY <2>1
  <2>3. token = HostToken /\ Lent(term, trouble)
    BY <1>17, <2>1, LentOrGiven DEF HandBack, Idle
  <2>4. term' \in TermType
    BY <2>2, <2>3, LentOrGiven, RestoresIs
  <2>5. session' \in SessionType
    <3>1. NoRun("UserChord") \in SessionType
      BY <1>2, NoRunType
    <3>2. [session EXCEPT !.stage = "abort"] \in SessionType
      BY <1>1, <1>2 DEF SessionType
    <3>3. QED
      BY <2>2, <3>1, <3>2 DEF Abandons
  <2>6. events' \in Seq(EventType)
    <3>1. events \o <<AttachEnded>> \in Seq(EventType)
      BY <1>1, EventTypes, Joined
    <3>2. \/ events' = events \o <<AttachEnded>>
          \/ events' = events \o (<< >> \o <<Error>>)
      BY <2>2 DEF Abandons, Pushes
    <3>3. QED
      BY <1>3, <3>1, <3>2
  <2>7. trouble' \subseteq {"gave_up", "suspend_cut", "popped"}
    BY <1>1, <2>2 DEF Popped
  <2>8. QED
    BY <1>1, <1>17, <2>4, <2>5, <2>6, <2>7 DEF HandBack, fixed, user
<1>18. CASE Abort
  <2>1. PICK done \in AbortSizes, token \in guard : \E back \in DetachTwice(term, token) :
         /\ target' = done.target
         /\ term' = back.term
         /\ trouble' = trouble \cup back.trouble
         /\ session' = [NoRun("Error") EXCEPT !.resize_refused = ~done.ok]
         /\ Pushes(done.log \o (IF done.ok THEN << >> ELSE <<Error>>) \o back.log
                   \o <<AttachEnded>>)
    BY <1>18 DEF Abort
  <2>2. PICK back \in DetachTwice(term, token) :
         /\ target' = done.target
         /\ term' = back.term
         /\ trouble' = trouble \cup back.trouble
         /\ session' = [NoRun("Error") EXCEPT !.resize_refused = ~done.ok]
         /\ Pushes(done.log \o (IF done.ok THEN << >> ELSE <<Error>>) \o back.log
                   \o <<AttachEnded>>)
    BY <2>1
  <2>3. token = HostToken /\ Lent(term, trouble)
    BY <1>18, <2>1, LentOrGiven DEF Abort, Idle
  <2>4. /\ back.term \in TermType
        /\ back.log \in {<< >>, <<Error>>, <<Error, Error>>}
        /\ back.trouble \subseteq {"gave_up", "popped"}
    BY <2>3, LentOrGiven, DetachTwiceIs
  <2>5. /\ done.ok \in BOOLEAN /\ done.target \in TargetType
        /\ done.log \in {<< >>, <<Event("Resized", EmbeddedSize)>>}
    BY <1>1, AbortSizesIs
  <2>6. session' \in SessionType
    <3>1. NoRun("Error") \in SessionType
      BY <1>2, NoRunType
    <3>2. QED
      BY <2>2, <2>5, <3>1 DEF SessionType
  <2>7. events' \in Seq(EventType)
    <3>1. /\ <<Error>> \in Seq(EventType) /\ <<AttachEnded>> \in Seq(EventType)
          /\ << >> \in Seq(EventType) /\ done.log \in Seq(EventType)
      <4>1. Middle(done.log)
        BY <1>2, <2>5, ResizeLog
      <4>2. QED
        BY <4>1, EventTypes DEF Middle
    <3>2. back.log \in Seq(EventType)
      <4>1. << >> \in Seq(EventType)
        OBVIOUS
      <4>2. QED
        BY <2>4, <4>1, EventTypes, Zenon
    <3>3. (done.log \o (IF done.ok THEN << >> ELSE <<Error>>)) \in Seq(EventType)
      BY <3>1
    <3>4. QED
      BY <1>1, <2>2, <3>1, <3>2, <3>3 DEF Pushes
  <2>8. QED
    BY <1>1, <1>18, <2>2, <2>4, <2>5, <2>6, <2>7 DEF Abort, TargetType, fixed, user
<1>19. CASE TypeChord \/ ResizeTerminal
  <2>1. CASE TypeChord
    BY <1>1, <2>1 DEF TypeChord, fixed, lent
  <2>2. CASE ResizeTerminal
    <3>1. real_size' \in Sizes /\ resizes' \in Nat
      BY <1>1, <2>2 DEF ResizeTerminal
    <3>2. QED
      BY <1>1, <2>2, <3>1 DEF ResizeTerminal, fixed, lent
  <2>3. QED
    BY <1>19, <2>1, <2>2
<1>20. CASE UNCHANGED vars
  BY <1>1, <1>20 DEF vars
<1>21. QED
  BY <1>4, <1>5, <1>6, <1>8, <1>9, <1>10, <1>11, <1>12, <1>13, <1>14, <1>15, <1>16,
     <1>17, <1>18, <1>19, <1>20 DEF Next, Run

-----------------------------------------------------------------------------
(* The invariants, step by step. *)

\* The bridge: every transition starts from the state that it asserts.
LEMMA StepBridgeInv == IInv /\ [Next]_vars => BridgeInv'
<1> SUFFICES ASSUME IInv, [Next]_vars PROVE BridgeInv'
  OBVIOUS
<1>1. session \in SessionType /\ BridgeInv
  BY DEF IInv, TypeOK
<1> USE DEF BridgeInv, Moves
<1>2. CASE Refused
  BY <1>1, <1>2, NoRunType DEF Refused, MayRun, Idle, Outcomes
<1>3. CASE SuspendFails
  BY <1>1, <1>3, NoRunType DEF SuspendFails, MayRun, Idle, ResetBridge, Outcomes
<1>4. CASE Suspend
  <2>1. session'.stage = "enter"
    BY <1>4 DEF Suspend, NoRun
  <2>2. QED
    BY <1>1, <1>4, <2>1 DEF Suspend, MayRun, Idle
<1>5. CASE EnterAttached
  BY <1>1, <1>5 DEF EnterAttached, Abandons, SessionType
<1>6. CASE CheckSize \/ PollStdin
  <2>1. CASE CheckSize
    <3>1. session.stage = "size" /\ session'.stage \in {"stdin", "abort"}
      BY <1>1, <2>1 DEF CheckSize, Abandons, Goes, SessionType
    <3>2. bridge' = bridge
      BY <2>1 DEF CheckSize
    <3>3. QED
      BY <1>1, <3>1, <3>2
  <2>2. CASE PollStdin
    BY <1>1, <2>2 DEF PollStdin, Abandons, SessionType
  <2>3. QED
    BY <1>6, <2>1, <2>2
<1>7. CASE OutputFrame \/ OtherFrame \/ ErrorFrame
  <2>1. /\ session.stage \in {"output", "drain"}
        /\ session'.stage \in {session.stage, "abort"}
    <3>1. CASE OutputFrame
      BY <1>1, <3>1 DEF OutputFrame, Draining, Abandons, SessionType
    <3>2. CASE OtherFrame \/ ErrorFrame
      BY <1>1, <3>2 DEF OtherFrame, ErrorFrame, Draining, Abandons, SessionType
    <3>3. QED
      BY <1>7, <3>1, <3>2
  <2>2. bridge' = bridge
    BY <1>7, Zenon DEF OutputFrame, OtherFrame, ErrorFrame
  <2>3. QED
    BY <1>1, <2>1, <2>2
<1>8. CASE TickEnds \/ DrainPass \/ Replay
  BY <1>1, <1>8 DEF TickEnds, DrainPass, Replay, Goes, Abandons, SessionType
<1>9. CASE RestoreSize
  <2>1. session'.stage \in {"hand_back", "abort"} /\ session.stage = "restore_size"
    BY <1>1, <1>9 DEF RestoreSize, SessionType
  <2>2. QED
    BY <1>1, <1>9, <2>1 DEF RestoreSize
<1>10. CASE HandBack
  <2>1. NoRun("UserChord").stage = "idle"
    BY DEF NoRun
  <2>2. session.stage = "hand_back" /\ bridge = "Detaching"
    BY <1>1, <1>10 DEF HandBack
  <2>3. \/ bridge' = "Embedded" /\ session' = NoRun("UserChord")
        \/ bridge' = bridge /\ session' = [session EXCEPT !.stage = "abort"]
    BY <1>10, <2>2 DEF HandBack, Abandons
  <2>4. QED
    BY <1>1, <2>1, <2>2, <2>3 DEF SessionType
<1>11. CASE Abort
  <2>1. session'.stage = "idle"
    BY <1>11 DEF Abort, NoRun
  <2>2. QED
    BY <1>1, <1>11, <2>1 DEF Abort, ResetBridge
<1>12. CASE TypeChord \/ ResizeTerminal
  BY <1>1, <1>12 DEF TypeChord, ResizeTerminal
<1>13. CASE UNCHANGED vars
  BY <1>1, <1>13 DEF vars
<1>14. QED
  BY <1>2, <1>3, <1>4, <1>5, <1>6, <1>7, <1>8, <1>9, <1>10, <1>11, <1>12, <1>13
     DEF Next, Run

\* The sizes: restored_embedded_size is true only when they are given back.
LEMMA StepSizeInv == IInv /\ [Next]_vars => SizeInv'
<1> SUFFICES ASSUME IInv, [Next]_vars PROVE SizeInv'
  OBVIOUS
<1>1. /\ session \in SessionType /\ target \in TargetType /\ options \in Options
      /\ real_size \in Sizes /\ session.terminal_size \in Sizes /\ EmbeddedSize \in Sizes
      /\ SizeInv /\ BridgeInv
  BY BlockingAttachAssumption DEF IInv, TypeOK, TargetType, SessionType
<1> USE DEF SizeInv, SizesHandedBack, Idle
<1>2. CASE Refused \/ SuspendFails
  <2>1. /\ session'.stage = "idle" /\ session'.outcome = "Refused"
        /\ session'.restored = FALSE
    BY <1>2, NoRunType DEF Refused, SuspendFails, Outcomes
  <2>2. QED
    BY <2>1
<1>3. CASE Suspend
  <2>1. session'.stage = "enter" /\ session'.restored = FALSE
    BY <1>3 DEF Suspend, NoRun
  <2>2. QED
    BY <2>1
<1>4. CASE EnterAttached
  <2>1. PICK done \in ResizesIfReal(session.terminal_size), measured \in BOOLEAN :
          /\ target' = done.target
          /\ IF done.ok /\ measured
             THEN session' = [session EXCEPT !.stage = "size"] /\ Pushes(done.log)
             ELSE Abandons(done.log)
    BY <1>4 DEF EnterAttached
  <2>2. /\ options.resize = "UseRealTerminalSize" /\ done.ok =>
             done.target = [pty |-> session.terminal_size,
                            surface |-> session.terminal_size]
    BY <1>1, ResizesIs
  <2>3. /\ session'.restored = session.restored
        /\ session'.terminal_size = session.terminal_size
        /\ \/ session'.stage = "size" /\ done.ok
           \/ session'.stage = "abort"
    BY <1>1, <2>1 DEF Abandons, SessionType
  <2>4. options' = options /\ session.stage = "enter"
    BY <1>4 DEF EnterAttached, fixed
  <2>5. QED
    BY <1>1, <2>1, <2>2, <2>3, <2>4
<1>5. CASE CheckSize
  <2>1. /\ options' = options /\ bridge' = bridge /\ session.stage = "size"
        /\ ~session.restored
    BY <1>1, <1>5 DEF CheckSize, fixed
  <2>2. CASE Abandons(<< >>)
    <3>1. session'.stage = "abort" /\ session'.restored = session.restored
      BY <1>1, <2>2 DEF Abandons, SessionType
    <3>2. QED
      BY <2>1, <3>1
  <2>3. CASE Goes("stdin") /\ UNCHANGED target
    <3>1. /\ session'.stage = "stdin" /\ session'.restored = session.restored
          /\ session'.terminal_size = session.terminal_size
      BY <1>1, <2>3 DEF Goes, SessionType
    <3>2. QED
      BY <1>1, <2>1, <2>3, <3>1
  <2>4. ASSUME NEW done \in ResizesIfReal(real_size), target' = done.target,
               IF done.ok
               THEN /\ session' = [session EXCEPT !.stage = "stdin",
                                                  !.terminal_size = real_size]
                    /\ Pushes(done.log)
               ELSE Abandons(done.log)
        PROVE  SizeInv'
    <3>1. options.resize = "UseRealTerminalSize" /\ done.ok =>
             done.target = [pty |-> real_size, surface |-> real_size]
      BY <1>1, ResizesIs
    <3>2. /\ session'.restored = session.restored
          /\ \/ /\ session'.stage = "stdin" /\ done.ok
                /\ session'.terminal_size = real_size
             \/ session'.stage = "abort"
      BY <1>1, <2>4 DEF Abandons, SessionType
    <3>3. QED
      BY <2>1, <2>4, <3>1, <3>2
  <2>5. QED
    BY <1>5, <2>2, <2>3, <2>4 DEF CheckSize
<1>6. ASSUME session.stage \notin {"idle", "enter", "hand_back", "abort"},
             session'.stage \notin {"idle", "enter", "hand_back"},
             session'.restored = session.restored,
             session'.terminal_size = session.terminal_size,
             options' = options, target' = target,
             bridge' = bridge \/ bridge' # "Attached"
      PROVE  SizeInv'
  BY <1>1, <1>6
<1>7. CASE PollStdin
  <2>1. /\ session.stage = "stdin" /\ options' = options /\ target' = target
        /\ session'.stage \in {"output", "drain", "abort"}
        /\ session'.restored = session.restored
        /\ session'.terminal_size = session.terminal_size
    BY <1>1, <1>7 DEF PollStdin, Abandons, fixed, SessionType
  <2>2. bridge' = bridge \/ bridge' # "Attached"
    BY <1>7 DEF PollStdin, Moves
  <2>3. QED
    BY <1>6, <2>1, <2>2
<1>8. CASE OutputFrame
  <2>1. /\ session.stage \in {"output", "drain"}
        /\ session'.stage \in {session.stage, "abort"}
        /\ session'.restored = session.restored
        /\ session'.terminal_size = session.terminal_size
    BY <1>1, <1>8 DEF OutputFrame, Draining, Abandons, SessionType
  <2>2. options' = options /\ target' = target /\ bridge' = bridge
    BY <1>8 DEF OutputFrame, fixed
  <2>3. QED
    BY <1>6, <2>1, <2>2
<1>9. CASE OtherFrame \/ ErrorFrame
  <2>1. /\ session.stage \in {"output", "drain"}
        /\ session'.stage \in {session.stage, "abort"}
        /\ session'.restored = session.restored
        /\ session'.terminal_size = session.terminal_size
    BY <1>1, <1>9 DEF OtherFrame, ErrorFrame, Draining, Abandons, SessionType
  <2>2. options' = options /\ target' = target /\ bridge' = bridge
    BY <1>9 DEF OtherFrame, ErrorFrame, fixed
  <2>3. QED
    BY <1>6, <2>1, <2>2
<1>10. CASE TickEnds \/ DrainPass \/ Replay
  <2>1. /\ session.stage \in {"output", "drain", "replay"}
        /\ session'.stage \in {"size", "drain", "replay", "restore_size", "abort"}
        /\ session'.restored = session.restored
        /\ session'.terminal_size = session.terminal_size
    BY <1>1, <1>10 DEF TickEnds, DrainPass, Replay, Goes, Abandons, SessionType
  <2>2. options' = options /\ target' = target /\ bridge' = bridge
    BY <1>10 DEF TickEnds, DrainPass, Replay, fixed
  <2>3. QED
    BY <1>6, <2>1, <2>2
<1>11. CASE RestoreSize
  <2>1. PICK done \in ResizesIfReal(EmbeddedSize) :
          /\ target' = done.target
          /\ session' = [session EXCEPT
                           !.stage = IF done.ok THEN "hand_back" ELSE "abort",
                           !.restored = done.ok]
    BY <1>11, Zenon DEF RestoreSize
  <2>2. /\ done.ok \in BOOLEAN
        /\ options.resize = "UseRealTerminalSize" /\ done.ok => done.target = Embedded
    BY <1>1, ResizesIs DEF Embedded
  <2>3. /\ session'.stage = (IF done.ok THEN "hand_back" ELSE "abort")
        /\ session'.restored = done.ok
    BY <1>1, <2>1 DEF SessionType
  <2>4. options' = options /\ bridge' = bridge /\ bridge # "Attached"
    BY <1>1, <1>11 DEF RestoreSize, fixed, BridgeInv
  <2>5. QED
    BY <2>1, <2>2, <2>3, <2>4
<1>12. CASE HandBack
  <2>1. /\ options' = options /\ target' = target /\ session.stage = "hand_back"
    BY <1>12 DEF HandBack, fixed
  <2>2. \/ session' = NoRun("UserChord")
        \/ session' = [session EXCEPT !.stage = "abort"]
    BY <1>12 DEF HandBack, Abandons
  <2>3. CASE session' = NoRun("UserChord")
    <3>1. session'.stage = "idle" /\ session'.restored = FALSE
      BY <2>3 DEF NoRun
    <3>2. QED
      BY <1>1, <2>1, <3>1 DEF Embedded
  <2>4. CASE session' = [session EXCEPT !.stage = "abort"]
    <3>1. session'.stage = "abort" /\ session'.restored = session.restored
      BY <1>1, <2>4 DEF SessionType
    <3>2. QED
      BY <1>1, <2>1, <3>1
  <2>5. QED
    BY <2>2, <2>3, <2>4
<1>13. CASE Abort
  <2>1. PICK done \in AbortSizes :
          /\ target' = done.target
          /\ session' = [NoRun("Error") EXCEPT !.resize_refused = ~done.ok]
    BY <1>13, Zenon DEF Abort
  <2>2. /\ session'.stage = "idle" /\ session'.restored = FALSE
        /\ session'.resize_refused = ~done.ok
    BY <2>1 DEF NoRun
  <2>3. options' = options
    BY <1>13 DEF Abort, fixed
  <2>4. done.ok /\ options.resize = "UseRealTerminalSize" => target' = Embedded
    <3>1. CASE session.restored
      BY <1>1, <2>1, <3>1, AbortSizesIs
    <3>2. CASE ~session.restored
      <4>1. done \in ResizesIfReal(EmbeddedSize)
        BY <1>1, <3>2, AbortSizesIs
      <4>2. QED
        BY <1>1, <2>1, <4>1, ResizesIs DEF Embedded
    <3>3. QED
      BY <3>1, <3>2
  <2>5. QED
    BY <1>1, <2>1, <2>2, <2>3, <2>4, AbortSizesIs DEF Embedded
<1>14. CASE TypeChord \/ ResizeTerminal
  BY <1>1, <1>14 DEF TypeChord, ResizeTerminal, fixed
<1>15. CASE UNCHANGED vars
  BY <1>1, <1>15 DEF vars
<1>16. QED
  BY <1>2, <1>3, <1>4, <1>5, <1>7, <1>8, <1>9, <1>10, <1>11, <1>12, <1>13, <1>14,
     <1>15 DEF Next, Run

\* The watched frame: what the user saw and the surface did not is in the replay.
LEMMA StepOutputInv == IInv /\ [Next]_vars => OutputInv'
<1> SUFFICES ASSUME IInv, [Next]_vars PROVE OutputInv'
  OBVIOUS
<1>1. session \in SessionType /\ OutputInv
  BY DEF IInv, TypeOK
<1> USE DEF OutputInv, SurfaceSawAll, Idle
<1>2. CASE Refused \/ SuspendFails
  <2>1. session'.stage = "idle" /\ session'.outcome = "Refused"
    BY <1>2 DEF Refused, SuspendFails, NoRun
  <2>2. QED
    BY <2>1
<1>3. CASE Suspend
  <2>1. session'.stage = "enter" /\ watched' # "shown"
    BY <1>3 DEF Suspend, NoRun
  <2>2. QED
    BY <2>1
<1>4. ASSUME session.stage \notin {"idle", "restore_size", "hand_back", "abort"},
             session'.stage \notin {"idle", "restore_size", "hand_back"},
             session'.replay = session.replay, watched' = watched
      PROVE  OutputInv'
  BY <1>1, <1>4
<1>5. CASE EnterAttached
  <2>1. /\ session'.stage \in {"size", "abort"} /\ session'.replay = session.replay
    BY <1>1, <1>5 DEF EnterAttached, Abandons, SessionType
  <2>2. QED
    BY <1>4, <1>5, <2>1 DEF EnterAttached
<1>6. CASE CheckSize
  <2>1. /\ session'.stage \in {"stdin", "abort"} /\ session'.replay = session.replay
    BY <1>1, <1>6 DEF CheckSize, Goes, Abandons, SessionType
  <2>2. QED
    BY <1>4, <1>6, <2>1 DEF CheckSize
<1>7. CASE PollStdin
  <2>1. /\ session'.stage \in {"output", "drain", "abort"}
        /\ session'.replay = session.replay
    BY <1>1, <1>7 DEF PollStdin, Abandons, SessionType
  <2>2. QED
    BY <1>4, <1>7, <2>1 DEF PollStdin
<1>8. CASE OutputFrame
  <2>1. session.stage \in {"output", "drain"}
    BY <1>8 DEF OutputFrame, Draining
  <2>2. PICK f \in Output :
         \/ Abandons(<< >>)
         \/ /\ session' = [session EXCEPT !.drained = @ + 1]
            /\ Shows(f, "fed")
         \/ /\ session' = [session EXCEPT !.drained = @ + 1, !.replay = @ \cup {f}]
            /\ Shows(f, "shown")
    BY <1>8, Zenon DEF OutputFrame
  <2>3. CASE Abandons(<< >>)
    <3>1. session'.stage = "abort"
      BY <1>1, <2>3 DEF Abandons, SessionType
    <3>2. QED
      BY <3>1
  <2>4. CASE session' = [session EXCEPT !.drained = @ + 1] /\ Shows(f, "fed")
    <3>1. session'.stage = session.stage /\ session'.replay = session.replay
      BY <1>1, <2>4 DEF SessionType
    <3>2. watched' \in {watched, "fed"}
      BY <2>4 DEF Shows
    <3>3. QED
      BY <1>1, <2>1, <3>1, <3>2
  <2>5. CASE /\ session' = [session EXCEPT !.drained = @ + 1, !.replay = @ \cup {f}]
             /\ Shows(f, "shown")
    <3>1. /\ session'.stage = session.stage
          /\ session'.replay = session.replay \cup {f}
      BY <1>1, <2>5 DEF SessionType
    <3>2. watched' = IF f = "Watched" THEN "shown" ELSE watched
      BY <2>5 DEF Shows
    <3>3. QED
      BY <1>1, <2>1, <3>1, <3>2
  <2>6. QED
    BY <2>2, <2>3, <2>4, <2>5
<1>9. CASE OtherFrame \/ ErrorFrame
  <2>1. /\ session.stage \in {"output", "drain"}
        /\ session'.stage \in {session.stage, "abort"}
        /\ session'.replay = session.replay
    BY <1>1, <1>9 DEF OtherFrame, ErrorFrame, Draining, Abandons, SessionType
  <2>2. QED
    BY <1>4, <1>9, <2>1 DEF OtherFrame, ErrorFrame
<1>10. CASE TickEnds \/ DrainPass
  <2>1. /\ session.stage \in {"output", "drain"}
        /\ session'.stage \in {"size", "drain", "replay"}
        /\ session'.replay = session.replay
    BY <1>1, <1>10 DEF TickEnds, DrainPass, Goes, SessionType
  <2>2. QED
    BY <1>4, <1>10, <2>1 DEF TickEnds, DrainPass
<1>11. CASE Replay
  <2>1. CASE /\ session' = [session EXCEPT !.stage = "restore_size", !.replay = {}]
             /\ watched' = IF "Watched" \in session.replay THEN "fed" ELSE watched
    <3>1. session'.stage = "restore_size" /\ session'.replay = {}
      BY <1>1, <2>1 DEF SessionType
    <3>2. session.stage = "replay"
      BY <1>11 DEF Replay
    <3>3. QED
      BY <1>1, <2>1, <3>1, <3>2
  <2>2. CASE Abandons(<< >>)
    <3>1. session'.stage = "abort"
      BY <1>1, <2>2 DEF Abandons, SessionType
    <3>2. QED
      BY <3>1
  <2>3. QED
    BY <1>11, <2>1, <2>2 DEF Replay
<1>12. CASE RestoreSize
  <2>1. /\ session'.stage \in {"hand_back", "abort"} /\ session.stage = "restore_size"
        /\ session'.replay = session.replay
    BY <1>1, <1>12 DEF RestoreSize, SessionType
  <2>2. QED
    BY <1>1, <1>12, <2>1 DEF RestoreSize
<1>13. CASE HandBack
  <2>1. \/ session' = NoRun("UserChord")
        \/ session' = [session EXCEPT !.stage = "abort"]
    BY <1>13 DEF HandBack, Abandons
  <2>2. session'.stage \in {"idle", "abort"}
    BY <1>1, <2>1 DEF NoRun, SessionType
  <2>3. QED
    BY <1>1, <1>13, <2>2 DEF HandBack
<1>14. CASE Abort
  <2>1. session'.stage = "idle" /\ session'.outcome = "Error"
    BY <1>14 DEF Abort, NoRun
  <2>2. QED
    BY <2>1
<1>15. CASE TypeChord \/ ResizeTerminal
  BY <1>1, <1>15 DEF TypeChord, ResizeTerminal
<1>16. CASE UNCHANGED vars
  BY <1>1, <1>16 DEF vars
<1>17. QED
  BY <1>2, <1>3, <1>5, <1>6, <1>7, <1>8, <1>9, <1>10, <1>11, <1>12, <1>13, <1>14,
     <1>15, <1>16 DEF Next, Run

\* The events, of a step of a run that goes on.
LEMMA RunEvents ==
    ASSUME IInv, ~Idle, NEW more, Middle(more), events' = events \o more,
           session.stage # "abort", session'.stage # "idle",
           session'.stage = "abort" <=> HasError(more),
           options' = options,
           options.resize = "KeepEmbeddedSize" => Quiet(more),
           session'.restored => \/ session.restored /\ Quiet(more)
                                \/ options.resize = "KeepEmbeddedSize"
                                \/ Knows(events \o more, EmbeddedSize)
    PROVE  EventInv'
<1>1. EventInv /\ events \in Seq(EventType)
  BY DEF IInv, TypeOK
<1>2. Begun(events) /\ ~HasError(events)
  BY <1>1 DEF EventInv, Begun, HasError
<1>3. /\ Begun(events')
      /\ HasError(events') <=> HasError(more)
  BY <1>2, BegunJoined
<1>4. options.resize = "KeepEmbeddedSize" \/ session'.restored =>
         Knows(events', EmbeddedSize)
  <2>1. more \in Seq(EventType)
    BY DEF Middle
  <2>2. ASSUME Quiet(more), options.resize = "KeepEmbeddedSize" \/ session.restored
        PROVE  Knows(events', EmbeddedSize)
    <3>1. Knows(events, EmbeddedSize)
      BY <1>1, <2>2 DEF EventInv
    <3>2. QED
      BY <1>1, <2>1, <2>2, <3>1, KnowsQuiet
  <2>3. QED
    BY <2>2
<1>5. QED
  BY <1>3, <1>4 DEF EventInv, EventsTellOutcome, Idle, Begun, HasError, Knows

\* The events: what a run pushes, in each of its steps and at its end.
LEMMA StepEventInv == IInv /\ [Next]_vars => EventInv'
<1> SUFFICES ASSUME IInv, [Next]_vars PROVE EventInv'
  OBVIOUS
<1>1. /\ session \in SessionType /\ target \in TargetType /\ options \in Options
      /\ real_size \in Sizes /\ session.terminal_size \in Sizes /\ EmbeddedSize \in Sizes
      /\ SizeInv /\ EventInv /\ events \in Seq(EventType)
  BY BlockingAttachAssumption DEF IInv, TypeOK, TargetType, SessionType
<1>2. /\ Middle(<< >>) /\ Quiet(<< >>) /\ ~HasError(<< >>)
      /\ Middle(<<Error>>) /\ Quiet(<<Error>>) /\ HasError(<<Error>>)
      /\ << >> \o <<Error>> = <<Error>> /\ events \o << >> = events
  BY <1>1, EventFacts
\* What leads to RunEvents most of the time: nothing is pushed, or an error.
<1>3. ASSUME ~Idle, session.stage # "abort", session'.stage # "idle",
             session'.restored = session.restored, options' = options,
             \/ events' = events /\ session'.stage # "abort"
             \/ events' = events \o (<< >> \o <<Error>>) /\ session'.stage = "abort"
      PROVE  EventInv'
  <2>1. CASE events' = events /\ session'.stage # "abort"
    <3>1. events' = events \o << >>
      BY <1>2, <2>1
    <3>2. QED
      BY <1>2, <1>3, <2>1, <3>1, RunEvents
  <2>2. CASE events' = events \o (<< >> \o <<Error>>) /\ session'.stage = "abort"
    <3>1. events' = events \o <<Error>>
      BY <1>2, <2>2
    <3>2. QED
      BY <1>2, <1>3, <2>2, <3>1, RunEvents
  <2>3. QED
    BY <1>3, <2>1, <2>2
\* A resize whose success pushes Resized, and whose failure an error.
<1>4. ASSUME ~Idle, session.stage # "abort", ~session'.restored, options' = options,
             NEW size \in Sizes, NEW done \in ResizesIfReal(size),
             \/ events' = events \o done.log /\ session'.stage \notin {"idle", "abort"}
             \/ events' = events \o (done.log \o <<Error>>) /\ session'.stage = "abort"
      PROVE  EventInv'
  <2>1. /\ done.log \in {<< >>, <<Event("Resized", size)>>}
        /\ options.resize = "KeepEmbeddedSize" => done.log = << >>
    BY <1>1, ResizesIs
  <2>2. /\ Middle(done.log) /\ ~HasError(done.log)
        /\ Middle(done.log \o <<Error>>) /\ HasError(done.log \o <<Error>>)
        /\ options.resize = "KeepEmbeddedSize" =>
              Quiet(done.log) /\ Quiet(done.log \o <<Error>>)
    BY <2>1, ResizeLog
  <2>3. CASE events' = events \o done.log /\ session'.stage \notin {"idle", "abort"}
    BY <1>4, <2>2, <2>3, RunEvents
  <2>4. CASE events' = events \o (done.log \o <<Error>>) /\ session'.stage = "abort"
    BY <1>4, <2>2, <2>4, RunEvents
  <2>5. QED
    BY <1>4, <2>3, <2>4
<1>5. CASE Refused \/ SuspendFails
  <2>1. session'.outcome = "Refused" /\ session'.stage = "idle"
    BY <1>5 DEF Refused, SuspendFails, NoRun
  <2>2. QED
    BY <2>1 DEF EventInv, EventsTellOutcome, Idle
<1>6. CASE Suspend
  <2>1. /\ session'.stage = "enter" /\ session'.restored = FALSE
        /\ events' = <<AttachStarted>>
    BY <1>6 DEF Suspend, NoRun
  <2>2. Len(events') = 1 /\ events'[1].kind = "AttachStarted"
    BY <2>1, EventTypes
  <2>3. Knows(events', EmbeddedSize)
    BY <2>2 DEF Knows
  <2>4. ~\E i \in 1 .. Len(events') : events'[i].kind = "Error"
    BY <2>2
  <2>5. QED
    BY <2>1, <2>2, <2>3, <2>4 DEF EventInv, EventsTellOutcome, Idle, Knows
<1>7. CASE EnterAttached
  <2>1. PICK done \in ResizesIfReal(session.terminal_size), measured \in BOOLEAN :
          IF done.ok /\ measured
          THEN session' = [session EXCEPT !.stage = "size"] /\ Pushes(done.log)
          ELSE Abandons(done.log)
    BY <1>7 DEF EnterAttached
  <2>2. session.stage = "enter" /\ options' = options /\ ~session.restored
    BY <1>1, <1>7 DEF EnterAttached, fixed, SizeInv
  <2>3. /\ session'.restored = session.restored
        /\ \/ events' = events \o done.log /\ session'.stage = "size"
           \/ events' = events \o (done.log \o <<Error>>) /\ session'.stage = "abort"
    BY <1>1, <2>1 DEF Pushes, Abandons, SessionType
  <2>4. QED
    BY <1>1, <1>4, <2>2, <2>3 DEF Idle
<1>8. CASE CheckSize
  <2>1. session.stage = "size" /\ options' = options /\ ~session.restored
    BY <1>1, <1>8 DEF CheckSize, fixed, SizeInv
  <2>2. CASE Abandons(<< >>)
    <3>1. /\ session'.stage = "abort" /\ session'.restored = session.restored
          /\ events' = events \o (<< >> \o <<Error>>)
      BY <1>1, <2>2 DEF Abandons, Pushes, SessionType
    <3>2. QED
      BY <1>3, <2>1, <3>1 DEF Idle
  <2>3. CASE Goes("stdin")
    <3>1. /\ session'.stage = "stdin" /\ session'.restored = session.restored
          /\ events' = events
      BY <1>1, <2>3 DEF Goes, SessionType
    <3>2. QED
      BY <1>3, <2>1, <3>1 DEF Idle
  <2>4. ASSUME NEW done \in ResizesIfReal(real_size),
               IF done.ok
               THEN /\ session' = [session EXCEPT !.stage = "stdin",
                                                  !.terminal_size = real_size]
                    /\ Pushes(done.log)
               ELSE Abandons(done.log)
        PROVE  EventInv'
    <3>1. /\ session'.restored = session.restored
          /\ \/ events' = events \o done.log /\ session'.stage = "stdin"
             \/ events' = events \o (done.log \o <<Error>>) /\ session'.stage = "abort"
      BY <1>1, <2>4 DEF Pushes, Abandons, SessionType
    <3>2. QED
      BY <1>1, <1>4, <2>1, <3>1 DEF Idle
  <2>5. QED
    BY <1>8, <2>2, <2>3, <2>4 DEF CheckSize
<1>9. CASE PollStdin
  <2>1. /\ session.stage = "stdin" /\ options' = options
        /\ session'.restored = session.restored
        /\ \/ events' = events /\ session'.stage \in {"output", "drain"}
           \/ events' = events \o (<< >> \o <<Error>>) /\ session'.stage = "abort"
    BY <1>1, <1>9 DEF PollStdin, Pushes, Abandons, fixed, SessionType
  <2>2. QED
    BY <1>3, <2>1 DEF Idle
<1>10. CASE OutputFrame
  <2>1. session.stage \in {"output", "drain"} /\ options' = options
    BY <1>10 DEF OutputFrame, Draining, fixed
  <2>2. PICK f \in Output :
         \/ Abandons(<< >>)
         \/ /\ session' = [session EXCEPT !.drained = @ + 1]
            /\ UNCHANGED events
         \/ /\ session' = [session EXCEPT !.drained = @ + 1, !.replay = @ \cup {f}]
            /\ UNCHANGED events
    BY <1>10, Zenon DEF OutputFrame
  <2>3. /\ session'.restored = session.restored
        /\ \/ events' = events /\ session'.stage = session.stage
           \/ events' = events \o (<< >> \o <<Error>>) /\ session'.stage = "abort"
    BY <1>1, <2>2 DEF Pushes, Abandons, SessionType
  <2>4. QED
    BY <1>3, <2>1, <2>3 DEF Idle
<1>11. CASE OtherFrame
  <2>1. /\ session.stage \in {"output", "drain"} /\ options' = options
        /\ session'.restored = session.restored
        /\ events' = events /\ session'.stage = session.stage
    BY <1>1, <1>11 DEF OtherFrame, Draining, fixed, SessionType
  <2>2. QED
    BY <1>3, <2>1 DEF Idle
<1>12. CASE ErrorFrame
  <2>1. /\ session.stage \in {"output", "drain"} /\ options' = options
        /\ session'.restored = session.restored
        /\ events' = events \o (<< >> \o <<Error>>) /\ session'.stage = "abort"
    BY <1>1, <1>12 DEF ErrorFrame, Draining, Pushes, Abandons, fixed, SessionType
  <2>2. QED
    BY <1>3, <2>1 DEF Idle
<1>13. CASE TickEnds \/ DrainPass
  <2>1. /\ session.stage \in {"output", "drain"} /\ options' = options
        /\ session'.restored = session.restored
        /\ events' = events /\ session'.stage \in {"size", "drain", "replay"}
    BY <1>1, <1>13 DEF TickEnds, DrainPass, Goes, fixed, SessionType
  <2>2. QED
    BY <1>3, <2>1 DEF Idle
<1>14. CASE Replay
  <2>1. /\ session.stage = "replay" /\ options' = options
        /\ session'.restored = session.restored
        /\ \/ events' = events /\ session'.stage = "restore_size"
           \/ events' = events \o (<< >> \o <<Error>>) /\ session'.stage = "abort"
    BY <1>1, <1>14 DEF Replay, Pushes, Abandons, fixed, SessionType
  <2>2. QED
    BY <1>3, <2>1 DEF Idle
<1>15. CASE RestoreSize
  <2>1. PICK done \in ResizesIfReal(EmbeddedSize) :
          /\ session' = [session EXCEPT
                           !.stage = IF done.ok THEN "hand_back" ELSE "abort",
                           !.restored = done.ok]
          /\ Pushes(IF done.ok THEN done.log ELSE done.log \o <<Error>>)
    BY <1>15, Zenon DEF RestoreSize
  <2>2. session.stage = "restore_size" /\ options' = options
    BY <1>15 DEF RestoreSize, fixed
  <2>3. /\ done.ok \in BOOLEAN
        /\ options.resize = "UseRealTerminalSize" /\ done.ok =>
              done.log = <<Event("Resized", EmbeddedSize)>>
        /\ options.resize = "KeepEmbeddedSize" => done.log = << >>
        /\ options.resize \in {"UseRealTerminalSize", "KeepEmbeddedSize"}
    BY <1>1, ResizesIs
  <2>4. CASE ~done.ok
    <3>1. /\ session'.stage = "abort" /\ ~session'.restored
          /\ events' = events \o (done.log \o <<Error>>)
      BY <1>1, <2>1, <2>4 DEF Pushes, SessionType
    <3>2. QED
      BY <1>1, <1>4, <2>2, <3>1 DEF Idle
  <2>5. CASE done.ok
    <3>1. session'.stage = "hand_back" /\ events' = events \o done.log
      BY <1>1, <2>1, <2>5 DEF Pushes, SessionType
    <3>2. CASE options.resize = "KeepEmbeddedSize"
      <4>1. events' = events \o << >>
        BY <2>3, <3>1, <3>2
      <4>2. QED
        BY <1>2, <2>2, <3>1, <3>2, <4>1, RunEvents DEF Idle
    <3>3. CASE options.resize = "UseRealTerminalSize"
      <4> DEFINE log == <<Event("Resized", EmbeddedSize)>>
      <4>1. events' = events \o log
        BY <2>3, <2>5, <3>1, <3>3
      <4>2. Middle(log) /\ ~HasError(log)
        BY <1>1, EventFacts
      <4>3. Knows(events \o log, EmbeddedSize)
        BY <1>1, KnowsResized
      <4> HIDE DEF log
      <4>4. QED
        BY <2>2, <3>1, <3>3, <4>1, <4>2, <4>3, RunEvents DEF Idle
    <3>4. QED
      BY <2>3, <3>2, <3>3
  <2>6. QED
    BY <2>3, <2>4, <2>5
<1>16. CASE HandBack
  <2>1. session.stage = "hand_back" /\ options' = options /\ session.restored
    BY <1>1, <1>16 DEF HandBack, fixed, SizeInv
  <2>2. CASE session' = NoRun("UserChord") /\ Pushes(<<AttachEnded>>)
    <3>1. session'.stage = "idle" /\ session'.outcome = "UserChord"
      BY <2>2 DEF NoRun
    <3>2. Begun(events) /\ ~HasError(events) /\ Knows(events, EmbeddedSize)
      BY <1>1, <2>1 DEF EventInv, Idle, Begun, HasError
    <3>3. /\ Told("AttachStarted")' = {1} /\ Told("AttachEnded")' = {Len(events')}
          /\ Told("Error")' = {} /\ LastSize' = EmbeddedSize
      BY <2>2, <3>2, EndedTellsNext DEF Pushes
    <3>4. QED
      BY <3>1, <3>3 DEF EventInv, EventsTellOutcome, Idle
  <2>3. CASE Abandons(<< >>)
    <3>1. /\ session'.stage = "abort" /\ session'.restored = session.restored
          /\ events' = events \o (<< >> \o <<Error>>)
      BY <1>1, <2>3 DEF Abandons, Pushes, SessionType
    <3>2. QED
      BY <1>3, <2>1, <3>1 DEF Idle
  <2>4. QED
    BY <1>16, <2>2, <2>3 DEF HandBack
<1>17. CASE Abort
  <2>1. PICK done \in AbortSizes, token \in guard :
          \E back \in DetachTwice(term, token) :
            /\ session' = [NoRun("Error") EXCEPT !.resize_refused = ~done.ok]
            /\ Pushes(done.log \o (IF done.ok THEN << >> ELSE <<Error>>) \o back.log
                      \o <<AttachEnded>>)
    BY <1>17, Zenon DEF Abort
  <2>2. PICK back \in DetachTwice(term, token) :
            /\ session' = [NoRun("Error") EXCEPT !.resize_refused = ~done.ok]
            /\ Pushes(done.log \o (IF done.ok THEN << >> ELSE <<Error>>) \o back.log
                      \o <<AttachEnded>>)
    BY <2>1
  <2>3. session.stage = "abort"
    BY <1>17 DEF Abort
  <2>4. back.log \in {<< >>, <<Error>>, <<Error, Error>>}
    BY <2>1, <2>3, LentOrGiven, DetachTwiceIs DEF Idle
  <2>5. /\ done.ok \in BOOLEAN
        /\ done.log \in {<< >>, <<Event("Resized", EmbeddedSize)>>}
        /\ session.restored => done.log = << >>
        /\ ~session.restored /\ done.ok /\ options.resize = "UseRealTerminalSize" =>
              done.log = <<Event("Resized", EmbeddedSize)>>
        /\ options.resize = "KeepEmbeddedSize" => done.log = << >>
        /\ options.resize \in {"UseRealTerminalSize", "KeepEmbeddedSize"}
    <3>1. /\ done.ok \in BOOLEAN
          /\ done.log \in {<< >>, <<Event("Resized", EmbeddedSize)>>}
          /\ session.restored => done.log = << >>
          /\ ~session.restored => done \in ResizesIfReal(EmbeddedSize)
      BY <1>1, AbortSizesIs
    <3>2. options.resize \in {"UseRealTerminalSize", "KeepEmbeddedSize"}
      BY <1>1, BlockingAttachAssumption DEF Option
    <3>3. ~session.restored =>
             /\ options.resize = "UseRealTerminalSize" /\ done.ok =>
                   done.log = <<Event("Resized", EmbeddedSize)>>
             /\ options.resize = "KeepEmbeddedSize" => done.log = << >>
      BY <1>1, <3>1, ResizesIs
    <3>4. QED
      BY <3>1, <3>2, <3>3
  <2> DEFINE told == IF done.ok THEN << >> ELSE <<Error>>
             rest == told \o back.log
             log  == events \o done.log
             all  == log \o rest
  <2>6. Middle(done.log)
    BY <1>1, <2>5, ResizeLog
  <2>7. Middle(rest) /\ Quiet(rest)
    <3>1. Middle(<<Error, Error>>) /\ Quiet(<<Error, Error>>)
      BY EventTypes DEF Middle, Quiet
    <3>2. Middle(back.log) /\ Quiet(back.log)
      BY <1>2, <2>4, <3>1
    <3>3. Middle(told) /\ Quiet(told)
      BY <1>2
    <3> HIDE DEF told
    <3>4. QED
      BY <3>2, <3>3, MiddleJoined
  <2>8. events' = all \o <<AttachEnded>>
    <3>1. told \in Seq(EventType)
      BY EventTypes
    <3>2. events' = events \o (done.log \o told \o back.log \o <<AttachEnded>>)
      BY <2>2 DEF Pushes
    <3> HIDE DEF told
    <3>3. done.log \in Seq(EventType)
      BY <2>6 DEF Middle
    <3>4. back.log \in Seq(EventType) /\ <<AttachEnded>> \in Seq(EventType)
      <4>1. << >> \in Seq(EventType)
        OBVIOUS
      <4>2. QED
        BY <2>4, <4>1, EventTypes, Zenon
    <3> DEFINE sized == done.log
               back_log == back.log
               last == <<AttachEnded>>
    <3>5. /\ sized \in Seq(EventType) /\ back_log \in Seq(EventType)
          /\ last \in Seq(EventType)
      BY <3>3, <3>4
    <3>6. events' = events \o (sized \o told \o back_log \o last)
      BY <3>2
    <3>7. events' = ((events \o sized) \o (told \o back_log)) \o last
      <4> HIDE DEF sized, back_log, last
      <4>1. events \in Seq(EventType)
        BY <1>1
      <4> DEFINE end    == told \o back_log
                 middle == sized \o end
      <4>2. end \in Seq(EventType) /\ middle \in Seq(EventType)
        BY <3>1, <3>5, Joined
      <4>3. sized \o told \o back_log = middle
        BY <3>1, <3>5, Associates
      <4>4. (events \o sized) \o end = events \o middle
        <5>1. end \in Seq(EventType)
          BY <4>2
        <5> HIDE DEF end
        <5>2. QED
          BY <3>5, <4>1, <5>1, Associates
      <4>5. (events \o middle) \o last = events \o (middle \o last)
        <5> HIDE DEF middle
        <5>1. QED
          BY <3>5, <4>1, <4>2, Associates
      <4>6. QED
        BY <3>6, <4>3, <4>4, <4>5, Zenon
    <3>8. QED
      BY <3>7
  <2>9. Begun(events) /\ HasError(events)
    BY <1>1, <2>3 DEF EventInv, Idle, Begun, HasError
  <2>10. Begun(log) /\ HasError(log)
    BY <2>6, <2>9, BegunJoined
  <2> HIDE DEF rest, log
  <2>11. Begun(all) /\ HasError(all)
    BY <2>7, <2>10, BegunJoined
  <2>12. done.ok => Knows(all, EmbeddedSize)
    <3>1. ASSUME done.ok PROVE Knows(log, EmbeddedSize)
      <4>1. CASE session.restored \/ options.resize = "KeepEmbeddedSize"
        <5>1. Knows(events, EmbeddedSize)
          BY <1>1, <2>3, <4>1 DEF EventInv, Idle
        <5>2. log = events
          BY <1>2, <2>5, <4>1 DEF log
        <5>3. QED
          BY <5>1, <5>2
      <4>2. CASE ~session.restored /\ options.resize = "UseRealTerminalSize"
        BY <1>1, <2>5, <3>1, <4>2, KnowsResized DEF log
      <4>3. QED
        BY <2>5, <4>1, <4>2
    <3>2. log \in Seq(EventType) /\ rest \in Seq(EventType)
      BY <2>7, <2>10 DEF Middle, Begun
    <3>3. QED
      BY <2>7, <3>1, <3>2, KnowsQuiet
  <2> HIDE DEF all
  <2>13. /\ Told("AttachStarted")' = {1} /\ Told("AttachEnded")' = {Len(events')}
         /\ Told("Error")' # {} /\ (done.ok => LastSize' = EmbeddedSize)
    BY <2>8, <2>11, <2>12, EndedTellsNext
  <2>14. /\ session'.stage = "idle" /\ session'.outcome = "Error"
         /\ session'.resize_refused = ~done.ok
    BY <2>2 DEF NoRun
  <2>15. QED
    BY <2>5, <2>13, <2>14 DEF EventInv, EventsTellOutcome, Idle
<1>18. CASE TypeChord \/ ResizeTerminal
  <2>1. UNCHANGED <<session, events, options>>
    BY <1>18 DEF TypeChord, ResizeTerminal, fixed
  <2>2. QED
    BY <1>1, <2>1 DEF EventInv, EventsTellOutcome, Idle, Told, LastSize, Knows
<1>19. CASE UNCHANGED vars
  <2>1. UNCHANGED <<session, events, options>>
    BY <1>19 DEF vars
  <2>2. QED
    BY <1>1, <2>1 DEF EventInv, EventsTellOutcome, Idle, Told, LastSize, Knows
<1>20. QED
  BY <1>5, <1>6, <1>7, <1>8, <1>9, <1>10, <1>11, <1>12, <1>13, <1>14, <1>15, <1>16,
     <1>17, <1>18, <1>19 DEF Next, Run

\* The lent terminal.
LEMMA StepLentInv == IInv /\ [Next]_vars => LentInv'
<1> SUFFICES ASSUME IInv, [Next]_vars PROVE LentInv'
  OBVIOUS
<1>1. /\ session \in SessionType /\ host \in Hosts /\ LentInv
      /\ host.mouse = "host"
  BY HostFacts DEF IInv, TypeOK
<1>2. UNCHANGED <<host, options>> => HostToken' = HostToken
  BY DEF HostToken
<1>3. UNCHANGED fixed
  <2>1. CASE Next
    BY <2>1, Zenon DEF Next, Run, Refused, SuspendFails, Suspend, EnterAttached, CheckSize,
         PollStdin, OutputFrame, OtherFrame, ErrorFrame, TickEnds, DrainPass, Replay,
         RestoreSize, HandBack, Abort, TypeChord, ResizeTerminal
  <2>2. CASE UNCHANGED vars
    BY <2>2 DEF vars, fixed
  <2>3. QED
    BY <2>1, <2>2
\* How the terminal is when the step ends a run, and when it does not.
<1>4. ASSUME session'.stage = "idle", guard' = {},
             "gave_up" \notin trouble' => Given(term', trouble')
      PROVE  LentInv'
  BY <1>1, <1>2, <1>3, <1>4 DEF LentInv, HostHandedBack, Given, Idle, fixed
<1>5. ASSUME session'.stage # "idle", guard' = {HostToken}, "gave_up" \notin trouble',
             Lent(term', trouble')
      PROVE  LentInv'
  BY <1>1, <1>2, <1>3, <1>5 DEF LentInv, HostHandedBack, Lent, Idle, fixed
<1>6. ASSUME UNCHANGED lent, Idle' = Idle
      PROVE  LentInv'
  BY <1>1, <1>2, <1>3, <1>6 DEF LentInv, HostHandedBack, lent, fixed
<1>7. CASE Refused
  <2>1. session'.stage = "idle" /\ session.stage = "idle" /\ UNCHANGED <<guard, term, trouble>>
    BY <1>7 DEF Refused, MayRun, Idle, NoRun
  <2>2. QED
    BY <1>1, <1>2, <1>3, <2>1 DEF LentInv, HostHandedBack, Idle, fixed
<1>8. CASE SuspendFails
  <2>1. PICK s \in Suspends(term, options.screen, host.screen = "alternate") :
          ~s.ok /\ term' = s.term /\ trouble' = Noted(s)
    BY <1>8 DEF SuspendFails
  <2>2. /\ Idle /\ "gave_up" \notin trouble /\ guard' = guard /\ session'.stage = "idle"
    BY <1>8 DEF SuspendFails, MayRun, NoRun
  <2>3. "gave_up" \notin trouble' => Given(term', trouble')
    BY <2>1, <2>2, LentOrGiven, SuspendsIs
  <2>4. guard' = {}
    BY <1>1, <2>2 DEF LentInv
  <2>5. QED
    BY <1>4, <2>2, <2>3, <2>4
<1>9. CASE Suspend
  <2>1. PICK s \in Suspends(term, options.screen, host.screen = "alternate") :
          s.ok /\ term' = s.term /\ guard' = {s.token}
    BY <1>9 DEF Suspend
  <2>2. /\ Idle /\ "gave_up" \notin trouble /\ trouble' = trouble
        /\ session'.stage = "enter"
    BY <1>9 DEF Suspend, MayRun, NoRun
  <2>3. s.token = HostToken /\ Lent(term', trouble')
    BY <2>1, <2>2, LentOrGiven, SuspendsIs
  <2>4. QED
    BY <1>5, <2>1, <2>2, <2>3
<1>10. CASE EnterAttached \/ CheckSize \/ PollStdin
  <2>1. session.stage # "idle" /\ session'.stage # "idle"
    <3>1. CASE EnterAttached
      BY <1>1, <3>1 DEF EnterAttached, Abandons, SessionType
    <3>2. CASE CheckSize
      BY <1>1, <3>2 DEF CheckSize, Abandons, Goes, SessionType
    <3>3. CASE PollStdin
      BY <1>1, <3>3 DEF PollStdin, Abandons, SessionType
    <3>4. QED
      BY <1>10, <3>1, <3>2, <3>3
  <2>2. UNCHANGED lent
    BY <1>10, Zenon DEF EnterAttached, CheckSize, PollStdin
  <2>3. QED
    BY <1>6, <2>1, <2>2 DEF Idle
<1>11. CASE OutputFrame \/ OtherFrame \/ ErrorFrame
  <2>1. session.stage # "idle" /\ session'.stage # "idle"
    <3>1. CASE OutputFrame
      BY <1>1, <3>1 DEF OutputFrame, Draining, Abandons, SessionType
    <3>2. CASE OtherFrame \/ ErrorFrame
      BY <1>1, <3>2 DEF OtherFrame, ErrorFrame, Draining, Abandons, SessionType
    <3>3. QED
      BY <1>11, <3>1, <3>2
  <2>2. UNCHANGED lent
    BY <1>11, Zenon DEF OutputFrame, OtherFrame, ErrorFrame
  <2>3. QED
    BY <1>6, <2>1, <2>2 DEF Idle
<1>12. CASE TickEnds \/ DrainPass \/ Replay \/ RestoreSize
  <2>1. session.stage # "idle" /\ session'.stage # "idle"
    <3>1. CASE TickEnds \/ DrainPass
      BY <1>1, <3>1 DEF TickEnds, DrainPass, Goes, SessionType
    <3>2. CASE Replay
      BY <1>1, <3>2 DEF Replay, Abandons, SessionType
    <3>3. CASE RestoreSize
      BY <1>1, <3>3 DEF RestoreSize, SessionType
    <3>4. QED
      BY <1>12, <3>1, <3>2, <3>3
  <2>2. UNCHANGED lent
    BY <1>12, Zenon DEF TickEnds, DrainPass, Replay, RestoreSize
  <2>3. QED
    BY <1>6, <2>1, <2>2 DEF Idle
<1>13. CASE HandBack
  <2>1. PICK token \in guard : \E r \in Restores(term, token) :
          /\ term' = r.term
          /\ trouble' = trouble \cup Popped(r)
          /\ IF r.ok THEN guard' = {} /\ session' = NoRun("UserChord")
             ELSE Abandons(<< >>) /\ UNCHANGED <<guard, bridge>>
    BY <1>13, Zenon DEF HandBack
  <2>2. PICK r \in Restores(term, token) :
          /\ term' = r.term
          /\ trouble' = trouble \cup Popped(r)
          /\ IF r.ok THEN guard' = {} /\ session' = NoRun("UserChord")
             ELSE Abandons(<< >>) /\ UNCHANGED <<guard, bridge>>
    BY <2>1
  <2>3. session.stage = "hand_back"
    BY <1>13 DEF HandBack
  <2>4. token = HostToken /\ Lent(term, trouble) /\ guard = {HostToken}
    BY <2>1, <2>3, LentOrGiven DEF Idle
  <2>5. /\ r.ok => Given(term', trouble')
        /\ ~r.ok => Lent(term', trouble')
    <3>1. /\ r.ok => Given(r.term, trouble) /\ Popped(r) = {}
          /\ ~r.ok => Lent(r.term, trouble \cup Popped(r))
      BY <2>4, LentOrGiven, RestoresIs
    <3>2. r.ok => trouble' = trouble
      BY <2>2, <3>1
    <3>3. QED
      BY <2>2, <3>1, <3>2
  <2>6. CASE r.ok
    <3>1. session'.stage = "idle" /\ guard' = {}
      BY <2>2, <2>6 DEF NoRun
    <3>2. QED
      BY <1>4, <2>5, <2>6, <3>1
  <2>7. CASE ~r.ok
    <3>1. session'.stage = "abort" /\ guard' = guard
      BY <1>1, <2>2, <2>7 DEF Abandons, SessionType
    <3>2. "gave_up" \notin trouble'
      BY <1>1, <2>2, <2>3 DEF LentInv, Idle, Popped
    <3>3. QED
      BY <1>5, <2>4, <2>5, <2>7, <3>1, <3>2
  <2>8. QED
    BY <2>6, <2>7
<1>14. CASE Abort
  <2>1. PICK done \in AbortSizes, token \in guard :
          \E back \in DetachTwice(term, token) :
            /\ term' = back.term
            /\ trouble' = trouble \cup back.trouble
            /\ session' = [NoRun("Error") EXCEPT !.resize_refused = ~done.ok]
    BY <1>14, Zenon DEF Abort
  <2>2. PICK back \in DetachTwice(term, token) :
          /\ term' = back.term
          /\ trouble' = trouble \cup back.trouble
          /\ session' = [NoRun("Error") EXCEPT !.resize_refused = ~done.ok]
    BY <2>1
  <2>3. session.stage = "abort" /\ guard' = {}
    BY <1>14 DEF Abort
  <2>4. token = HostToken /\ Lent(term, trouble)
    BY <2>1, <2>3, LentOrGiven DEF Idle
  <2>5. "gave_up" \notin trouble' => Given(term', trouble')
    BY <2>2, <2>4, LentOrGiven, DetachTwiceIs
  <2>6. session'.stage = "idle"
    BY <2>2 DEF NoRun
  <2>7. QED
    BY <1>4, <2>3, <2>5, <2>6
<1>15. CASE TypeChord \/ ResizeTerminal
  BY <1>6, <1>15 DEF TypeChord, ResizeTerminal, Idle
<1>16. CASE UNCHANGED vars
  BY <1>6, <1>16 DEF vars, lent, Idle
<1>17. QED
  BY <1>7, <1>8, <1>9, <1>10, <1>11, <1>12, <1>13, <1>14, <1>15, <1>16 DEF Next, Run

-----------------------------------------------------------------------------
(* What is promised of BlockingAttachSession::run. *)

\* The inductive invariant holds throughout.
LEMMA AlwaysIInv == Spec => []IInv
<1>1. IInv /\ [Next]_vars => IInv'
  BY StepTypeOK, StepBridgeInv, StepSizeInv, StepOutputInv, StepEventInv, StepLentInv
     DEF IInv
<1>2. Safe => []IInv
  BY <1>1, InitInv, PTL DEF Safe
<1>3. QED
  BY <1>2, PTL DEF Spec

\* Session, events, terminal and target keep their types, whatever fails.
THEOREM SessionTypeCorrect == Spec => []TypeOK
BY AlwaysIInv, PTL DEF IInv

\* The bridge's assertions never fail, on any path of errors, in any run.
THEOREM BridgeSafe == Spec => []BridgeNeverPanics
<1>1. IInv => BridgeNeverPanics
  BY DEF IInv, TypeOK, BridgeInv, BridgeNeverPanics, SessionType, Stages
<1>2. QED
  BY <1>1, AlwaysIInv, PTL

\* PTY and surface have the embedded size after a run, and the size the child
\* writes for while the bridge is attached, for all sizes and resizes.
THEOREM SizesGivenBack == Spec => []SizesHandedBack
<1>1. IInv => SizesHandedBack
  BY DEF IInv, SizeInv
<1>2. QED
  BY <1>1, AlwaysIInv, PTL

\* A run that ends by the chord has fed the surface all the user saw.
THEOREM SurfaceComplete == Spec => []SurfaceSawAll
<1>1. IInv => SurfaceSawAll
  BY DEF IInv, OutputInv
<1>2. QED
  BY <1>1, AlwaysIInv, PTL

\* The events of a run tell how it went and with which size it ended.
THEOREM EventsTruthful == Spec => []EventsTellOutcome
<1>1. IInv => EventsTellOutcome
  BY DEF IInv, EventInv
<1>2. QED
  BY <1>1, AlwaysIInv, PTL

\* The host has its terminal back after every run, as far as the control's own
\* failures leave possible: raw mode, screen and mouse modes as it had set them,
\* and, where the policy switches no screen, the keyboard flags of both screens;
\* for every host, screen policy and number of runs.
THEOREM HostTerminalBack == Spec => []HostHandedBack
<1>1. IInv => HostHandedBack
  BY DEF IInv, LentInv
<1>2. QED
  BY <1>1, AlwaysIInv, PTL
=============================================================================
