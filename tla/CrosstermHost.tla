---------------------------- MODULE CrosstermHost ----------------------------
(***************************************************************************)
(* CrosstermTerminalControl (panesmith-attach/src/crossterm_host.rs): how  *)
(* a crossterm host lends its terminal and takes it back.  Both calls are  *)
(* given by the set of results they can have, as the writer under them can *)
(* fail after any of the control sequences, in its flush, or not at all,   *)
(* and the calls that switch raw mode can fail.                            *)
(*                                                                         *)
(* The terminal is a record of the modes the control manages: raw mode,    *)
(* screen, the stack of keyboard enhancement flags of each screen, the     *)
(* mouse modes and the slot the terminal saves them in.  The five mouse    *)
(* modes are switched by adjacent sequences and count as one.  Cursor and  *)
(* screen contents are the host's to redraw.                               *)
(***************************************************************************)
EXTENDS Naturals, Sequences, SequencesExt

ScreenPolicies == {"ReuseHostAlternateScreen", "LeaveAlternateScreen",
                   "EnterFreshAlternateScreen"}

Screens == {"main", "alternate"}

\* A terminal as a host application has set it up, with keyboard flags of its
\* own on its screen and nothing saved.  A host on the alternate screen was
\* started from a shell that may have set flags on the main one.
HostTerminal(raw, screen) ==
    [raw |-> raw, screen |-> screen,
     keyboard |-> [s \in Screens |-> IF s = screen THEN <<"host">>
                                    ELSE IF s = "main" THEN <<"shell">> ELSE << >>],
     mouse |-> "host", saved_mouse |-> "none"]

\* What the terminal does on a control sequence.  Keyboard flags are pushed and
\* popped on the stack of the screen that is shown; a pop of none is ignored.
\* A restore without a save puts the mouse modes to their defaults.
Apply(t, sequence) ==
    CASE sequence = "PushKeyboard"   -> [t EXCEPT !.keyboard[t.screen] = Append(@, "attach")]
      [] sequence = "PopKeyboard"    -> [t EXCEPT !.keyboard[t.screen] =
                                            IF @ = << >> THEN @ ELSE Front(@)]
      [] sequence = "SaveMouse"      -> [t EXCEPT !.saved_mouse = t.mouse]
      [] sequence = "RestoreMouse"   -> [t EXCEPT !.mouse = IF t.saved_mouse = "none"
                                                            THEN "default" ELSE t.saved_mouse]
      [] sequence = "EnableMouse"    -> [t EXCEPT !.mouse = "capture"]
      [] sequence = "EnterAlternate" -> [t EXCEPT !.screen = "alternate"]
      [] sequence = "LeaveAlternate" -> [t EXCEPT !.screen = "main"]

\* The terminal after the first n of the sequences.
After(t, sequences) ==
    LET after[n \in 0 .. Len(sequences)] ==
            IF n = 0 THEN t ELSE Apply(after[n - 1], sequences[n])
    IN  after

\* retrying_write_all and retrying_flush: everything arrives, or the first n.
Written(t, sequences) ==
    LET all   == Len(sequences)
        after == After(t, sequences)
    IN  {[ok |-> TRUE, sent |-> all, term |-> after[all]]}
        \cup {[ok |-> FALSE, sent |-> n, term |-> after[n]] : n \in 0 .. all}

-----------------------------------------------------------------------------
(* The restore token, and the sequences that undo what it stands for. *)

Token(policy, raw, host_alternate) ==
    [ raw_mode_was_enabled |-> raw,
      left_host_alternate_screen |->
          policy = "LeaveAlternateScreen" /\ host_alternate,
      entered_fresh_alternate_screen |->
          policy = "EnterFreshAlternateScreen" /\ ~host_alternate ]

SwitchesScreen(token) ==
    token.left_host_alternate_screen \/ token.entered_fresh_alternate_screen

Enter(token) ==
    <<"PushKeyboard", "SaveMouse", "EnableMouse">>
    \o (IF token.left_host_alternate_screen THEN <<"LeaveAlternate">> ELSE << >>)
    \o (IF token.entered_fresh_alternate_screen THEN <<"EnterAlternate">> ELSE << >>)

\* mutant: the screen is left as the attach had it
UndoKeepsScreen(token) == <<"RestoreMouse", "PopKeyboard">>

Undo(token) ==
    <<"RestoreMouse", "PopKeyboard">>
    \o (IF token.entered_fresh_alternate_screen THEN <<"LeaveAlternate">> ELSE << >>)
    \o (IF token.left_host_alternate_screen THEN <<"EnterAlternate">> ELSE << >>)

\* Switching raw mode off, where the attach switched it on.
RawModeBack(t, token) ==
    IF token.raw_mode_was_enabled THEN {[ok |-> TRUE, term |-> t]}
    ELSE {[ok |-> TRUE, term |-> [t EXCEPT !.raw = FALSE]], [ok |-> FALSE, term |-> t]}

-----------------------------------------------------------------------------
(* suspend_for_attach.  Keyboard flags are pushed before the screen is     *)
(* switched, and popped before it is switched back: if it is, the push and *)
(* the pop are on different stacks.                                        *)
(* `cut': the call failed before all of its sequences were out; `tidy':    *)
(* its clean-up, whose errors are ignored, met none.                       *)

Suspended(t, token) == [ok |-> TRUE, term |-> t, token |-> token, cut |-> FALSE, tidy |-> TRUE]
NotSuspended(t, token, cut, tidy) ==
    [ok |-> FALSE, term |-> t, token |-> token, cut |-> cut, tidy |-> tidy]

\* After a failed write everything is undone, and then raw mode.
CleanedUp(w, token) ==
    UNION {{NotSuspended(raw.term, token, w.sent < Len(Enter(token)), undone.ok /\ raw.ok)
              : raw \in RawModeBack(undone.term, token)}
           : undone \in Written(w.term, Undo(token))}

Suspends(t, policy, host_alternate) ==
    LET token == Token(policy, t.raw, host_alternate)
        raw   == [t EXCEPT !.raw = TRUE]
    IN  \* the flush, the query or the switch of raw mode fails
        {NotSuspended(t, token, FALSE, TRUE)}
        \cup UNION {IF w.ok THEN {Suspended(w.term, token)} ELSE CleanedUp(w, token)
                    : w \in Written(raw, Enter(token))}

\* restore_after_attach.  A failed call can be repeated with the same token;
\* `popped': the failed call had popped the keyboard flags already.
Restores(t, token) ==
    UNION {IF ~w.ok THEN {[ok |-> FALSE, term |-> w.term, popped |-> w.sent >= 2]}
           ELSE {[ok |-> raw.ok, term |-> raw.term, popped |-> ~raw.ok]
                 : raw \in RawModeBack(w.term, token)}
           : w \in Written(t, Undo(token))}
=============================================================================
