---------------------------- MODULE Vt100Surface ----------------------------
(***************************************************************************)
(* Vt100Surface (panesmith-core/src/vt100_surface.rs), the surface behind  *)
(* DefaultSurfaceBackend and Vt100Backend: what feeding and resizing       *)
(* report of the terminal and of its history.                              *)
(*                                                                         *)
(* The vt100 parser is a library, known here by what the surface asks of   *)
(* it: a screen of rows, of which the cursor's is the last and empty; the  *)
(* rows that scroll off the top of the main screen are its history.  A     *)
(* digest of history is the history itself.                                *)
(***************************************************************************)
EXTENDS ModeOverlay

-----------------------------------------------------------------------------
(* The library. *)

NewScreen(rows, capacity) ==
    [in |-> "text", codes |-> {}, on |-> {}, rows |-> rows, capacity |-> capacity,
     main |-> << >>, alternate |-> << >>, history |-> << >>, evicted |-> 0]

OnAlternate(s) == AltScreen \in s.on

\* A line is printed; evicted counts the history rows given up.
PrintLine(s, l) ==
    IF OnAlternate(s) THEN [s EXCEPT !.alternate = LastOf(Append(@, l), s.rows - 1)]
    ELSE LET main    == Append(s.main, l)
             scrolls == Len(main) > s.rows - 1
             history == IF scrolls THEN Append(s.history, Head(main)) ELSE s.history
         IN  [s EXCEPT !.main = LastOf(main, s.rows - 1),
                       !.history = LastOf(history, s.capacity),
                       !.evicted = @ + Len(history) - Len(LastOf(history, s.capacity))]

SetModes(s) == [s EXCEPT !.in = "text", !.on = @ \cup s.codes,
                         !.alternate = IF AltScreen \in s.codes THEN << >> ELSE @]

Process(s, b) ==
    CASE b = Esc                      -> [s EXCEPT !.in = "escape"]
      [] s.in = "escape" /\ b = Reset -> [NewScreen(s.rows, s.capacity) EXCEPT !.evicted = s.evicted]
      [] s.in = "escape" /\ b = Csi   -> [s EXCEPT !.in = "params", !.codes = {}]
      [] s.in = "escape" /\ b = Osc   -> [s EXCEPT !.in = "string"]
      [] s.in = "params" /\ b \in Params -> [s EXCEPT !.codes = ModesIn[b]]
      [] s.in = "params" /\ b = Bel   -> s
      [] s.in = "params" /\ b = "h"   -> SetModes(s)
      [] s.in = "params" /\ b = "l"   -> [s EXCEPT !.in = "text", !.on = @ \ s.codes]
      [] s.in = "text" /\ b \in Lines -> PrintLine(s, b)
      [] s.in = "string" /\ b # Bel   -> s
      [] OTHER                        -> [s EXCEPT !.in = "text"]

SetSize(s, rows) ==
    LET Cut(grid) == SubSeq(grid, 1, IF Len(grid) < rows THEN Len(grid) ELSE rows - 1)
    IN  [s EXCEPT !.rows = rows, !.main = Cut(@), !.alternate = Cut(@)]

VisibleRows(s) == IF OnAlternate(s) THEN s.alternate ELSE s.main

-----------------------------------------------------------------------------
(* What the surface keeps and computes. *)

Scrollback(s) == IF OnAlternate(s) THEN << >> ELSE s.history

\* scrollback_state_from_screen_with_digest_policy: below capacity the length
\* tells every change but that of a reset, and no digest is taken.
ScrollbackState(s, force) ==
    LET history == Scrollback(s)
    IN  [len    |-> Len(history),
         digest |-> IF Len(history) < s.capacity /\ ~force THEN << >> ELSE history]

NewSurface(rows, capacity) ==
    [screen |-> NewScreen(rows, capacity),
     scrollback_state |-> ScrollbackState(NewScreen(rows, capacity), FALSE),
     previous_byte_was_escape |-> FALSE,
     mode_overlay |-> NewOverlay]

Resize(surface, rows) ==
    LET screen == SetSize(surface.screen, rows)
    IN  [surface EXCEPT !.screen = screen, !.scrollback_state = ScrollbackState(screen, FALSE)]

\* mutant: a reset sequence that two feeds divide goes unnoticed
FeedMayResetWithin(bytes, previous_byte_was_escape) ==
    \E i \in 2 .. Len(bytes) : bytes[i - 1] = Esc /\ bytes[i] = Reset

FeedMayReset(bytes, previous_byte_was_escape) ==
    \/ previous_byte_was_escape /\ bytes[1] = Reset
    \/ \E i \in 2 .. Len(bytes) : bytes[i - 1] = Esc /\ bytes[i] = Reset

\* process_bytes_and_count_scrollback_drops: a full history has lost a row
\* when its newest row has become another one.
ProcessAndCount(screen, bytes) ==
    LET Full(s) == s.capacity > 0 /\ Len(Scrollback(s)) = s.capacity
        Counted(c, b) ==
            LET after == Process(c.screen, b)
                drops == /\ Full(c.screen) /\ Full(after)
                         /\ Last(Scrollback(c.screen)) # Last(Scrollback(after))
            IN  [screen |-> after, dropped |-> c.dropped + IF drops THEN 1 ELSE 0]
    IN  Scan(Counted, [screen |-> screen, dropped |-> 0], bytes)

StateAfterFeed(screen, previous, may_reset) ==
    LET len  == Len(Scrollback(screen))
        same == len = previous.len /\ len < screen.capacity
    IN  IF same /\ ~may_reset THEN previous ELSE ScrollbackState(screen, same)

Feed(surface, bytes) ==
    LET may_reset == FeedMayReset(bytes, surface.previous_byte_was_escape)
        previous  == IF may_reset /\ surface.scrollback_state.len < surface.screen.capacity
                     THEN ScrollbackState(surface.screen, TRUE) ELSE surface.scrollback_state
        processed == ProcessAndCount(surface.screen, bytes)
        state     == StateAfterFeed(processed.screen, previous, may_reset)
    IN  [surface |-> [screen |-> processed.screen,
                      scrollback_state |-> state,
                      previous_byte_was_escape |-> Last(bytes) = Esc,
                      mode_overlay |-> UpdateFromOutput(surface.mode_overlay, bytes)],
         scrollback_changed |-> state # previous,
         scrollback_lines_dropped |-> processed.dropped]

\* modes_from_screen, where the SGR encoding of the mouse is no mode, merged
\* with the surface's own overlay.
SurfaceModes(surface) ==
    MergeWith(surface.mode_overlay,
              [alternate_screen |-> OnAlternate(surface.screen),
               mouse |-> IF "1003" \in surface.screen.on THEN "AnyEvent" ELSE "None"])

Snapshot(surface) ==
    [rows  |-> surface.screen.rows,
     lines |-> VisibleRows(surface.screen),
     modes |-> SurfaceModes(surface)]
=============================================================================
