----------------------------- MODULE ModeOverlay -----------------------------
(***************************************************************************)
(* TerminalModeOverlay (panesmith-core/src/mode_overlay.rs): the modes a   *)
(* child has set, found by scanning its output beside the surface's own    *)
(* parser.  The scanner keeps no parser state between frames; it keeps the *)
(* end of what it has seen, and scans that again in front of what comes.   *)
(***************************************************************************)
EXTENDS TerminalBytes

CONSTANT ModeTailLimit   \* MODE_TAIL_LIMIT
ASSUME ModeTailAssumption == ModeTailLimit \in Nat

NewOverlay == [on |-> {}, tail |-> << >>]

\* One symbol of apply_terminal_mode_sequences.  `in' is what precedes it:
\* nothing of interest, an escape, or the beginning of a mode sequence.
ScanMode(s, b) ==
    CASE b = Esc                            -> [s EXCEPT !.in = "escape"]
      [] s.in = "escape" /\ b = Reset       -> [s EXCEPT !.in = "text", !.on = {}]
      [] s.in = "escape" /\ b = Csi         -> [s EXCEPT !.in = "params", !.codes = {}]
      [] s.in = "params" /\ b \in Params /\ s.codes = {} -> [s EXCEPT !.codes = ModesIn[b]]
      [] s.in = "params" /\ b = "h"         -> [s EXCEPT !.in = "text", !.on = @ \cup s.codes]
      [] s.in = "params" /\ b = "l"         -> [s EXCEPT !.in = "text", !.on = @ \ s.codes]
      [] OTHER                              -> [s EXCEPT !.in = "text"]

ApplyTerminalModeSequences(bytes, on) ==
    Scan(ScanMode, [in |-> "text", codes |-> {}, on |-> on], bytes).on

\* mutant: nothing is kept for the next frame
UpdateFromOutputForgets(o, bytes) ==
    [on |-> ApplyTerminalModeSequences(bytes, o.on), tail |-> << >>]

UpdateFromOutput(o, bytes) ==
    LET data == o.tail \o bytes
    IN  [on   |-> ApplyTerminalModeSequences(data, o.on),
         tail |-> LastOf(data, ModeTailLimit)]

\* Of the mouse modes that are on, the one that is reported.
ActiveMouse(on) == CASE "1006" \in on -> "Sgr"
                     [] "1003" \in on -> "AnyEvent"
                     [] OTHER         -> "None"

ModesOf(on) == [alternate_screen |-> AltScreen \in on, mouse |-> ActiveMouse(on)]

MergeWith(o, surface_modes) ==
    LET own == ModesOf(o.on)
    IN  [alternate_screen |-> surface_modes.alternate_screen \/ own.alternate_screen,
         mouse |-> IF own.mouse # "None" THEN own.mouse ELSE surface_modes.mouse]
=============================================================================
