---------------------------- MODULE TerminalBytes ----------------------------
(***************************************************************************)
(* The output of a child as the scanners of panesmith-core tell it apart:  *)
(* each symbol stands for one or more bytes that no frame boundary needs   *)
(* to divide.  A line is its text with the newline after it.               *)
(***************************************************************************)
EXTENDS Integers, Sequences, SequencesExt

Esc == "ESC"
Csi == "[?"           \* after Esc, begins a private control sequence
Osc == "]"            \* after Esc, begins a control string
Bel == "BEL"          \* ends it
Reset == "c"          \* after Esc, resets the terminal
AltScreen == "1049"
AnySgrMouse == "1003;1006"
AltSgrMouse == "1049;1006"
Lines == {"a", "b"}

\* The private modes a parameter list names.
ModesIn == [p \in {AltScreen, AnySgrMouse, AltSgrMouse} |->
              CASE p = AnySgrMouse -> {"1003", "1006"}
                [] p = AltSgrMouse -> {AltScreen, "1006"}
                [] OTHER           -> {p}]
Params == DOMAIN ModesIn

Newlines(bytes) == Len(SelectSeq(bytes, LAMBDA b : b \in Lines))

\* A scanner's state after a sequence of symbols: FoldLeft, in linear time.
Scan(Step(_, _), start, bytes) ==
    LET state[i \in 0 .. Len(bytes)] ==
            IF i = 0 THEN start ELSE Step(state[i - 1], bytes[i])
    IN  state[Len(bytes)]

\* The last n of a sequence, or all of it.
LastOf(s, n) == IF Len(s) <= n THEN s ELSE SubSeq(s, Len(s) - n + 1, Len(s))
=============================================================================
