---------------------------- MODULE MCPaneManager ----------------------------
(* Instances of PaneManager for TLC: an output frame does everything it can do. *)
EXTENDS PaneManager

Outcome(held, rotated, fed, changed) ==
    [held |-> held, rotated |-> rotated, fed |-> fed, changed |-> changed]

RichOutcomes == { Outcome(FALSE, FALSE, TRUE, TRUE), Outcome(TRUE, FALSE, TRUE, FALSE),
                  Outcome(FALSE, TRUE, TRUE, FALSE), Outcome(TRUE, FALSE, FALSE, FALSE) }
=============================================================================
