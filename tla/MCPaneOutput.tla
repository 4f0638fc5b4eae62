---------------------------- MODULE MCPaneOutput ----------------------------
(* Instances of PaneOutput for TLC. *)
EXTENDS PaneOutput

Config(mode, max_bytes, max_lines) ==
    [mode |-> mode, max_bytes |-> max_bytes, max_lines |-> max_lines]

MCConfigs == { Config("Both", 0, 0), Config("Both", 5, 2), Config("PlainText", 3, 1),
               Config("RawBytes", 4, 1), Config("Disabled", 0, 0) }

\* A string whose end the two scanners see at different places: what follows it
\* is held back until it is forced out as text.
ForcedOut == <<Esc, Osc, Esc, Csi, Bel, "h", "b">>

MCUnits == { <<"a", "b">>,
             <<Esc, Reset, "b", "a">>,
             <<Esc, Csi, AltScreen, "h">>,
             <<Esc, Csi, AnySgrMouse, "h">>,
             <<Esc, Csi, AltSgrMouse, "l">>,
             <<Esc, Osc, Bel>>,
             ForcedOut }
MCSizes == {2, 3}

(* The two disagreements: lines alone move a user's view, and text forced out
   is missing from the offset. *)
FindingConfigs == { Config("PlainText", 2, 0) }
ViewportUnits == { <<"a">>, <<"b">> }
OffsetUnits == { <<"a">>, ForcedOut }
=============================================================================
