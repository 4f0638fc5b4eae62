---------------------------- MODULE MCPaneAttach ----------------------------
(* PaneAttach for TLC: three terminal sizes of which one is refused, and   *)
(* ticks of one or two frames against a queue of one.                      *)
EXTENDS PaneAttach

MCSizes == {"small", "large", "zero"}
MCUnsupported == {"zero"}
BothResizes == {"UseRealTerminalSize", "KeepEmbeddedSize"}
BothOutputs == {"FanoutToSurfaceAndStdout", "StdoutOnlyThenReplay"}
OnlyReplay == {"StdoutOnlyThenReplay"}
=============================================================================
