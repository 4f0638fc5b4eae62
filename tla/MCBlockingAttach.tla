--------------------------- MODULE MCBlockingAttach ---------------------------
(***************************************************************************)
(* An instance of BlockingAttach for TLC: a plain host and a full-screen   *)
(* one under every screen policy, with each other policy at least once;    *)
(* two sizes, and two runs of the session.                                 *)
(***************************************************************************)
EXTENDS BlockingAttach

MCSizes == {"embedded", "real"}
MCHosts == {HostTerminal(FALSE, "main"), HostTerminal(TRUE, "alternate")}
MCOptions ==
    {[screen |-> "ReuseHostAlternateScreen", resize |-> "UseRealTerminalSize",
      output |-> "FanoutToSurfaceAndStdout"],
     [screen |-> "LeaveAlternateScreen", resize |-> "UseRealTerminalSize",
      output |-> "StdoutOnlyThenReplay"],
     [screen |-> "EnterFreshAlternateScreen", resize |-> "KeepEmbeddedSize",
      output |-> "StdoutOnlyThenReplay"]}
=============================================================================
