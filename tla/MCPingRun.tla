----------------------------- MODULE MCPingRun -----------------------------
(* PingRun for TLC.                                                         *)
EXTENDS PingRun
=============================================================================
