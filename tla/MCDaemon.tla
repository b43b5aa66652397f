------------------------------ MODULE MCDaemon ------------------------------
(* Daemon for TLC: one handler path, or two for a change of hostBinDir.      *)
EXTENDS Daemon

MCPaths1 == {"/opt/a"}
MCPaths2 == {"/opt/a", "/opt/b"}
=============================================================================
