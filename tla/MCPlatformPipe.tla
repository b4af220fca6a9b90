--------------------------- MODULE MCPlatformPipe ---------------------------
(* Instances of PlatformPipe for TLC. *)
EXTENDS PlatformPipe, TLC
=============================================================================
