--------------------------- MODULE MCCommandOutput ---------------------------
(* Instance of CommandOutput for TLC: commands that succeed, or end with 127.  *)
EXTENDS CommandOutput

MCStatus == {0, 127}
=============================================================================
