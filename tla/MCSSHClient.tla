----------------------------- MODULE MCSSHClient -----------------------------
(* Instance of SSHClient for TLC: the client holds one socket and its session *)
(* may hold another, so that a third object is always free for a new one.     *)
EXTENDS SSHClient

CONSTANTS s1, s2, s3, x1, x2, x3

MCSock == {s1, s2, s3}
MCSess == {x1, x2, x3}
=============================================================================
