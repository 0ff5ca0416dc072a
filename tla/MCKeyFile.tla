------------------------------ MODULE MCKeyFile ------------------------------
(* Instances of KeyFile for TLC: "10.0.0.1" is a substring of the line of    *)
(* "10.0.0.10", so that removing the first host also removes the second.     *)
EXTENDS KeyFile, TLC

CONSTANTS p1, p2, short, long, hostShort, hostLong

MCProc == {p1, p2}
MCLine == {short, long}
MCContent == {hostShort, hostLong}
MCMentions == (hostShort :> {short, long}) @@ (hostLong :> {long})
=============================================================================
