----------------------------- MODULE MCKnownHosts -----------------------------
(* Instances of KnownHosts for TLC.  The endpoint "host" is a substring of    *)
(* the line of "host.example"; the hashed line of "host" mentions neither.    *)
EXTENDS KnownHosts, TLC

CONSTANTS p1, p2, host, example, hostLine, exampleLine, hashedLine

MCProc == {p1, p2}
MCContent == {host, example}
MCLine == {hostLine, exampleLine}
MCMentions == (host :> {hostLine, exampleLine}) @@ (example :> {exampleLine})
MCHostLines == (host :> {hostLine}) @@ (example :> {exampleLine})

\* One endpoint, whose key is only ever stored as it is.
MCOneContent == {host}
MCOneLine == {hostLine}
MCOneMentions == host :> {hostLine}
MCOneHostLines == host :> {hostLine}

\* One endpoint with a salted line beside the plain one.
MCSaltedContent == {host}
MCSaltedLine == {hostLine, hashedLine}
MCSaltedMentions == host :> {hostLine}
MCSaltedHostLines == host :> {hostLine, hashedLine}
=============================================================================
