--------------------------- MODULE SSHClientProofs ---------------------------
(***************************************************************************)
(* Proofs about SSHClient, for any sockets and sessions: the inductive      *)
(* invariant IInv, and from it what a client may rely on when connect(),    *)
(* disconnect() and the run_* methods return.                               *)
(***************************************************************************)
EXTENDS SSHClient, TLAPS

\* The methods in which a step can be.
CallFitsPc ==
    /\ pc \in {"socket", "dial", "session", "handshake", "auth"}
         => call \in {"connect", "single", "multiple"}
    /\ pc = "open" => call \in {"open", "sftp", "exec", "single", "multiple"}
    /\ pc \in {"execute", "read"} => call \in {"exec", "single", "multiple"}
    /\ pc = "close" => call \in {"close", "multiple"}
    /\ pc \in {"hangup", "logout", "shut"} => call \in {"disconnect", "single", "multiple"}
    /\ pc = "query" => call = "query"

\* A connection that is up is that of the socket the client holds.
OneConnection == Alive => on = sock

\* What connect() has established when it gets to a step.
Connecting ==
    /\ pc = "dial" => ~Alive
    /\ pc = "handshake" => sock # None /\ ~IsSessionConnected
    /\ pc = "auth" => IsSessionConnected

\* What disconnect() has closed when it gets to a step.
Disconnecting ==
    /\ pc \in {"logout", "shut"} => channel = None /\ sftp = None
    /\ pc = "shut" => ~IsSessionConnected

IInv ==
    /\ TypeOK
    /\ CallFitsPc
    /\ OneConnection
    /\ Connecting
    /\ Disconnecting
    /\ ChannelHasSession

-----------------------------------------------------------------------------
(* IInv is inductive.                                                       *)

LEMMA IInvInit == Init => IInv
BY NoneIsNoObject DEF Init, IInv, TypeOK, CallFitsPc, OneConnection, Connecting, Disconnecting,
   ChannelHasSession, Alive, IsSessionConnected, Link, Results

LEMMA TakenLinks ==
    ASSUME TypeOK, NEW s \in Sock \cup {None}
    PROVE  /\ Taken(s) \in [Sock -> Link]
           /\ \A t \in Sock : Taken(s)[t] = "up" => link[t] = "up"
BY DEF TypeOK, Taken, Link

LEMMA IInvCall ==
    ASSUME IInv, NEW m \in Calls, Call(m)
    PROVE  IInv'
<1>1. TypeOK'
  BY DEF IInv, TypeOK, Call, FirstStep, Calls, Results, object, channels
<1>2. CallFitsPc'
  BY DEF IInv, CallFitsPc, Call, FirstStep, Calls
<1>3. (OneConnection /\ ChannelHasSession)'
  BY DEF IInv, OneConnection, ChannelHasSession, Alive, Call, object, channels
<1>4. (Connecting /\ Disconnecting)'
  BY DEF Connecting, Disconnecting, Call, FirstStep, Calls
<1> QED
  BY <1>1, <1>2, <1>3, <1>4 DEF IInv

\* The steps of connect().
LEMMA IInvConnect ==
    ASSUME IInv, CheckSocket \/ Dial \/ DialFails \/ CheckSession \/ Handshake \/ Authenticate
    PROVE  IInv'
<1>1. CASE CheckSocket
  BY <1>1, TakenLinks DEF IInv, TypeOK, CallFitsPc, OneConnection, Connecting,
     Disconnecting, ChannelHasSession, Alive, IsSessionConnected,
     SocketAnswersTrue, object, channels, Goto, CheckSocket
<1>2. CASE Dial
  BY <1>2, TakenLinks DEF IInv, TypeOK, CallFitsPc, OneConnection, Connecting,
     Disconnecting, ChannelHasSession, Alive, IsSessionConnected, Link, object,
     channels, Goto, ConnectFails, Answer, Leave, Return, InRun, Results, Dial
<1>3. CASE DialFails
  BY <1>3 DEF IInv, TypeOK, CallFitsPc, OneConnection, Connecting,
     Disconnecting, ChannelHasSession, Alive, IsSessionConnected, object,
     channels, ConnectFails, Answer, Leave, Return, InRun, Results, DialFails
<1>4. CASE CheckSession
  BY <1>4, TakenLinks DEF IInv, TypeOK, CallFitsPc, OneConnection, Connecting,
     Disconnecting, ChannelHasSession, Alive, IsSessionConnected,
     SocketAnswersTrue, object, channels, Goto, ConnectFails, Answer, Leave,
     Return, InRun, Results, CheckSession
<1>5. CASE Handshake
  <2>1. sock \in Sock /\ ~IsSessionConnected
    BY <1>5 DEF IInv, TypeOK, Connecting, Handshake
  <2>2. channel = None /\ sftp = None
    BY <2>1, NoneIsNoObject DEF IInv, TypeOK, ChannelHasSession, IsSessionConnected
  <2>3. /\ session' \in Sess /\ on' = sock /\ connected' \in BOOLEAN /\ authed' = FALSE
        /\ link' \in [Sock -> Link]
        /\ UNCHANGED <<sock, channel, sftp>>
    BY <1>5, <2>1, TakenLinks DEF IInv, TypeOK, Handshake, channels
  <2>4. /\ pc' \in {"auth", "idle", "hangup"}
        /\ result' \in Results
        /\ call' \in Calls \cup {"none"}
        /\ call' = "none" <=> pc' = "idle"
        /\ CallFitsPc'
        /\ pc' = "auth" => connected'
    BY <1>5 DEF IInv, TypeOK, CallFitsPc, Handshake, Goto, ConnectFails, Answer,
       Leave, Return, InRun, Results
  <2> QED
    BY <2>1, <2>2, <2>3, <2>4, NoneIsNoObject DEF IInv, TypeOK, OneConnection,
       Connecting, Disconnecting, ChannelHasSession, IsSessionConnected
<1>6. CASE Authenticate
  BY <1>6, TakenLinks DEF IInv, TypeOK, CallFitsPc, OneConnection, Connecting,
     Disconnecting, ChannelHasSession, Alive, IsSessionConnected, channels,
     Goto, ConnectFails, Answer, Leave, Return, InRun, Results, Authenticate
<1> QED
  BY <1>1, <1>2, <1>3, <1>4, <1>5, <1>6

\* Opening a channel changes either nothing but the control, or one channel.
LEMMA IInvOpenChannel == ASSUME IInv, OpenChannel PROVE IInv'
<1>1. /\ UNCHANGED <<sock, object>>
      /\ link' \in [Sock -> Link]
      /\ Alive' => Alive
  BY TakenLinks DEF IInv, TypeOK, Alive, OpenChannel, object
<1>2. /\ channel' \in Sess \cup {None} /\ sftp' \in Sess \cup {None}
      /\ ChannelHasSession'
  BY <1>1 DEF IInv, TypeOK, ChannelHasSession, OpenChannel, IsSessionConnected,
     object, channels
<1>3. /\ pc' \in {"idle", "execute", "open", "hangup"}
      /\ result' \in Results
      /\ call' \in Calls \cup {"none"}
      /\ call' = "none" <=> pc' = "idle"
      /\ CallFitsPc'
  BY DEF IInv, TypeOK, CallFitsPc, OpenChannel, Goto, Return, Leave, Answer, InRun,
     NextCommand, Results, Calls
<1>4. (Connecting /\ Disconnecting)'
  BY <1>3 DEF Connecting, Disconnecting
<1> QED
  BY <1>1, <1>2, <1>3, <1>4 DEF IInv, TypeOK, OneConnection, object

\* The other steps of the methods that use a channel.
LEMMA IInvCommand ==
    ASSUME IInv, Query \/ Execute \/ ReadResponse \/ CloseChannel
    PROVE  IInv'
<1>1. CASE Query
  BY <1>1, TakenLinks DEF IInv, TypeOK, CallFitsPc, OneConnection, Connecting,
     Disconnecting, ChannelHasSession, Alive, IsSessionConnected, object,
     channels, Return, Results, Query
<1>2. CASE Execute
  BY <1>2, TakenLinks DEF IInv, TypeOK, CallFitsPc, OneConnection, Connecting,
     Disconnecting, ChannelHasSession, Alive, IsSessionConnected, object,
     channels, Goto, Answer, Leave, Return, InRun, Results, Execute
<1>3. CASE ReadResponse
  BY <1>3, TakenLinks DEF IInv, TypeOK, CallFitsPc, OneConnection, Connecting,
     Disconnecting, ChannelHasSession, Alive, IsSessionConnected, MayTake, object,
     channels, Goto, Answer, Leave, Return, InRun, Results, Answers,
     ReadResponse
<1>4. CASE CloseChannel
  BY <1>4, TakenLinks DEF IInv, TypeOK, CallFitsPc, OneConnection, Connecting,
     Disconnecting, ChannelHasSession, Alive, IsSessionConnected, MayTake, object,
     CloseRaises, channels, Goto, NextCommand,
      Answer, Leave, Return, InRun, Results, CloseChannel
<1> QED
  BY <1>1, <1>2, <1>3, <1>4

\* Logout: with the session goes its connection, or nothing changes but a
\* pending error.
LEMMA IInvLogout == ASSUME IInv, Logout PROVE IInv'
<1>1. /\ UNCHANGED <<sock, channels>>
      /\ link' \in [Sock -> Link]
      /\ session' \in Sess \cup {None} /\ on' \in Sock \cup {None}
      /\ on' # None => session' # None
      /\ connected' \in BOOLEAN /\ authed' \in BOOLEAN
      /\ Alive' => Alive /\ on' = on
  BY TakenLinks DEF IInv, TypeOK, Alive, Logout, object
<1>2. channel' = None /\ sftp' = None
  BY <1>1 DEF IInv, Disconnecting, Logout, channels
<1>3. /\ pc' \in {"idle", "shut"}
      /\ result' \in Results
      /\ call' \in Calls \cup {"none"}
      /\ call' = "none" <=> pc' = "idle"
      /\ CallFitsPc'
      /\ pc' = "shut" => ~IsSessionConnected'
  BY DEF IInv, TypeOK, CallFitsPc, Logout, Goto, Return, Results, Calls,
     IsSessionConnected, object
<1> QED
  BY <1>1, <1>2, <1>3 DEF IInv, TypeOK, OneConnection, Connecting, Disconnecting,
     ChannelHasSession

\* The other steps of disconnect(), and of the peer.
LEMMA IInvEnd ==
    ASSUME IInv, HangUp \/ Shut \/ Break
    PROVE  IInv'
<1>1. CASE HangUp
  BY <1>1, TakenLinks DEF IInv, TypeOK, CallFitsPc, OneConnection, Connecting,
     Disconnecting, ChannelHasSession, Alive, IsSessionConnected, MayTake, object,
     CloseRaises, channels, Goto, Return, Results, HangUp
<1>2. CASE Shut
  BY <1>2, TakenLinks DEF IInv, TypeOK, CallFitsPc, OneConnection, Connecting,
     Disconnecting, ChannelHasSession, Alive, IsSessionConnected,
     SocketAnswersTrue, Link, object, channels, Return, Results, Shut
<1>3. CASE Break
  BY <1>3 DEF IInv, TypeOK, CallFitsPc, OneConnection, Connecting,
     Disconnecting, ChannelHasSession, Alive, IsSessionConnected, Link, object,
     channels, Break
<1> QED
  BY <1>1, <1>2, <1>3

LEMMA IInvNext == ASSUME IInv, [Next]_vars PROVE IInv'
<1>1. CASE UNCHANGED vars
  BY <1>1 DEF vars, IInv, TypeOK, CallFitsPc, OneConnection, Connecting, Disconnecting,
     ChannelHasSession, Alive, IsSessionConnected
<1> QED
  BY <1>1, IInvCall, IInvConnect, IInvOpenChannel, IInvCommand, IInvLogout, IInvEnd
     DEF Next, ClientStep

-----------------------------------------------------------------------------
(* The theorems.                                                            *)

\* Every reachable state satisfies the invariant that the others rest on.
THEOREM Invariance == Spec => []IInv
<1>1. Init => IInv
  BY IInvInit
<1>2. IInv /\ [Next]_vars => IInv'
  BY IInvNext
<1> QED
  BY <1>1, <1>2, PTL DEF Spec

\* TypeOK for any sockets and sessions.
THEOREM TypeCorrect == Spec => []TypeOK
<1>1. IInv => TypeOK
  BY DEF IInv
<1> QED
  BY <1>1, Invariance, PTL

\* However often connections break and calls fail, a channel that the client
\* holds is one of its present session, which is connected and authenticated.
THEOREM SpecChannelHasSession == Spec => []ChannelHasSession
<1>1. IInv => ChannelHasSession
  BY DEF IInv
<1> QED
  BY <1>1, Invariance, PTL

\* connect() returns True only over the socket that the client holds: a step
\* that ends it is one of connect(), and of those only Authenticate says "true",
\* over a connection that is up.
THEOREM SpecConnectMeansUsable == Spec => ConnectMeansUsable
<1> DEFINE Usable == (IsSessionConnected /\ on = sock /\ authed)' /\ link[sock] = "up"
<1>1. ASSUME IInv, [Next]_vars, Returns("connect"), result' = "true"
      PROVE  Usable
  <2>1. Authenticate
    BY <1>1 DEF Returns, IInv, TypeOK, CallFitsPc, vars, Next, ClientStep, Query,
       CheckSocket, Dial, DialFails, CheckSession, Handshake, OpenChannel, Execute,
       ReadResponse, CloseChannel, HangUp, Logout, Shut, Break, Call, FirstStep,
       Goto, Return, Leave, Answer, InRun, ConnectFails, NextCommand
  <2>2. Alive /\ authed' = TRUE /\ UNCHANGED <<sock, session, on, connected>>
    BY <2>1, <1>1 DEF Authenticate, ConnectFails, Answer, Leave, Return, InRun, Returns
  <2>3. on = sock /\ IsSessionConnected
    BY <2>1, <2>2, <1>1 DEF IInv, OneConnection, Connecting, Authenticate
  <2> QED
    BY <2>2, <2>3 DEF Alive, IsSessionConnected
<1>2. IInv /\ [Next]_vars => [Returns("connect") /\ result' = "true" => Usable]_vars
  BY <1>1
<1> QED
  BY <1>2, Invariance, PTL DEF Spec, ConnectMeansUsable

\* When disconnect() or a run_* returns, Shut was its last step, and HangUp and
\* Logout went before.
THEOREM SpecDisconnectClears == Spec => DisconnectClears
<1> DEFINE Over == \E m \in {"disconnect", "single", "multiple"} : Returns(m)
           Cleared == channel' = None /\ sftp' = None /\ ~IsSessionConnected'
<1>1. ASSUME IInv, [Next]_vars, Over
      PROVE  Cleared
  <2>1. Shut
    BY <1>1 DEF Returns, IInv, TypeOK, CallFitsPc, vars, Next, ClientStep, Query,
       CheckSocket, Dial, DialFails, CheckSession, Handshake, Authenticate,
       OpenChannel, Execute, ReadResponse, CloseChannel, HangUp, Logout, Break,
       Call, FirstStep, Goto, Return, Leave, Answer, InRun, ConnectFails, NextCommand
  <2> QED
    BY <2>1, <1>1 DEF IInv, Disconnecting, Shut, IsSessionConnected, object, channels
<1>2. IInv /\ [Next]_vars => [Over => Cleared]_vars
  BY <1>1
<1> QED
  BY <1>2, Invariance, PTL DEF Spec, DisconnectClears
=============================================================================
