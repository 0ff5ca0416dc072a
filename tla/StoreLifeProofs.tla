--------------------------- MODULE StoreLifeProofs ---------------------------
(***************************************************************************)
(* Proofs about StoreLife, for any sockets and sessions.  The invariant     *)
(* LInv adds to that of SSHClient what the store has established at each    *)
(* stage; the steps of the client preserve IInv by SSHClientProofs.         *)
(***************************************************************************)
EXTENDS StoreLife, SSHClientProofs

\* The call that each stage waits for.
CallFitsStage ==
    /\ stage = "connecting" => call \in {"connect", "none"}
    /\ stage = "opening" => call \in {"sftp", "none"}
    /\ stage \in {"closed", "left", "freed"} => call \in {"disconnect", "none"}

\* A session was made for a socket.
SessionHasSocket == session # None => on # None

\* A socket is made when there is no connection.
DialsAlone == pc = "dial" => ~AnyUp

\* A client that only the constructor and __del__ have used.
Fresh ==
    chan = None =>
        /\ stage \in {"none", "connecting", "opening", "dropped", "leaving"}
             \/ (stage = "left" /\ pc # "idle")
             => channel = None /\ on \in {None, sock}
        /\ stage = "none" \/ (stage = "connecting" /\ pc \in {"socket", "dial"})
             => on = None
        /\ stage = "freeing" \/ (stage = "left" /\ pc = "idle") => ~AnyUp

\* What the constructor and disconnect() have established.
Established ==
    /\ stage = "opening" /\ pc = "idle" /\ result = "true" => sftp # None
    /\ stage \in {"live", "closing", "closed"} => chan # None
    /\ stage = "closed" /\ pc # "idle" => result = "none"
    /\ stage = "closed" /\ pc = "idle" /\ result # "raised"
         => ~AnyUp /\ sftp = None /\ ~IsSessionConnected

LInv ==
    /\ IInv
    /\ StoreTypeOK
    /\ OnlyHeldUp
    /\ CallFitsStage
    /\ SessionHasSocket
    /\ DialsAlone
    /\ Fresh
    /\ Established

-----------------------------------------------------------------------------
(* LInv is inductive.                                                       *)

LEMMA LInvInit == StoreInit => LInv
<1> SUFFICES ASSUME StoreInit PROVE LInv
  OBVIOUS
<1>1. IInv
  BY IInvInit DEF StoreInit
<1> QED
  BY <1>1 DEF StoreInit, Init, LInv, IInv, StoreTypeOK, StageOK, Stage, OnlyHeldUp,
     CallFitsStage, SessionHasSocket, DialsAlone, Fresh, Established

\* A step of the client goes on with its call, or ends it.
LEMMA ClientControl ==
    ASSUME IInv, ClientStep
    PROVE  pc # "idle" /\ call # "none" /\ call' \in {call, "none"}
<1>1. pc # "idle"
  BY DEF ClientStep, Query, CheckSocket, Dial, DialFails, CheckSession, Handshake,
     Authenticate, OpenChannel, Execute, ReadResponse, CloseChannel, HangUp, Logout, Shut
<1>2. call' \in {call, "none"}
  BY DEF ClientStep, Query, CheckSocket, Dial, DialFails, CheckSession, Handshake,
     Authenticate, OpenChannel, Execute, ReadResponse, CloseChannel, HangUp, Logout,
     Shut, Goto, Return, Leave, Answer, ConnectFails, NextCommand
<1> QED
  BY <1>1, <1>2 DEF IInv, TypeOK

\* A connection comes up in Dial only, and then takes the place of one that is not.
LEMMA ClientLinks ==
    ASSUME LInv, ClientStep \/ Break
    PROVE  OnlyHeldUp' /\ SessionHasSocket' /\ DialsAlone'
<1> USE DEF LInv, IInv, TypeOK, OnlyHeldUp, SessionHasSocket, DialsAlone, AnyUp
<1>1. CASE CheckSocket
  BY <1>1, TakenLinks, NoneIsNoObject DEF CheckSocket, SocketAnswersTrue, Goto, object
<1>2. CASE Dial
  BY <1>2 DEF Dial, Goto, ConnectFails, Answer, Leave, Return, object
<1>3. CASE Handshake
  BY <1>3, TakenLinks, NoneIsNoObject DEF Handshake, Connecting, Goto, ConnectFails,
     Answer, Leave, Return
<1>4. CASE CheckSession \/ Authenticate \/ DialFails
  BY <1>4, TakenLinks DEF CheckSession, Authenticate, DialFails, Goto, ConnectFails,
     Answer, Leave, Return, object
<1>5. CASE Query \/ OpenChannel \/ Execute \/ ReadResponse \/ CloseChannel \/ HangUp
  BY <1>5, TakenLinks DEF Query, OpenChannel, Execute, ReadResponse, CloseChannel,
     HangUp, MayTake, NextCommand, Goto, Answer, Leave, Return, object
<1>6. CASE Logout
  BY <1>6, TakenLinks DEF Logout, Goto, Return, object
<1>7. CASE Shut
  BY <1>7, TakenLinks DEF Shut, SocketAnswersTrue, Return, object
<1>8. CASE Break
  BY <1>8 DEF Break, object
<1> QED
  BY <1>1, <1>2, <1>3, <1>4, <1>5, <1>6, <1>7, <1>8 DEF ClientStep

-----------------------------------------------------------------------------
(* The client at work, at each stage of the store.                          *)

\* In the constructor, before the handshake, there is no session.
LEMMA ClientConnecting ==
    ASSUME LInv, ClientStep, UNCHANGED life, stage = "connecting"
    PROVE  Fresh' /\ Established' /\ CallFitsStage'
<1>1. call = "connect" /\ chan = None /\ call' \in {call, "none"}
  BY ClientControl DEF LInv, CallFitsStage, StoreTypeOK, StageOK
<1>2. CheckSocket \/ Dial \/ DialFails \/ CheckSession \/ Handshake \/ Authenticate
  BY <1>1 DEF LInv, IInv, CallFitsPc, ClientStep, Query, OpenChannel, Execute,
     ReadResponse, CloseChannel, HangUp, Logout, Shut
<1>3. channel' = None /\ on' \in {None, sock'}
  BY <1>1, <1>2 DEF LInv, Fresh, CheckSocket, Dial, DialFails, CheckSession,
     Handshake, Authenticate, object, channels
<1>4. pc' \in {"socket", "dial"} => on' = None
  BY <1>1, <1>2 DEF LInv, Fresh, CheckSocket, Dial, DialFails, CheckSession,
     Handshake, Authenticate, Goto, ConnectFails, Answer, Return, Leave, InRun, object
<1> QED
  BY <1>1, <1>3, <1>4 DEF life, Fresh, Established, CallFitsStage

LEMMA ClientOpening ==
    ASSUME LInv, ClientStep, UNCHANGED life, stage = "opening"
    PROVE  Fresh' /\ Established' /\ CallFitsStage'
<1>1. call = "sftp" /\ chan = None /\ call' \in {call, "none"}
  BY ClientControl DEF LInv, CallFitsStage, StoreTypeOK, StageOK
<1>2. OpenChannel
  BY <1>1 DEF LInv, IInv, CallFitsPc, ClientStep, Query, CheckSocket, Dial, DialFails,
     CheckSession, Handshake, Authenticate, Execute, ReadResponse, CloseChannel,
     HangUp, Logout, Shut
<1>3. channel' = None /\ UNCHANGED <<sock, on>>
  BY <1>1, <1>2 DEF LInv, Fresh, OpenChannel, object, channels
<1>4. result' = "true" => sftp' # None
  BY <1>1, <1>2, NoneIsNoObject DEF LInv, IInv, TypeOK, OpenChannel, IsSessionConnected,
     Return
<1> QED
  BY <1>1, <1>3, <1>4 DEF LInv, life, Fresh, Established, CallFitsStage

\* disconnect() of the client ends without a connection, or raises; and it can
\* raise over a connection that is up only if there is a channel to be closed.
LEMMA ClientDisconnecting ==
    ASSUME LInv, ClientStep, UNCHANGED life, stage \in {"closed", "left", "freed"}
    PROVE  Fresh' /\ Established' /\ CallFitsStage'
<1>1. call = "disconnect" /\ call' \in {call, "none"} /\ pc # "idle"
  BY ClientControl DEF LInv, CallFitsStage
<1>2. HangUp \/ Logout \/ Shut
  BY <1>1 DEF LInv, IInv, CallFitsPc, ClientStep, Query, CheckSocket, Dial, DialFails,
     CheckSession, Handshake, Authenticate, OpenChannel, Execute, ReadResponse,
     CloseChannel
<1>3. CASE HangUp
  <2>1. UNCHANGED <<sock, on>>
    BY <1>3 DEF HangUp, object
  <2>2. \/ pc' = "logout" /\ channel' = None /\ result' = result
        \/ pc' = "idle" /\ result' = "raised" /\ channel # None
    BY <1>3 DEF HangUp, Goto, Return, CloseRaises
  <2> QED
    BY <1>1, <2>1, <2>2 DEF LInv, life, Fresh, Established,
       CallFitsStage
<1>4. CASE Logout
  <2>1. channel' = None
    BY <1>4 DEF LInv, IInv, Disconnecting, Logout, channels
  <2>2. \/ pc' = "shut" /\ result' = result /\ on' \in {None, on} /\ sock' = sock
        \/ pc' = "idle" /\ result' = "raised" /\ ~Alive /\ IsSessionConnected
             /\ UNCHANGED <<sock, on>>
    BY <1>4 DEF Logout, Goto, Return, object
  <2>3. ASSUME ~Alive, IsSessionConnected, on \in {None, sock}, UNCHANGED <<sock, on>>
        PROVE  ~AnyUp'
    BY <1>4, <2>3, ClientLinks, TakenLinks DEF LInv, IInv, TypeOK, OnlyHeldUp,
       SessionHasSocket, IsSessionConnected, Alive, AnyUp, Logout
  <2> QED
    BY <1>1, <2>1, <2>2, <2>3 DEF LInv, life, Fresh, Established,
       CallFitsStage
<1>5. CASE Shut
  <2>1. ~AnyUp'
    <3>1. OnlyHeldUp' /\ sock \in Sock \cup {None} /\ link \in [Sock -> Link]
      BY ClientLinks DEF LInv, IInv, TypeOK
    <3>2. CASE SocketAnswersTrue
      BY <1>5, <3>1, <3>2, NoneIsNoObject DEF OnlyHeldUp, AnyUp, Shut
    <3>3. CASE ~SocketAnswersTrue
      BY <1>5, <3>1, <3>3, TakenLinks, NoneIsNoObject DEF LInv, IInv, OnlyHeldUp, AnyUp,
         Shut, SocketAnswersTrue
    <3> QED
      BY <3>2, <3>3
  <2>2. pc' = "idle" /\ result' = result /\ sftp' = None /\ ~IsSessionConnected'
    BY <1>5 DEF LInv, IInv, Disconnecting, Shut, Return, IsSessionConnected, object,
       channels
  <2> QED
    BY <1>1, <2>1, <2>2 DEF LInv, life, Fresh, Established, CallFitsStage
<1> QED
  BY <1>2, <1>3, <1>4, <1>5

LEMMA LInvBelow == ASSUME LInv, Below PROVE LInv'
<1>1. IInv' /\ OnlyHeldUp' /\ SessionHasSocket' /\ DialsAlone'
  BY IInvNext, ClientLinks DEF LInv, Below, Next
<1>2. StoreTypeOK'
  BY <1>1, ClientControl DEF LInv, IInv, StoreTypeOK, StageOK, Below, Break, life
<1>3. Fresh' /\ Established' /\ CallFitsStage'
  <2>1. CASE Break
    BY <2>1 DEF LInv, IInv, TypeOK, Below, Break, life, Fresh, Established,
       CallFitsStage, AnyUp, IsSessionConnected, object, channels, Link
  <2>2. CASE ClientStep
    <3>1. stage \in {"connecting", "opening", "live", "closed", "left", "freed"}
      BY <2>2, ClientControl DEF LInv, StoreTypeOK, StageOK, Stage
    <3>2. CASE stage = "live"
      BY <2>2, <3>2 DEF LInv, Below, life, Fresh, Established, CallFitsStage
    <3> QED
      BY <2>2, <3>1, <3>2, ClientConnecting, ClientOpening, ClientDisconnecting
         DEF Below
  <2> QED
    BY <2>1, <2>2 DEF Below
<1> QED
  BY <1>1, <1>2, <1>3 DEF LInv

-----------------------------------------------------------------------------
(* The steps of the store.                                                  *)

\* Calling the client changes none of its objects.
LEMMA LInvCalling ==
    ASSUME LInv, NEW m \in Calls, Call(m), stage' \in Stage, UNCHANGED chan,
           CallFitsStage', Fresh', Established',
           stage' \in {"connecting", "opening"} => chan = None,
           stage' \notin {"none", "dropped", "closing", "leaving", "freeing"}
    PROVE  LInv'
<1>1. IInv'
  BY IInvCall DEF LInv
<1>2. UNCHANGED <<sock, link, session, on>> /\ pc' # "dial"
  BY DEF Call, FirstStep, Calls, object
<1> QED
  BY <1>1, <1>2 DEF LInv, IInv, StoreTypeOK, StageOK, OnlyHeldUp, SessionHasSocket, DialsAlone

\* So is a step of the store alone.
LEMMA LInvStill ==
    ASSUME LInv, UNCHANGED vars, StageOK', CallFitsStage', Fresh', Established'
    PROVE  LInv'
<1>1. IInv'
  BY IInvNext DEF LInv
<1> QED
  BY <1>1 DEF LInv, IInv, StoreTypeOK, vars, OnlyHeldUp, SessionHasSocket, DialsAlone, AnyUp

LEMMA LInvConstructor == ASSUME LInv, New \/ Connected \/ Opened PROVE LInv'
<1>1. CASE New
  BY <1>1, LInvCalling DEF New, Calling, LInv, StoreTypeOK, StageOK, Stage, Fresh, Established,
     CallFitsStage, Call, Calls, FirstStep, object, channels
<1>2. CASE Connected
  <2>1. CASE result = "true"
    BY <1>2, <2>1, LInvCalling DEF Connected, Calling, LInv, StoreTypeOK, StageOK, Stage, Fresh,
       Established, CallFitsStage, Call, Calls, FirstStep, object, channels
  <2>2. CASE result # "true"
    BY <1>2, <2>2, LInvStill DEF Connected, Answered, LInv, StoreTypeOK, StageOK, Stage, Fresh,
       Established, CallFitsStage, vars, object, channels, AnyUp
  <2> QED
    BY <2>1, <2>2
<1>3. CASE Opened
  BY <1>3, LInvStill DEF Opened, Answered, LInv, StoreTypeOK, StageOK, Stage, Fresh,
     Established, CallFitsStage, IInv, TypeOK, vars, object, channels, AnyUp
<1> QED
  BY <1>1, <1>2, <1>3

LEMMA LInvUse ==
    ASSUME LInv, Use \/ Drop \/ CloseClient \/ LeaveClient \/ FreeClient \/ Closed \/ Left
    PROVE  LInv'
<1>1. CASE Use
  BY <1>1, LInvCalling DEF Use, life, LInv, StoreTypeOK, StageOK, Stage, Fresh, Established,
     CallFitsStage
<1>2. CASE CloseClient \/ LeaveClient \/ FreeClient
  BY <1>2, LInvCalling DEF CloseClient, LeaveClient, FreeClient, Calling, LInv,
     StoreTypeOK, StageOK, Stage, Fresh, Established, CallFitsStage, Call, Calls, FirstStep,
     object, channels
<1>3. CASE Drop \/ Closed \/ Left
  BY <1>3, LInvStill DEF Drop, Closed, Left, Answered, LInv, StoreTypeOK, StageOK, Stage, Fresh,
     Established, CallFitsStage, vars, object, channels, AnyUp
<1> QED
  BY <1>1, <1>2, <1>3

\* What disconnect() sends may end a connection, and makes none.
LEMMA LInvFirstHalf == ASSUME LInv, Disconnect \/ Del PROVE LInv'
<1>1. /\ link' \in [Sock -> Link]
      /\ \A s \in Sock : link'[s] = "up" => link[s] = "up"
  BY TakenLinks DEF LInv, IInv, TypeOK, Disconnect, Del, FirstHalf, SessionDisconnect, Link
<1>2. /\ UNCHANGED <<sock, object, channels, call, pc, chan>>
      /\ result' \in {result, "raised"} /\ pc = "idle"
      /\ \/ stage = "live" /\ stage' \in {"live", "closing"}
         \/ stage = "dropped" /\ stage' = "leaving"
         \/ stage = "dropped" /\ stage' = "freeing" /\ chan # None
  BY DEF Disconnect, Del, FirstHalf, Answered, SessionDisconnect
<1>3. IInv'
  BY <1>1, <1>2 DEF LInv, IInv, TypeOK, CallFitsPc, OneConnection, Connecting,
     Disconnecting, ChannelHasSession, Alive, IsSessionConnected, Results, object, channels
<1>4. OnlyHeldUp' /\ SessionHasSocket' /\ DialsAlone'
  BY <1>1, <1>2 DEF LInv, OnlyHeldUp, SessionHasSocket, DialsAlone, object
<1>5. StoreTypeOK' /\ Fresh' /\ Established' /\ CallFitsStage'
  BY <1>2, <1>3 DEF LInv, IInv, StoreTypeOK, StageOK, Stage, Fresh, Established, CallFitsStage,
     object, channels
<1> QED
  BY <1>3, <1>4, <1>5 DEF LInv

LEMMA LInvFree == ASSUME LInv, Free PROVE LInv'
<1>1. IInv'
  BY NoneIsNoObject DEF Free, IInv, TypeOK, CallFitsPc, OneConnection, Connecting,
     Disconnecting, ChannelHasSession, Alive, IsSessionConnected, Link, Results
<1> QED
  BY <1>1 DEF Free, LInv, IInv, StoreTypeOK, StageOK, Stage, OnlyHeldUp, CallFitsStage,
     SessionHasSocket, DialsAlone, Fresh, Established

LEMMA LInvNext == ASSUME LInv, [StoreNext]_lifeVars PROVE LInv'
<1>1. CASE UNCHANGED lifeVars
  BY <1>1, LInvStill DEF lifeVars, life, LInv, StoreTypeOK, StageOK, Stage, CallFitsStage, Fresh,
     Established, AnyUp, IsSessionConnected, vars, object, channels
<1> QED
  BY <1>1, LInvConstructor, LInvUse, LInvFirstHalf, LInvFree, LInvBelow
     DEF StoreNext, StoreStep

-----------------------------------------------------------------------------
(* The theorems.                                                            *)

\* Every reachable state satisfies the invariant that the others rest on.
THEOREM StoreInvariance == StoreSpec => []LInv
<1>1. LInv /\ [StoreNext]_lifeVars => LInv'
  BY LInvNext
<1> QED
  BY <1>1, LInvInit, PTL DEF StoreSpec

\* Types, and what belongs to each stage of a store.
THEOREM StoreTypeCorrect == StoreSpec => []StoreTypeOK
<1>1. LInv => StoreTypeOK
  BY DEF LInv
<1> QED
  BY <1>1, StoreInvariance, PTL

\* The client's channels stay those of its session when it is used by a store and
\* by the store's user.
THEOREM StoreChannelHasSession == StoreSpec => []ChannelHasSession
<1>1. LInv => ChannelHasSession
  BY DEF LInv, IInv
<1> QED
  BY <1>1, StoreInvariance, PTL

\* No connection is left where nobody can close it, nor is that of a constructor
\* that has raised.
THEOREM StoreNothingLeftBehind == StoreSpec => []NothingLeftBehind
<1>1. LInv => NothingLeftBehind
  BY DEF LInv, NothingLeftBehind, Fresh
<1> QED
  BY <1>1, StoreInvariance, PTL

\* disconnect() of a store that returns has closed its connection.
THEOREM SpecStoreCloses == StoreSpec => StoreCloses
<1>1. LInv /\ [StoreNext]_lifeVars
        => [stage = "closed" /\ stage' = "live" /\ result # "raised"
              => ~AnyUp /\ sftp = None /\ ~IsSessionConnected]_lifeVars
  <2> SUFFICES ASSUME LInv, StoreNext, stage = "closed", stage' = "live"
               PROVE  pc = "idle"
    BY DEF LInv, Established, lifeVars, life
  <2> QED
    BY DEF StoreNext, StoreStep, New, Connected, Opened, Use, Disconnect, CloseClient,
       Closed, Drop, Del, LeaveClient, Left, FreeClient, Free, Below, Calling, Answered,
       FirstHalf, life
<1> QED
  BY <1>1, StoreInvariance, PTL DEF StoreSpec, StoreCloses

\* A store that its constructor returns is connected: Opened gives it to its user
\* when there is a channel, which has the client's session, which has its socket.
THEOREM SpecNewStoreUsable == StoreSpec => NewStoreUsable
<1> DEFINE Usable == /\ chan' # None /\ chan' = sftp
                     /\ session = chan' /\ connected /\ authed /\ on = sock
<1>1. ASSUME LInv, StoreNext, stage = "opening", stage' = "live"
      PROVE  Usable
  <2>1. Opened
    BY <1>1 DEF StoreNext, StoreStep, New, Connected, Opened, Use, Disconnect,
       CloseClient, Closed, Drop, Del, LeaveClient, Left, FreeClient, Free, Below,
       Calling, Answered, FirstHalf, life
  <2>2. pc = "idle" /\ result = "true" /\ chan' = sftp
    BY <1>1, <2>1 DEF Opened, Answered
  <2>3. sftp # None
    BY <1>1, <2>2 DEF LInv, Established
  <2>4. sftp = session /\ connected /\ authed
    BY <1>1, <2>3 DEF LInv, IInv, TypeOK, ChannelHasSession
  <2>5. on = sock
    BY <1>1, <2>3, <2>4 DEF LInv, StoreTypeOK, StageOK, Fresh, SessionHasSocket
  <2> QED
    BY <2>2, <2>3, <2>4, <2>5
<1>2. LInv /\ [StoreNext]_lifeVars
        => [stage = "opening" /\ stage' = "live" => Usable]_lifeVars
  BY <1>1
<1> QED
  BY <1>2, StoreInvariance, PTL DEF StoreSpec, NewStoreUsable
=============================================================================
