------------------------------ MODULE SSHClient ------------------------------
(***************************************************************************)
(* The connection state machine of SSHClient (deling/clients/ssh.py): one   *)
(* client, used by one thread, and a peer that may reset or close the       *)
(* connection between any two of the client's steps.                        *)
(*                                                                         *)
(* A step is one call into the socket or the ssh2 library together with the *)
(* Python code around it.  pc is where the call is; call is the public      *)
(* method that the user called: connect, disconnect, open_channel ("open"   *)
(* and "sftp"), close_channel, is_socket_connected ("query"), exec_command  *)
(* ("exec"), run_single_command and run_multiple_commands.                  *)
(*                                                                         *)
(* What the library answers is a choice: a handshake or an authentication   *)
(* succeeds only over a connection that is up, a peer gives a channel only  *)
(* to a session that it has authenticated, and anything may fail.           *)
(***************************************************************************)

CONSTANTS
    Sock,       \* socket objects
    Sess,       \* ssh2 Session objects, to tell a channel's from the client's
    None

ASSUME NoneIsNoObject == None \notin Sock \cup Sess

VARIABLES
    sock,       \* self.socket
    link,       \* the state of each socket's connection, see Link
    session,    \* self.session
    on,         \* the socket on which that session last tried to shake hands
    connected,  \* self._is_session_connected
    authed,     \* the peer has authenticated that session
    channel,    \* self.channel, as the session that it belongs to
    sftp,       \* self.sftp_channel, likewise
    call,       \* the method that is running
    pc,         \* where it is
    result      \* what the last method returned, or is about to return

vars == <<sock, link, session, on, connected, authed, channel, sftp, call, pc, result>>
object == <<session, on, connected, authed>>
channels == <<channel, sftp>>

\* "new": not connected; "up": connected; "reset": broken, and the error still
\* waits in SO_ERROR; "dead": broken or closed by the peer, no error waits.
Link == {"new", "up", "reset", "dead"}

Calls == {"connect", "disconnect", "open", "sftp", "close", "query", "exec",
          "single", "multiple"}

Answers == {"SUCCESS", "STDERR_RESPONSE", "CHANNEL_READ_ERROR"}

Results == {"none", "true", "false", "raised", "CONNECTION_ERROR",
            "CHANNEL_OPEN_ERROR", "responses"} \cup Answers

TypeOK ==
    /\ sock \in Sock \cup {None}
    /\ link \in [Sock -> Link]
    /\ session \in Sess \cup {None}
    /\ on \in Sock \cup {None}
    /\ on # None => session # None
    /\ connected \in BOOLEAN
    /\ authed \in BOOLEAN
    /\ channel \in Sess \cup {None}
    /\ sftp \in Sess \cup {None}
    /\ call \in Calls \cup {"none"}
    /\ pc \in {"idle", "socket", "dial", "session", "handshake", "auth", "open",
               "execute", "read", "close", "hangup", "logout", "shut", "query"}
    /\ result \in Results
    /\ call = "none" <=> pc = "idle"

\* SSHClient.__init__
Init ==
    /\ sock = None
    /\ link = [s \in Sock |-> "new"]
    /\ session = None
    /\ on = None
    /\ connected = FALSE
    /\ authed = FALSE
    /\ channel = None
    /\ sftp = None
    /\ call = "none"
    /\ pc = "idle"
    /\ result = "none"

-----------------------------------------------------------------------------
(* The state that the conditions of the code read.                          *)

InRun == call \in {"single", "multiple"}

\* is_session_connected()
IsSessionConnected == session # None /\ connected

\* The connection under the session.
Alive == on # None /\ link[on] = "up"

\* Reading SO_ERROR, or sending over the connection, takes the error away.
Taken(s) == IF s # None /\ link[s] = "reset"
            THEN [link EXCEPT ![s] = "dead"] ELSE link

\* A step that sends to the peer and receives from it, if it gets that far.
MayTake(s) == link' \in {link, Taken(s)}

\* is_socket_connected() is true whenever no error waits: also for a socket
\* that was never connected, and for one that the peer has closed.
SocketAnswersTrue == sock # None /\ link[sock] # "reset"

Goto(label) == pc' = label /\ UNCHANGED <<call, result>>

Return(r) == pc' = "idle" /\ call' = "none" /\ result' = r

\* The end of the body of "with self": __exit__ calls disconnect(), and r is
\* returned (or raised again) after it.
Leave(r) == pc' = "hangup" /\ result' = r /\ UNCHANGED call

\* The method ends with r, through disconnect() if it is one of the run_*.
Answer(r) == IF InRun THEN Leave(r) ELSE Return(r)

-----------------------------------------------------------------------------

\* Where each method begins.  exec_command takes the channel that the user
\* passes, and opens one of its own if he passes none.
FirstStep(m) ==
    CASE m \in {"connect", "single", "multiple"} -> {"socket"}
      [] m = "disconnect" -> {"hangup"}
      [] m \in {"open", "sftp"} -> {"open"}
      [] m = "close" -> {"close"}
      [] m = "query" -> {"query"}
      [] m = "exec" -> IF channel = None THEN {"open"} ELSE {"open", "execute"}

Call(m) ==
    /\ pc = "idle"
    /\ call' = m
    /\ pc' \in FirstStep(m)
    /\ result' = "none"
    /\ UNCHANGED <<sock, link, object, channels>>

Query ==
    /\ pc = "query"
    /\ link' = Taken(sock)
    /\ Return(IF SocketAnswersTrue THEN "true" ELSE "false")
    /\ UNCHANGED <<sock, object, channels>>

-----------------------------------------------------------------------------
(* connect()                                                               *)

\* connect() returns FALSE.
ConnectFails == Answer(IF InRun THEN "CONNECTION_ERROR" ELSE "false")

\* Mutant: a new socket is made although the old one is connected.
CheckSocket_AlwaysDials ==
    /\ pc = "socket"
    /\ link' = Taken(sock)
    /\ Goto("dial")
    /\ UNCHANGED <<sock, object, channels>>

CheckSocket ==
    /\ pc = "socket"
    /\ link' = Taken(sock)
    /\ Goto(IF SocketAnswersTrue THEN "session" ELSE "dial")
    /\ UNCHANGED <<sock, object, channels>>

\* _connect_socket() makes a new socket, which stays in self.socket when the
\* peer cannot be reached.
Dial ==
    /\ pc = "dial"
    /\ \E s \in Sock :
         /\ s \notin {sock, on}
         /\ sock' = s
         /\ \/ link' = [link EXCEPT ![s] = "up"] /\ Goto("session")
            \/ link' = [link EXCEPT ![s] = "new"] /\ ConnectFails
    /\ UNCHANGED <<object, channels>>

\* socket.socket() itself fails, and then connect_ex on what was there before.
DialFails ==
    /\ pc = "dial"
    /\ ConnectFails
    /\ UNCHANGED <<sock, link, object, channels>>

\* A session that is flagged as connected is used as it is, whichever socket
\* it is on.
CheckSession ==
    /\ pc = "session"
    /\ \/ IsSessionConnected /\ Goto("auth") /\ UNCHANGED link
       \/ /\ ~IsSessionConnected
          /\ link' = Taken(sock)
          /\ IF SocketAnswersTrue THEN Goto("handshake") ELSE ConnectFails
    /\ UNCHANGED <<sock, object, channels>>

\* _init_session() only if there is no session: one whose handshake failed is
\* used again.
Handshake ==
    /\ pc = "handshake"
    /\ \E x \in Sess :
         /\ IF session = None THEN x \notin {channel, sftp} ELSE x = session
         /\ session' = x
    /\ on' = sock
    /\ authed' = FALSE
    /\ \/ link[sock] = "up" /\ connected' = TRUE /\ Goto("auth") /\ UNCHANGED link
       \/ connected' = FALSE /\ ConnectFails /\ link' = Taken(sock)
    /\ UNCHANGED <<sock, channels>>

\* Mutant: a session that was authenticated before is taken for authenticated.
Authenticate_Cached ==
    /\ pc = "auth"
    /\ \/ /\ Alive \/ authed
          /\ authed' = TRUE
          /\ IF InRun THEN Goto("open") ELSE Return("true")
       \/ UNCHANGED authed /\ ConnectFails
    /\ UNCHANGED <<sock, link, session, on, connected, channels>>

\* authenticate() returns True or False, or raises for missing credentials.
Authenticate ==
    /\ pc = "auth"
    /\ \/ /\ Alive
          /\ authed' = TRUE
          /\ IF InRun THEN \/ Goto("open")
                           \/ call = "multiple" /\ Leave("responses")
                      ELSE Return("true")
       \/ UNCHANGED authed /\ ConnectFails
       \/ UNCHANGED authed /\ Answer("raised")
    /\ link' = Taken(on)
    /\ UNCHANGED <<sock, session, on, connected, channels>>

-----------------------------------------------------------------------------
(* open_channel(), close_channel(), exec_command()                          *)

\* run_multiple_commands goes on with the next command, or has no more.
NextCommand == Goto("open") \/ Leave("responses")

OpenChannel ==
    /\ pc = "open"
    /\ \/ /\ IsSessionConnected
          /\ Alive /\ authed
          /\ IF call = "sftp" THEN sftp' = session /\ UNCHANGED channel
                              ELSE channel' = session /\ UNCHANGED sftp
          /\ IF call \in {"open", "sftp"} THEN Return("true") ELSE Goto("execute")
       \/ /\ UNCHANGED channels
          /\ CASE call \in {"open", "sftp"} -> Return("false")
               [] call = "multiple" -> NextCommand
               [] OTHER -> Answer("CHANNEL_OPEN_ERROR")
    /\ link' = IF IsSessionConnected THEN Taken(on) ELSE link
    /\ UNCHANGED <<sock, object>>

\* channel.execute(command); an error of the library is an exception.
Execute ==
    /\ pc = "execute"
    /\ \/ Alive /\ Goto("read")
       \/ Answer("raised")
    /\ link' = Taken(on)
    /\ UNCHANGED <<sock, object, channels>>

\* Reading stderr, the exit status and stdout.
ReadResponse ==
    /\ pc = "read"
    /\ \/ IF call = "multiple" THEN Goto("close")
                               ELSE \E r \in Answers : Answer(r)
       \/ Answer("raised")
    /\ MayTake(on)
    /\ UNCHANGED <<sock, object, channels>>

\* channel.close() and wait_closed() may raise; the channel is kept then.
CloseRaises ==
    /\ channel # None
    /\ UNCHANGED channels

\* Mutant: the method does not record that it is over.
CloseChannel_Unfinished ==
    /\ pc = "close"
    /\ channel' = None
    /\ pc' = "idle"
    /\ UNCHANGED <<sock, link, object, sftp, call, result>>

\* run_multiple_commands closes the session channel; the user either kind.
CloseChannel ==
    /\ pc = "close"
    /\ \/ /\ channel' = None
          /\ UNCHANGED sftp
          /\ IF call = "multiple" THEN NextCommand ELSE Return("none")
       \/ call = "close" /\ sftp' = None /\ UNCHANGED channel /\ Return("none")
       \/ CloseRaises /\ Answer("raised")
    /\ MayTake(on)
    /\ UNCHANGED <<sock, object>>

-----------------------------------------------------------------------------
(* disconnect(), called by the user or at the end of "with".                *)

\* Mutant: only the session channel is closed.
HangUp_KeepsSftp ==
    /\ pc = "hangup"
    /\ channel' = None
    /\ Goto("logout")
    /\ UNCHANGED <<sock, link, object, sftp>>

\* close_channel of both kinds.
HangUp ==
    /\ pc = "hangup"
    /\ \/ channel' = None /\ sftp' = None /\ Goto("logout")
       \/ CloseRaises /\ Return("raised")
    /\ MayTake(on)
    /\ UNCHANGED <<sock, object>>

\* Mutant: the session is closed only while its connection is alive.
Logout_OnlyAlive ==
    /\ pc = "logout"
    /\ IF Alive THEN /\ session' = None /\ on' = None
                     /\ connected' = FALSE /\ authed' = FALSE
                ELSE UNCHANGED object
    /\ Goto("shut")
    /\ UNCHANGED <<sock, link, channels>>

\* _close_session() only if the session is flagged as connected; the message
\* that session.disconnect() sends takes a waiting error.
Logout ==
    /\ pc = "logout"
    /\ \/ /\ IsSessionConnected
          /\ session' = None
          /\ on' = None
          /\ connected' = FALSE
          /\ authed' = FALSE
          /\ link' = Taken(on)
          /\ Goto("shut")
       \/ /\ IsSessionConnected
          /\ ~Alive
          /\ Return("raised")
          /\ link' = Taken(on)
          /\ UNCHANGED object
       \/ /\ ~IsSessionConnected
          /\ Goto("shut")
          /\ UNCHANGED <<link, object>>
    /\ UNCHANGED <<sock, channels>>

\* _close_socket() only if is_socket_connected(), which takes a waiting error.
Shut ==
    /\ pc = "shut"
    /\ IF SocketAnswersTrue
       THEN sock' = None /\ link' = [link EXCEPT ![sock] = "dead"]
       ELSE link' = Taken(sock) /\ UNCHANGED sock
    /\ Return(result)
    /\ UNCHANGED <<object, channels>>

-----------------------------------------------------------------------------

ClientStep ==
    \/ Query
    \/ CheckSocket \/ Dial \/ DialFails \/ CheckSession \/ Handshake \/ Authenticate
    \/ OpenChannel \/ Execute \/ ReadResponse \/ CloseChannel
    \/ HangUp \/ Logout \/ Shut

\* The peer, or the network, breaks a connection: with a reset, or in order.
Break ==
    /\ \E s \in Sock, broken \in {"reset", "dead"} :
         link[s] = "up" /\ link' = [link EXCEPT ![s] = broken]
    /\ UNCHANGED <<sock, object, channels, call, pc, result>>

Next == ClientStep \/ Break \/ \E m \in Calls : Call(m)

Spec == Init /\ [][Next]_vars

-----------------------------------------------------------------------------
(* Properties                                                               *)

\* Method m is over in this step, and did not raise.
Returns(m) == call = m /\ call' = "none" /\ result' # "raised"

\* connect() returns True only when the session is flagged as connected, has
\* been authenticated, and runs over the very socket that the client holds; a
\* session that survived its socket is never taken for the new connection.
ConnectMeansUsable ==
    [][Returns("connect") /\ result' = "true"
         => /\ (IsSessionConnected /\ on = sock /\ authed)'
            /\ link[sock] = "up"]_vars

\* Whatever has failed before, a channel that the client holds belongs to its
\* present session, and that session is flagged as connected and authenticated:
\* the client never works on a channel of a session that it has dropped.
ChannelHasSession ==
    \A x \in {channel, sftp} \ {None} : session = x /\ connected /\ authed

\* disconnect() and run_* that return have closed the channels and the session.
DisconnectClears ==
    [][(\E m \in {"disconnect", "single", "multiple"} : Returns(m))
         => channel' = None /\ sftp' = None /\ ~IsSessionConnected']_vars

\* The tests of the client call disconnect() and then
\* assertFalse(is_socket_connected()).
DisconnectClosesSocket == [][Returns("disconnect") => ~SocketAnswersTrue']_vars
=============================================================================
