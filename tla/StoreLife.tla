------------------------------ MODULE StoreLife ------------------------------
(***************************************************************************)
(* The life of an SFTPStore (deling/io/datastores/core.py) over its         *)
(* SSHClient: the constructor, which connects and opens an SFTP channel,    *)
(* disconnect(), and what the interpreter does to a store that nobody holds *)
(* any more.  The store keeps the channel beside the client, whose calls    *)
(* its user may make as well: they come from SSHClient.                     *)
(***************************************************************************)
EXTENDS SSHClient

VARIABLES
    stage,      \* where the store is, see Stage
    chan        \* self.sftp_channel of the store, as the session it belongs to

life == <<stage, chan>>
lifeVars == <<vars, life>>

\* "none": no store; "connecting", "opening": in the constructor; "live": in the
\* hands of its user; "closing", "closed": in disconnect(), before and in that of
\* the client.  "dropped": nobody holds it, __del__ is due; "leaving", "left": as
\* "closing" and "closed"; "freeing", "freed": in __del__ of the client.
Stage == {"none", "connecting", "opening", "live", "closing", "closed",
          "dropped", "leaving", "left", "freeing", "freed"}

StageOK ==
    /\ stage \in Stage
    /\ chan \in Sess \cup {None}
    /\ stage \in {"none", "connecting", "opening"} => chan = None
    /\ stage \in {"none", "dropped", "closing", "leaving", "freeing"} => pc = "idle"

StoreTypeOK == TypeOK /\ StageOK

StoreInit == Init /\ stage = "none" /\ chan = None

-----------------------------------------------------------------------------

\* The store calls method m of its client, or has its answer.
Calling(from, m, to) == stage = from /\ stage' = to /\ Call(m) /\ UNCHANGED chan
Answered(s) == stage = s /\ pc = "idle"

\* SFTPStore.__init__, whose authenticator is prepared.
New == Calling("none", "connect", "connecting")

Connected ==
    /\ Answered("connecting")
    /\ IF result = "true"
       THEN Calling("connecting", "sftp", "opening")
       ELSE stage' = "dropped" /\ UNCHANGED <<vars, chan>>

\* Mutant: what open_channel() returns is not looked at.
Opened_Unchecked ==
    /\ Answered("opening")
    /\ stage' = "live"
    /\ chan' = sftp
    /\ UNCHANGED vars

\* A constructor that raises leaves nobody who holds the store.
Opened ==
    /\ Answered("opening")
    /\ IF result = "true"
       THEN stage' = "live" /\ chan' = sftp
       ELSE stage' = "dropped" /\ UNCHANGED chan
    /\ UNCHANGED vars

\* self.ssh_client is for everybody; is_connected() is its is_socket_connected().
Use == stage = "live" /\ (\E m \in Calls : Call(m)) /\ UNCHANGED life

Drop == Answered("live") /\ stage' = "dropped" /\ UNCHANGED <<vars, chan>>

\* self.sftp_channel.session.disconnect(), of a session that the client may have
\* closed with its socket long ago: the descriptor may be another's by now, also
\* that of the client's new connection, which the message spoils.
SessionDisconnect(raises) ==
    /\ chan # None
    /\ IF chan = session
       THEN /\ raises => ~Alive
            /\ link' = Taken(on)
       ELSE \/ UNCHANGED link
            \/ /\ ~raises
               /\ sock # None /\ link[sock] = "up"
               /\ link' = [link EXCEPT ![sock] = "dead"]

\* The first half of disconnect(), in the hands of the user or in __del__: "then"
\* comes after it, and "failed" if it raises.
FirstHalf(from, then, failed) ==
    /\ Answered(from)
    /\ \/ stage' = then /\ chan = None /\ UNCHANGED <<link, result>>
       \/ stage' = then /\ SessionDisconnect(FALSE) /\ UNCHANGED result
       \/ stage' = failed /\ SessionDisconnect(TRUE) /\ result' = "raised"
    /\ UNCHANGED <<sock, object, channels, call, pc, chan>>

Disconnect == FirstHalf("live", "closing", "live")
Del == FirstHalf("dropped", "leaving", "freeing")

\* Mutant: the session of the channel is all that disconnect() takes care of.
CloseClient_Never ==
    /\ stage = "closing"
    /\ stage' = "closed"
    /\ UNCHANGED <<vars, chan>>

CloseClient == Calling("closing", "disconnect", "closed")

LeaveClient == Calling("leaving", "disconnect", "left")

FreeClient == Calling("freeing", "disconnect", "freed")

\* What disconnect() of the client raises is the user's, or is ignored in __del__.
Closed == Answered("closed") /\ stage' = "live" /\ UNCHANGED <<vars, chan>>
Left == Answered("left") /\ stage' = "freeing" /\ UNCHANGED <<vars, chan>>

\* All objects are gone, and with them a socket that is still open.
Free ==
    /\ Answered("freed")
    /\ stage' = "none" /\ chan' = None
    /\ sock' = None /\ link' = [s \in Sock |-> "new"]
    /\ session' = None /\ on' = None /\ connected' = FALSE /\ authed' = FALSE
    /\ channel' = None /\ sftp' = None
    /\ call' = "none" /\ pc' = "idle" /\ result' = "none"

-----------------------------------------------------------------------------

StoreStep ==
    \/ New \/ Connected \/ Opened
    \/ Use \/ Disconnect \/ CloseClient \/ Closed
    \/ Drop \/ Del \/ LeaveClient \/ Left \/ FreeClient \/ Free

\* A session that the client makes is not the one that the store still has.
Below ==
    /\ ClientStep \/ Break
    /\ session # chan /\ chan # None => session' # chan
    /\ UNCHANGED life

StoreNext == StoreStep \/ Below

StoreSpec == StoreInit /\ [][StoreNext]_lifeVars

-----------------------------------------------------------------------------
(* Properties                                                               *)

AnyUp == \E s \in Sock : link[s] = "up"
OnlyHeldUp == \A s \in Sock : link[s] = "up" => s = sock

\* Whatever is called and whatever breaks, a connection that is up is that of the
\* socket which the client holds: none is left behind where no call can close it.
\* When the constructor has raised, __del__ has closed that one too before the
\* client is freed.
NothingLeftBehind ==
    /\ OnlyHeldUp
    /\ stage = "freeing" /\ chan = None => ~AnyUp

\* A store that the constructor gives to its user has the client's channel, of a
\* session that was authenticated over the socket that the client holds.
NewStoreUsable ==
    [][stage = "opening" /\ stage' = "live"
         => /\ chan' # None /\ chan' = sftp
            /\ session = chan' /\ connected /\ authed /\ on = sock]_lifeVars

\* disconnect() of a store that returns has closed the connection, also if the
\* user has made the client connect anew since the store was made; what it raises
\* may leave it open.
StoreCloses ==
    [][stage = "closed" /\ stage' = "live" /\ result # "raised"
         => ~AnyUp /\ sftp = None /\ ~IsSessionConnected]_lifeVars
=============================================================================
