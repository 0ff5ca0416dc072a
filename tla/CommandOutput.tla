---------------------------- MODULE CommandOutput ----------------------------
(***************************************************************************)
(* SSHClient.exec_command and the functions that read a channel             *)
(* (deling/clients/ssh.py): stderr to its end, then the exit status, then   *)
(* stdout to its end, each chunk decoded for itself.  The other actor is    *)
(* the command on the server, which writes, closes its output and exits in  *)
(* its own time.                                                            *)
(*                                                                         *)
(* The data is a sequence of bytes of three kinds: an ASCII character, the  *)
(* first byte of a two-byte character and its second byte.  What a server   *)
(* sends arrives at once; delay is a later step of the server.              *)
(***************************************************************************)
EXTENDS Naturals, Sequences

CONSTANTS
    BufferSize, \* what channel.read() asks for when it is not told (1024)
    MaxBytes,   \* bound: bytes that the command writes to one stream
    Status,     \* exit statuses of commands
    None

ASSUME BufferSizeAssumption == BufferSize \in Nat \ {0}
ASSUME MaxBytesAssumption == MaxBytes \in Nat
ASSUME StatusAssumption == Status \subseteq Nat /\ None \notin Status

Stream == {"stderr", "stdout"}
Byte == {"ascii", "lead", "trail"}
Results == {"none", "raised", "SUCCESS", "STDERR_RESPONSE", "CHANNEL_READ_ERROR"}

VARIABLES
    sent,       \* all that the command has written to each stream
    eof,        \* the server has sent the end of the output
    status,     \* the command's exit status
    known,      \* the message with the exit status has arrived
    broken,     \* the connection is broken
    pc,         \* "execute", the stream that is read, "status", or "done"
    taken,      \* the number of bytes read from each stream
    size,       \* what the next read asks for
    response,   \* the text read so far, as its bytes
    failed,     \* a chunk could not be decoded
    exitCode,   \* what get_exit_status() gave
    result

server == <<sent, eof, status, known, broken>>
client == <<pc, taken, size, response, failed, exitCode, result>>
vars == <<server, client>>

TypeOK ==
    /\ sent \in [Stream -> Seq(Byte)]
    /\ eof \in BOOLEAN
    /\ status \in Status \cup {None}
    /\ known \in BOOLEAN
    /\ known => status # None
    /\ broken \in BOOLEAN
    /\ pc \in {"execute", "status", "done"} \cup Stream
    /\ taken \in [Stream -> Nat]
    /\ \A s \in Stream : taken[s] <= Len(sent[s])
    /\ size \in 1..BufferSize
    /\ response \in Seq(Byte)
    /\ failed \in BOOLEAN
    /\ exitCode \in Status \cup {0}
    /\ result \in Results
    /\ result = "none" <=> pc # "done"

Init ==
    /\ sent = [s \in Stream |-> <<>>]
    /\ eof = FALSE
    /\ status = None
    /\ known = FALSE
    /\ broken = FALSE
    /\ pc = "execute"
    /\ taken = [s \in Stream |-> 0]
    /\ size = BufferSize
    /\ response = <<>>
    /\ failed = FALSE
    /\ exitCode = 0
    /\ result = "none"

\* bytes.decode("utf-8"): no character is cut in two.
Decodes(bytes) ==
    \A i \in 1..Len(bytes) :
        /\ bytes[i] = "lead" => i < Len(bytes) /\ bytes[i + 1] = "trail"
        /\ bytes[i] = "trail" => i > 1 /\ bytes[i - 1] = "lead"

-----------------------------------------------------------------------------
(* The server.                                                              *)

\* The command, or a child that outlives it, writes UTF-8 text.
Write(s) ==
    /\ pc # "execute" /\ ~eof /\ ~broken
    /\ Len(sent[s]) < MaxBytes
    /\ \E b \in Byte :
         /\ b = "trail" <=> sent[s] # <<>> /\ sent[s][Len(sent[s])] = "lead"
         /\ sent' = [sent EXCEPT ![s] = Append(@, b)]
    /\ UNCHANGED <<eof, status, known, broken, client>>

\* Everyone has closed the output, perhaps in the middle of a character.
CloseOutput ==
    /\ pc # "execute" /\ ~eof /\ ~broken
    /\ eof' = TRUE
    /\ UNCHANGED <<sent, status, known, broken, client>>

Exit ==
    /\ pc # "execute" /\ status = None
    /\ status' \in Status
    /\ UNCHANGED <<sent, eof, known, broken, client>>

ReportStatus ==
    /\ status # None /\ ~known /\ ~broken
    /\ known' = TRUE
    /\ UNCHANGED <<sent, eof, status, broken, client>>

Break ==
    /\ ~broken
    /\ broken' = TRUE
    /\ UNCHANGED <<sent, eof, status, known, client>>

-----------------------------------------------------------------------------
(* exec_command                                                             *)

Available(s) == Len(sent[s]) - taken[s]

\* The method returns r.
Return(r) == pc' = "done" /\ result' = r

\* An exception of the library goes through exec_command.  Once the connection
\* is broken any read may raise, also with data queued or after the end: the
\* library decides whether it gives what has arrived first.
Raise ==
    /\ pc = "execute" \/ (pc \in Stream /\ broken)
    /\ Return("raised")
    /\ UNCHANGED <<server, taken, size, response, failed, exitCode>>

Execute ==
    /\ pc = "execute" /\ ~broken
    /\ pc' = "stderr"
    /\ UNCHANGED <<server, taken, size, response, failed, exitCode, result>>

\* The bytes that a read of at most n bytes of stream s gives.
Chunk(s, n) ==
    SubSeq(sent[s], taken[s] + 1,
           taken[s] + (IF n < Available(s) THEN n ELSE Available(s)))

\* Mutant: the first chunk is taken for all of it.
ReadChunk_Once(s) ==
    /\ pc = s /\ Available(s) > 0
    /\ LET chunk == Chunk(s, size) IN
         /\ taken' = [taken EXCEPT ![s] = @ + Len(chunk)]
         /\ response' = response \o chunk
         /\ IF s = "stderr" THEN pc' = "status" /\ UNCHANGED result
                            ELSE Return("SUCCESS")
    /\ UNCHANGED <<server, size, failed, exitCode>>

\* Mutant: a chunk that does not fill the buffer is taken for an error.
ReadChunk_Full(s) ==
    /\ pc = s /\ Available(s) > 0
    /\ LET chunk == Chunk(s, size) IN
         /\ taken' = [taken EXCEPT ![s] = @ + Len(chunk)]
         /\ IF Len(chunk) = size /\ Decodes(chunk)
            THEN /\ response' = response \o chunk
                 /\ UNCHANGED <<pc, failed, result>>
            ELSE /\ response' = <<>>
                 /\ failed' = TRUE
                 /\ IF s = "stderr" THEN pc' = "status" /\ UNCHANGED result
                                    ELSE Return("CHANNEL_READ_ERROR")
    /\ UNCHANGED <<server, size, exitCode>>

\* Mutant: the next read asks for the room that this one has left.
ReadChunk_Room(s) ==
    /\ pc = s /\ Available(s) > 0
    /\ LET chunk == Chunk(s, size) IN
         /\ taken' = [taken EXCEPT ![s] = @ + Len(chunk)]
         /\ response' = response \o chunk
         /\ size' = size - Len(chunk)
    /\ UNCHANGED <<server, pc, failed, exitCode, result>>

\* One turn of the loop: the next read asks for as much as this one gave.  A
\* chunk that does not decode ends the reading of the stream.
ReadChunk(s) ==
    /\ pc = s /\ Available(s) > 0
    /\ LET chunk == Chunk(s, size) IN
         /\ taken' = [taken EXCEPT ![s] = @ + Len(chunk)]
         /\ \/ /\ Decodes(chunk)
               /\ response' = response \o chunk
               /\ size' = Len(chunk)
               /\ UNCHANGED <<pc, failed, result>>
            \/ /\ ~Decodes(chunk)
               /\ response' = <<>>
               /\ failed' = TRUE
               /\ IF s = "stderr" THEN pc' = "status" /\ UNCHANGED result
                                  ELSE Return("CHANNEL_READ_ERROR")
               /\ UNCHANGED size
    /\ UNCHANGED <<server, exitCode>>

\* Mutant: the reader waits for the exit status, too.
ReadEnd_Waits(s) ==
    /\ pc = s /\ Available(s) = 0 /\ eof /\ known
    /\ IF s = "stderr" THEN pc' = "status" /\ UNCHANGED result
                       ELSE Return("SUCCESS")
    /\ UNCHANGED <<server, taken, size, response, failed, exitCode>>

\* A read of 0 bytes: the end of the stream.
ReadEnd(s) ==
    /\ pc = s /\ Available(s) = 0 /\ eof
    /\ IF s = "stderr" THEN pc' = "status" /\ UNCHANGED result
                       ELSE Return("SUCCESS")
    /\ UNCHANGED <<server, taken, size, response, failed, exitCode>>

\* get_exit_status() does not wait: it is 0 until the message has arrived.
\* Only then are the results of reading stderr looked at.
ReadStatus ==
    /\ pc = "status"
    /\ exitCode' = IF known THEN status ELSE 0
    /\ \/ failed /\ Return("CHANNEL_READ_ERROR") /\ UNCHANGED size
       \/ ~failed /\ response # <<>> /\ Return("STDERR_RESPONSE") /\ UNCHANGED size
       \/ /\ ~failed /\ response = <<>>
          /\ pc' = "stdout"
          /\ size' = BufferSize
          /\ UNCHANGED result
    /\ UNCHANGED <<server, taken, response, failed>>

\* run_multiple_commands closes the channel and opens one for the next command.
NextCommand ==
    /\ pc = "done"
    /\ sent' = [s \in Stream |-> <<>>]
    /\ eof' = FALSE
    /\ status' = None
    /\ known' = FALSE
    /\ broken' = FALSE
    /\ pc' = "execute"
    /\ taken' = [s \in Stream |-> 0]
    /\ size' = BufferSize
    /\ response' = <<>>
    /\ failed' = FALSE
    /\ exitCode' = 0
    /\ result' = "none"

-----------------------------------------------------------------------------

ServerStep ==
    \/ \E s \in Stream : Write(s)
    \/ CloseOutput
    \/ Exit
    \/ ReportStatus
    \/ Break

ClientStep ==
    \/ Raise
    \/ Execute
    \/ \E s \in Stream : ReadChunk(s) \/ ReadEnd(s)
    \/ ReadStatus

Next == ServerStep \/ ClientStep \/ NextCommand

Spec == Init /\ [][Next]_vars

\* The client runs, and a command closes its output some time.
FairSpec == Spec /\ WF_vars(ClientStep) /\ WF_vars(CloseOutput)

-----------------------------------------------------------------------------
(* Properties                                                               *)

\* Whatever the chunks, a response is all that the command wrote: SUCCESS
\* comes with all of stdout and means that nothing was written to stderr, and
\* STDERR_RESPONSE comes with all of stderr.
ResponseComplete ==
    /\ result = "SUCCESS"
         => eof /\ response = sent["stdout"] /\ sent["stderr"] = <<>>
    /\ result = "STDERR_RESPONSE"
         => eof /\ response = sent["stderr"] /\ response # <<>>

\* Reading fails exactly when a read has ended inside a character of more than
\* one byte, be it that the chunks fell so or that the command stopped there:
\* any other output is read, whatever the chunks, and no half of a character
\* ever gets into a response.
FailsAtCut ==
    failed <=> \E s \in Stream : taken[s] > 0 /\ sent[s][taken[s]] = "lead"

\* A command that closes its output is answered, whether it exits or not.
Answered == pc = "stderr" ~> pc = "done"

\* test_client_run_single_command_return_stderr: the exit_code that comes with
\* what a command wrote to stderr is that command's, once it has exited.
ExitCodeIsStatus ==
    [][result' = "STDERR_RESPONSE" /\ status # None => exitCode' = status]_vars
=============================================================================
