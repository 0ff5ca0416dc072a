------------------------------ MODULE KnownHosts ------------------------------
(***************************************************************************)
(* SSHAuthenticator.prepare(endpoint) and cleanup(endpoint), from           *)
(* deling/authenticators/ssh.py, run by several processes of one user that  *)
(* share ~/.ssh/known_hosts.  prepare fetches the host key, makes the       *)
(* directory and the file with their permissions, looks the key up WITHOUT  *)
(* the lock, and adds it with the protocol of KeyFile when it was not there. *)
(* cleanup removes the credentials and, with the same protocol, the lines   *)
(* that mention the endpoint.                                               *)
(*                                                                          *)
(* Each process has one authenticator.  stage[p] is where its call is; while *)
(* it is "adding" or "cleaning" the process also takes the steps of KeyFile. *)
(***************************************************************************)
EXTENDS KeyFile

CONSTANTS
    HostLines,  \* HostLines[e]: the lines get_known_host(e) may return, one
                \* for each salt (the hashed ones mention no endpoint)
    MaxMissed   \* bound: the lookups counted in missed

ASSUME ProcAssumption == IsFiniteSet(Proc) /\ Proc # {}
ASSUME HostLinesAssumption == HostLines \in [Content -> SUBSET Line]
ASSUME MaxMissedAssumption == MaxMissed \in Nat

Endpoint == Content
Mode == {"open", "private"}     \* as the umask has it, and 0o700 or 0o600

VARIABLES
    stage,      \* where the process's prepare or cleanup is
    line,       \* the host key line that its prepare has got
    prepared,   \* SSHAuthenticator._is_prepared
    creds,      \* FALSE once SSHAuthenticator._credentials is None
    credsGone,  \* what remove_credentials() returned to this cleanup
    dirThere,   \* ~/.ssh exists
    dirMode,
    fileMode,   \* "given" for a file that was there from the start
    seen,       \* history: the lines that the process found in the file or
                \* added to it, and that no removal has since mentioned
    wiped,      \* history: a removal has mentioned the last of them
    missed      \* history: how many lookups found nothing in a file that was
                \* being rewritten

authVars == <<prepared, creds, credsGone>>
diskVars == <<dirThere, dirMode, fileMode>>
history == <<seen, wiped, missed>>
allVars == <<vars, stage, line, authVars, diskVars, history>>

HostTypeOK ==
    /\ TypeOK
    /\ stage \in [Proc -> {"idle", "probe", "dir", "mkdir", "mode", "file",
                           "touch", "chmod", "lookup", "adding", "cleaning"}]
    /\ line \in [Proc -> Line \cup {None}]
    /\ prepared \in [Proc -> BOOLEAN]
    /\ creds \in [Proc -> BOOLEAN]
    /\ credsGone \in [Proc -> BOOLEAN]
    /\ dirThere \in BOOLEAN
    /\ dirMode \in Mode
    /\ fileMode \in Mode \cup {"given"}
    /\ seen \in [Proc -> SUBSET Line]
    /\ wiped \in [Proc -> BOOLEAN]
    /\ missed \in 0..MaxMissed
    /\ \A p \in Proc : pc[p] # "idle" => stage[p] \in {"adding", "cleaning"}

HostInit ==
    /\ Init
    /\ stage = [p \in Proc |-> "idle"]
    /\ line = [p \in Proc |-> None]
    /\ prepared = [p \in Proc |-> FALSE]
    /\ creds = [p \in Proc |-> TRUE]
    /\ credsGone = [p \in Proc |-> FALSE]
    /\ dirThere \in BOOLEAN
    /\ present => dirThere
    /\ dirMode \in Mode
    /\ fileMode = "given"
    /\ seen = [p \in Proc |-> {}]
    /\ wiped = [p \in Proc |-> FALSE]
    /\ missed = 0

At(p, s) == stage[p] = s
Move(p, s) == stage' = [stage EXCEPT ![p] = s]

\* The call returns or raises.
End(p) == Move(p, "idle") /\ line' = [line EXCEPT ![p] = None]

-----------------------------------------------------------------------------
(* prepare                                                                  *)

\* Prepares under way that may still append l.
Wanting(l) == {p \in Proc : At(p, "probe") \/ line[p] = l}

\* Bound: no line is asked for more than MaxCopies times at once.
Room == \A l \in Line, p \in Proc :
            file[l] + buf[p][l] + Cardinality(Wanting(l)) < MaxCopies

BeginPrepare(p) ==
    /\ At(p, "idle")
    /\ Room
    /\ Move(p, "probe")
    /\ UNCHANGED <<vars, line, authVars, diskVars, history>>

\* get_known_host(endpoint): the peer's host key, as a line.  It connects and
\* shakes hands on a socket that blocks and has no timeout, so nothing says
\* that this step, or ProbeFails, is ever taken.
Probe(p) ==
    /\ At(p, "probe")
    /\ \E e \in Endpoint : \E l \in HostLines[e] : line' = [line EXCEPT ![p] = l]
    /\ Move(p, "dir")
    /\ UNCHANGED <<vars, authVars, diskVars, history>>

\* connect() or the handshake fails: an exception either way.
ProbeFails(p) ==
    /\ At(p, "probe")
    /\ End(p)
    /\ UNCHANGED <<vars, authVars, diskVars, history>>

CheckDir(p) ==
    /\ At(p, "dir")
    /\ Move(p, IF dirThere THEN "mode" ELSE "mkdir")
    /\ UNCHANGED <<vars, line, authVars, diskVars, history>>

MakeDir(p) ==
    /\ At(p, "mkdir")
    /\ ~dirThere
    /\ dirThere' = TRUE
    /\ dirMode' \in Mode
    /\ Move(p, "mode")
    /\ UNCHANGED <<vars, line, authVars, fileMode, history>>

\* os.makedirs without exist_ok raises when another process was faster:
\* makedirs returns False and prepare raises "Failed to create the known hosts
\* directory which does not exist".
MakeDirRaces(p) ==
    /\ At(p, "mkdir")
    /\ dirThere
    /\ End(p)
    /\ UNCHANGED <<vars, authVars, diskVars, history>>

\* Stat, and chmod 0o700 when it is anything else.
FixDirMode(p) ==
    /\ At(p, "mode")
    /\ dirMode' = "private"
    /\ Move(p, "file")
    /\ UNCHANGED <<vars, line, authVars, dirThere, fileMode, history>>

\* A file that is there already keeps whatever permissions it has.
CheckFile(p) ==
    /\ At(p, "file")
    /\ Move(p, IF present THEN "lookup" ELSE "touch")
    /\ UNCHANGED <<vars, line, authVars, diskVars, history>>

\* Mutant: the new file keeps the permissions that the umask gives.
Touch_SkipsMode(p) ==
    /\ At(p, "touch")
    /\ present' = TRUE
    /\ IF present THEN UNCHANGED fileMode ELSE fileMode' \in Mode
    /\ Move(p, "lookup")
    /\ UNCHANGED <<file, owner, pc, op, arg, buf, wrote, ret, unlocked, line,
                   authVars, dirThere, dirMode, history>>

Touch(p) ==
    /\ At(p, "touch")
    /\ present' = TRUE
    /\ IF present THEN UNCHANGED fileMode ELSE fileMode' \in Mode
    /\ Move(p, "chmod")
    /\ UNCHANGED <<file, owner, pc, op, arg, buf, wrote, ret, unlocked, line,
                   authVars, dirThere, dirMode, history>>

FixFileMode(p) ==
    /\ At(p, "chmod")
    /\ fileMode' = "private"
    /\ Move(p, "lookup")
    /\ UNCHANGED <<vars, line, authVars, dirThere, dirMode, history>>

\* Mutant: the line is added without looking.
Lookup_NeverFinds(p) ==
    /\ At(p, "lookup")
    /\ Begin(p, "add", line[p])
    /\ Move(p, "adding")
    /\ UNCHANGED <<line, authVars, diskVars, history>>

\* get_known_hosts reads the file without the lock, so it may see what a
\* rewrite has put back so far.
Lookup(p) ==
    /\ At(p, "lookup")
    /\ \/ /\ file[line[p]] > 0
          /\ prepared' = [prepared EXCEPT ![p] = TRUE]
          /\ seen' = [seen EXCEPT ![p] = @ \cup {line[p]}]
          /\ wiped' = [wiped EXCEPT ![p] = FALSE]
          /\ End(p)
          /\ UNCHANGED <<vars, missed>>
       \/ /\ file[line[p]] = 0
          /\ Begin(p, "add", line[p])
          /\ Move(p, "adding")
          /\ missed' = IF RewriteRuns /\ missed < MaxMissed THEN missed + 1 ELSE missed
          /\ UNCHANGED <<prepared, seen, wiped, line>>
    /\ UNCHANGED <<creds, credsGone, diskVars>>

\* Mutant: prepare does not wait for the add.
AddReturns_Early(p) ==
    /\ At(p, "adding")
    /\ prepared' = [prepared EXCEPT ![p] = TRUE]
    /\ End(p)
    /\ UNCHANGED <<vars, creds, credsGone, diskVars, history>>

\* Mutant: what add_to_known_hosts returns or raises is not looked at.
AddReturns_Whatever(p) ==
    /\ At(p, "adding")
    /\ pc[p] = "idle"
    /\ prepared' = [prepared EXCEPT ![p] = TRUE]
    /\ End(p)
    /\ UNCHANGED <<vars, creds, credsGone, diskVars, history>>

\* add_to_known_hosts has returned, or its exception goes through prepare.
AddReturns(p) ==
    /\ At(p, "adding")
    /\ pc[p] = "idle"
    /\ prepared' = [prepared EXCEPT ![p] = @ \/ ret[p] = "true"]
    /\ End(p)
    /\ UNCHANGED <<vars, creds, credsGone, diskVars, history>>

\* Making, touching or changing the mode of something fails, or get_known_hosts
\* returns False, in which "in" cannot look.
PrepareFails(p) ==
    /\ "io" \in Faults
    /\ \E s \in {"mkdir", "mode", "touch", "chmod", "lookup"} : At(p, s)
    /\ End(p)
    /\ UNCHANGED <<vars, authVars, diskVars, history>>

-----------------------------------------------------------------------------
(* cleanup                                                                  *)

\* remove_credentials first, whatever it answers remove_from_known_hosts next.
BeginCleanup(p) ==
    /\ At(p, "idle")
    /\ creds[p]
    /\ \E e \in Endpoint : Begin(p, "remove", e)
    /\ \E gone \in BOOLEAN : credsGone' = [credsGone EXCEPT ![p] = gone]
    /\ Move(p, "cleaning")
    /\ UNCHANGED <<line, prepared, creds, diskVars, history>>

\* After a cleanup that returned True credentials is None: another one raises
\* at once and changes nothing.
CleanupTwice(p) ==
    /\ At(p, "idle")
    /\ ~creds[p]
    /\ UNCHANGED allVars

CleanupReturns(p) ==
    /\ At(p, "cleaning")
    /\ pc[p] = "idle"
    /\ LET done == credsGone[p] /\ ret[p] = "true" IN
         /\ creds' = [creds EXCEPT ![p] = @ /\ ~done]
         /\ prepared' = [prepared EXCEPT ![p] = @ /\ ~done]
    /\ credsGone' = [credsGone EXCEPT ![p] = FALSE]
    /\ End(p)
    /\ UNCHANGED <<vars, diskVars, history>>

-----------------------------------------------------------------------------
(* The steps of KeyFile inside a call.  The lock file is in the directory:   *)
(* opening it fails while that does not exist.                               *)

OpenLockFile(p) ==
    IF dirThere THEN OpenLock(p) \/ ("lockfile" \in Faults /\ OpenLockFails(p))
                ELSE OpenLockFails(p)

EditStep(p) ==
    /\ OpenLockFile(p) \/ LockedStep(p)
    /\ seen' = [q \in Proc |->
                  (IF Truncate(p) THEN seen[q] \ Mentions[arg[p]] ELSE seen[q])
                     \cup (IF q = p /\ Append(p) THEN {arg[p]} ELSE {})]
    /\ wiped' = [q \in Proc |-> seen'[q] = {} /\ (wiped[q] \/ seen[q] # {})]
    /\ UNCHANGED <<stage, line, authVars, diskVars, missed>>

\* The process dies in a call, and a new one starts.
HostCrash(p) ==
    /\ "crash" \in Faults
    /\ ~At(p, "idle")
    /\ Crash(p) \/ (pc[p] = "idle" /\ UNCHANGED vars)
    /\ End(p)
    /\ prepared' = [prepared EXCEPT ![p] = FALSE]
    /\ creds' = [creds EXCEPT ![p] = TRUE]
    /\ credsGone' = [credsGone EXCEPT ![p] = FALSE]
    /\ seen' = [seen EXCEPT ![p] = {}]
    /\ wiped' = [wiped EXCEPT ![p] = FALSE]
    /\ UNCHANGED <<diskVars, missed>>

PrepareStep(p) ==
    \/ Probe(p) \/ ProbeFails(p)
    \/ CheckDir(p) \/ MakeDir(p) \/ MakeDirRaces(p) \/ FixDirMode(p)
    \/ CheckFile(p) \/ Touch(p) \/ FixFileMode(p)
    \/ Lookup(p) \/ AddReturns(p) \/ PrepareFails(p)

HostNext ==
    \E p \in Proc :
        \/ BeginPrepare(p)
        \/ PrepareStep(p)
        \/ BeginCleanup(p)
        \/ CleanupTwice(p)
        \/ CleanupReturns(p)
        \/ EditStep(p)
        \/ HostCrash(p)

HostSpec == HostInit /\ [][HostNext]_allVars

\* What a prepare does without the peer.
LocalStep(p) == ~At(p, "probe") /\ PrepareStep(p)

\* A call that is not blocked keeps running; see KeyFile for the lock.  A peer
\* need never answer: no fairness makes a prepare leave "probe".
HostFairness ==
    \A p \in Proc :
        /\ WF_allVars(LocalStep(p) \/ CleanupReturns(p))
        /\ WF_allVars(EditStep(p))
        /\ SF_allVars(Flock(p) /\ EditStep(p))

HostFairSpec == HostSpec /\ HostFairness

-----------------------------------------------------------------------------
(* Properties                                                               *)

\* A line that a process found in the file, or added, stays in the registry
\* until a cleanup of an endpoint that the line mentions, whatever the other
\* processes prepare and clean up meanwhile: what prepare tells its caller is
\* not undone behind its back.
SeenStays ==
    ~unlocked /\ Faults \cap {"io", "crash"} = {} =>
        \A p \in Proc : \A l \in seen[p] : Entries[l] > 0

\* The lookup is not under the lock, so that processes which look at the same
\* time all add the line, and so does a process whose lookup meets a rewrite
\* that has not put the line back yet; but the file never has more copies than
\* there are processes and such lookups.
BoundedDuplicates ==
    missed < MaxMissed /\ ~unlocked =>
        \A l \in Line : Entries[l] <= Cardinality(Proc) + missed

\* An authenticator that says it is prepared has found a line in the file, or
\* added one, and unless a cleanup has since mentioned the last of them still
\* counts on it (SeenStays says that it is there); and the directory of the
\* file is private.  So an add that failed or raised prepares nothing, and no
\* process passes the directory before somebody has fixed its mode.
PreparedIsKnown ==
    \A p \in Proc :
        prepared[p] => /\ seen[p] # {} \/ wiped[p]
                       /\ dirThere /\ dirMode = "private"

\* A prepare whose peer has answered always comes to an end, and so does a
\* cleanup, whoever else prepares, cleans up, errs or dies.
CallEnds == \A p \in Proc : ~At(p, "idle") /\ ~At(p, "probe") ~> At(p, "idle")

\* A file that a prepare created, with the permissions the umask gave it, is
\* never left that way: the process that created it is still about to fix them.
NoOpenFileLeft ==
    Faults \cap {"io", "crash"} = {} =>
        (fileMode = "open" => \E p \in Proc : At(p, "chmod"))

\* prepare's "Failed to create the known hosts directory which does not exist"
\* is raised only when the directory does not exist.
DirErrorOnlyIfMissing ==
    [][\A p \in Proc : At(p, "mkdir") /\ At(p, "idle")' => ~dirThere]_allVars
=============================================================================
