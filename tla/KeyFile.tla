------------------------------- MODULE KeyFile -------------------------------
(***************************************************************************)
(* The protocol by which processes edit a shared line file under an flock  *)
(* on "<path>_lock":                                                       *)
(*   deling/utils/io.py            acquire_lock, release_lock, write,      *)
(*                                 remove_content_from_file                *)
(*   deling/authenticators/ssh.py  add_to_authorized, add_to_known_hosts,  *)
(*                                 remove_from_authorized,                 *)
(*                                 remove_from_known_hosts                 *)
(*                                                                         *)
(* One call is a walk of pc[p] through                                     *)
(*   idle -> open -> flock -> append                       -> release      *)
(*   idle -> open -> flock -> load -> trunc -> write*      -> release      *)
(* with every early return, swallowed exception and raised one as a        *)
(* disjunct.  The file is a bag of lines: nothing here depends on their    *)
(* order.  A rewrite truncates the file when it opens it and its lines     *)
(* reach the disk one by one.                                              *)
(***************************************************************************)
EXTENDS Naturals, FiniteSets

CONSTANTS
    Proc,       \* processes (or threads: every call opens its own lock file)
    Line,       \* the lines that may stand in the file
    Content,    \* what a caller may ask to have removed
    Mentions,   \* Mentions[c]: the lines that have c as a substring
    None,       \* "no value": the empty content, no lock holder
    Faults,     \* what the environment may do, a subset of FaultKinds
    MaxCopies   \* bound: copies of one line that callers ask for

FaultKinds == {"lockfile", "flock", "io", "crash"}

ASSUME NoneAssumption == None \notin Proc /\ None \notin Line /\ None \notin Content
ASSUME MentionsAssumption == Mentions \in [Content -> SUBSET Line]
ASSUME FaultsAssumption == Faults \subseteq FaultKinds
ASSUME MaxCopiesAssumption == MaxCopies \in Nat

VARIABLES
    present,    \* the file exists
    file,       \* its lines, a bag
    owner,      \* the process whose open file description has the flock
    pc,         \* where each process's call is
    op,         \* the call: "add", "remove", or "none"
    arg,        \* the line to add, or the content to remove
    buf,        \* lines held in memory: loaded, then still to be written
    wrote,      \* lines this process has written since it truncated the file
    ret,        \* what the last call returned or is about to return
    unlocked    \* history: a call has gone on without the lock

vars == <<present, file, owner, pc, op, arg, buf, wrote, ret, unlocked>>

Bag == [Line -> Nat]
Empty == [l \in Line |-> 0]
Without(f, c) == [l \in Line |-> IF l \in Mentions[c] THEN 0 ELSE f[l]]

TypeOK ==
    /\ present \in BOOLEAN
    /\ file \in Bag
    /\ owner \in Proc \cup {None}
    /\ pc \in [Proc -> {"idle", "open", "flock", "append", "load", "trunc",
                        "write", "release"}]
    /\ op \in [Proc -> {"none", "add", "remove"}]
    /\ arg \in [Proc -> Line \cup Content \cup {None}]
    /\ \A p \in Proc : op[p] = "add" => arg[p] \in Line \cup {None}
    /\ \A p \in Proc : op[p] = "remove" => arg[p] \in Content \cup {None}
    /\ buf \in [Proc -> Bag]
    /\ wrote \in [Proc -> Bag]
    /\ ret \in [Proc -> {"none", "true", "false", "raised"}]
    /\ unlocked \in BOOLEAN

Init ==
    /\ present \in BOOLEAN
    /\ file \in [Line -> 0..1]
    /\ present \/ file = Empty
    /\ owner = None
    /\ pc = [p \in Proc |-> "idle"]
    /\ op = [p \in Proc |-> "none"]
    /\ arg = [p \in Proc |-> None]
    /\ buf = [p \in Proc |-> Empty]
    /\ wrote = [p \in Proc |-> Empty]
    /\ ret = [p \in Proc |-> "none"]
    /\ unlocked = FALSE

-----------------------------------------------------------------------------
(* Calls.                                                                  *)

\* Adds of line l that have begun and not appended yet.
Adding(l) == {p \in Proc : /\ pc[p] \in {"open", "flock", "append"}
                           /\ op[p] = "add"
                           /\ arg[p] = l}

Begin(p, what, x) ==
    /\ pc[p] = "idle"
    /\ pc' = [pc EXCEPT ![p] = "open"]
    /\ op' = [op EXCEPT ![p] = what]
    /\ arg' = [arg EXCEPT ![p] = x]
    /\ ret' = [ret EXCEPT ![p] = "none"]
    /\ UNCHANGED <<present, file, owner, buf, wrote, unlocked>>

\* add_to_known_hosts(path, line), add_to_authorized(path)
BeginAdd(p, l) ==
    /\ \A q \in Proc : file[l] + buf[q][l] + Cardinality(Adding(l)) < MaxCopies
    /\ Begin(p, "add", l)

\* remove_from_known_hosts(endpoint), remove_from_authorized(path); None is
\* the content that Python takes for false.
BeginRemove(p, c) == Begin(p, "remove", c)

-----------------------------------------------------------------------------
(* acquire_lock                                                            *)

Goto(p, label) == pc' = [pc EXCEPT ![p] = label]

\* The body of the "try" ends with result r; "finally" runs release_lock.
Finish(p, r) == Goto(p, "release") /\ ret' = [ret EXCEPT ![p] = r]

\* The call is over, with or without an exception.
Return(p) ==
    /\ Goto(p, "idle")
    /\ op' = [op EXCEPT ![p] = "none"]
    /\ arg' = [arg EXCEPT ![p] = None]

Critical(p) == IF op[p] = "add" THEN "append" ELSE "load"

OpenLock(p) ==
    /\ pc[p] = "open"
    /\ Goto(p, "flock")
    /\ UNCHANGED <<present, file, owner, op, arg, buf, wrote, ret, unlocked>>

\* open() of the lock file raises: the handler prints, and the "finally"
\* clause reads a variable that was never bound.
OpenLockFails(p) ==
    /\ pc[p] = "open"
    /\ Return(p)
    /\ ret' = [ret EXCEPT ![p] = "raised"]
    /\ UNCHANGED <<present, file, owner, buf, wrote, unlocked>>

\* Mutant: the lock is taken without waiting for its holder.
Flock_NoWait(p) ==
    /\ pc[p] = "flock"
    /\ owner' = p
    /\ Goto(p, Critical(p))
    /\ UNCHANGED <<present, file, op, arg, buf, wrote, ret, unlocked>>

\* Mutant: only removals lock.
Flock_RemovalsOnly(p) ==
    /\ pc[p] = "flock"
    /\ op[p] = "remove" => owner = None
    /\ owner' = IF op[p] = "remove" THEN p ELSE owner
    /\ Goto(p, Critical(p))
    /\ UNCHANGED <<present, file, op, arg, buf, wrote, ret, unlocked>>

Flock(p) ==
    /\ pc[p] = "flock"
    /\ owner = None
    /\ owner' = p
    /\ Goto(p, Critical(p))
    /\ UNCHANGED <<present, file, op, arg, buf, wrote, ret, unlocked>>

\* flock() raises: acquire_lock prints, closes the handle and returns it, and
\* the caller goes on without the lock.
FlockFails(p) ==
    /\ pc[p] = "flock"
    /\ "flock" \in Faults
    /\ unlocked' = TRUE
    /\ Goto(p, Critical(p))
    /\ UNCHANGED <<present, file, owner, op, arg, buf, wrote, ret>>

-----------------------------------------------------------------------------
(* write(path, line, mode="a"): O_APPEND, one line, one write(2).          *)

Append(p) ==
    /\ pc[p] = "append"
    /\ present' = TRUE
    /\ file' = [file EXCEPT ![arg[p]] = @ + 1]
    /\ Finish(p, "true")
    /\ UNCHANGED <<owner, op, arg, buf, wrote, unlocked>>

\* Mutant: the error of the write is not noticed.
AppendFails_Unnoticed(p) ==
    /\ pc[p] = "append"
    /\ "io" \in Faults
    /\ Finish(p, "true")
    /\ UNCHANGED <<present, file, owner, op, arg, buf, wrote, unlocked>>

AppendFails(p) ==
    /\ pc[p] = "append"
    /\ "io" \in Faults
    /\ UNCHANGED present \/ present' = TRUE
    /\ Finish(p, "false")
    /\ UNCHANGED <<file, owner, op, arg, buf, wrote, unlocked>>

-----------------------------------------------------------------------------
(* remove_content_from_file                                                *)

\* Mutant: the early return skips the "finally" clause.
SkipLoad_KeepsLock(p) ==
    /\ pc[p] = "load"
    /\ ~present \/ arg[p] = None
    /\ Return(p)
    /\ ret' = [ret EXCEPT ![p] = "false"]
    /\ UNCHANGED <<present, file, owner, buf, wrote, unlocked>>

\* It returns False when the path is missing or the content is empty.
SkipLoad(p) ==
    /\ pc[p] = "load"
    /\ ~present \/ arg[p] = None
    /\ Finish(p, "false")
    /\ UNCHANGED <<present, file, owner, op, arg, buf, wrote, unlocked>>

Load(p) ==
    /\ pc[p] = "load"
    /\ present
    /\ arg[p] # None
    /\ buf' = [buf EXCEPT ![p] = file]
    /\ Goto(p, "trunc")
    /\ UNCHANGED <<present, file, owner, op, arg, wrote, ret, unlocked>>

\* Mutant: the file is opened for appending, and keeps its lines.
Truncate_Appends(p) ==
    /\ pc[p] = "trunc"
    /\ buf' = [buf EXCEPT ![p] = Without(@, arg[p])]
    /\ Goto(p, "write")
    /\ UNCHANGED <<present, file, owner, op, arg, wrote, ret, unlocked>>

\* Mutant: all the lines are written back.
Truncate_KeepsAll(p) ==
    /\ pc[p] = "trunc"
    /\ file' = Empty
    /\ Goto(p, "write")
    /\ UNCHANGED <<present, owner, op, arg, buf, wrote, ret, unlocked>>

\* Mutant: no line is written back.
Truncate_KeepsNone(p) ==
    /\ pc[p] = "trunc"
    /\ file' = Empty
    /\ buf' = [buf EXCEPT ![p] = Empty]
    /\ Goto(p, "write")
    /\ UNCHANGED <<present, owner, op, arg, wrote, ret, unlocked>>

\* open(path, "w") empties the file; the lines to keep are written from here.
Truncate(p) ==
    /\ pc[p] = "trunc"
    /\ file' = Empty
    /\ buf' = [buf EXCEPT ![p] = Without(@, arg[p])]
    /\ Goto(p, "write")
    /\ UNCHANGED <<present, owner, op, arg, wrote, ret, unlocked>>

\* What is left of the file when a line is written over part of it: any of
\* its lines may be overwritten.  At most MaxCopies of each are kept.
Overwritten ==
    {f \in [Line -> 0..MaxCopies] : \A l \in Line : f[l] <= file[l]}

\* Mutant: a line is written once more than it is held.
WriteLine_OnceMore(p) ==
    /\ pc[p] = "write"
    /\ \E l \in Line :
         /\ buf' = [buf EXCEPT ![p][l] = @ - 1]
         /\ wrote' = [wrote EXCEPT ![p][l] = @ + 1]
         /\ file' = [file EXCEPT ![l] = @ + 1]
    /\ UNCHANGED <<present, owner, pc, op, arg, ret, unlocked>>

\* One kept line reaches the disk, at the offset the writer has got to.  If
\* all the file is what this process wrote, that is its end; if another
\* process has written since the truncation, the line overlays what it wrote.
WriteLine(p) ==
    /\ pc[p] = "write"
    /\ \E l \in Line :
         /\ buf[p][l] > 0
         /\ buf' = [buf EXCEPT ![p][l] = @ - 1]
         /\ wrote' = [wrote EXCEPT ![p][l] = @ + 1]
         /\ \/ file = wrote[p] /\ file' = [file EXCEPT ![l] = @ + 1]
            \/ file # wrote[p] /\ \E f \in Overwritten :
                                     file' = [f EXCEPT ![l] = @ + 1]
    /\ UNCHANGED <<present, owner, pc, op, arg, ret, unlocked>>

\* The file is closed; remove_content_from_file falls off its end and returns
\* None, which the callers take for a failure: they return False.
CloseFile(p) ==
    /\ pc[p] = "write"
    /\ buf[p] = Empty
    /\ wrote' = [wrote EXCEPT ![p] = Empty]
    /\ Finish(p, "false")
    /\ UNCHANGED <<present, file, owner, op, arg, buf, unlocked>>

\* An OSError while reading, truncating or writing is caught by the callers,
\* which print it and fall through to "return True".  Lines that were still in
\* the buffer are lost.
RewriteFails(p) ==
    /\ pc[p] \in {"load", "trunc", "write"}
    /\ pc[p] = "load" => present /\ arg[p] # None
    /\ "io" \in Faults
    /\ buf' = [buf EXCEPT ![p] = Empty]
    /\ wrote' = [wrote EXCEPT ![p] = Empty]
    /\ Finish(p, "true")
    /\ UNCHANGED <<present, file, owner, op, arg, unlocked>>

-----------------------------------------------------------------------------
(* release_lock                                                            *)

\* Mutant: the handle is dropped without unlocking.
Release_KeepsLock(p) ==
    /\ pc[p] = "release"
    /\ owner = p
    /\ Return(p)
    /\ UNCHANGED <<present, file, owner, buf, wrote, ret, unlocked>>

Release(p) ==
    /\ pc[p] = "release"
    /\ owner = p
    /\ owner' = None
    /\ Return(p)
    /\ UNCHANGED <<present, file, buf, wrote, ret, unlocked>>

\* Mutant: releasing a lock that is not held is ignored.
ReleaseUnlocked_Ignored(p) ==
    /\ pc[p] = "release"
    /\ owner # p
    /\ Return(p)
    /\ UNCHANGED <<present, file, owner, buf, wrote, ret, unlocked>>

\* fileno() of the handle that acquire_lock closed raises in the "finally"
\* clause, in place of the result.
ReleaseUnlocked(p) ==
    /\ pc[p] = "release"
    /\ owner # p
    /\ Return(p)
    /\ ret' = [ret EXCEPT ![p] = "raised"]
    /\ UNCHANGED <<present, file, owner, buf, wrote, unlocked>>

\* The process dies and another takes its place.  The kernel closes its
\* files, which drops the flock; the lines in its buffer never reach the disk.
Crash(p) ==
    /\ "crash" \in Faults
    /\ pc[p] # "idle"
    /\ Return(p)
    /\ owner' = IF owner = p THEN None ELSE owner
    /\ buf' = [buf EXCEPT ![p] = Empty]
    /\ wrote' = [wrote EXCEPT ![p] = Empty]
    /\ ret' = [ret EXCEPT ![p] = "none"]
    /\ UNCHANGED <<present, file, unlocked>>

-----------------------------------------------------------------------------

AddStep(p) == Append(p) \/ AppendFails(p)

RemoveStep(p) ==
    \/ SkipLoad(p)
    \/ Load(p)
    \/ Truncate(p)
    \/ WriteLine(p)
    \/ CloseFile(p)
    \/ RewriteFails(p)

\* The steps of a call once its lock file is open.
LockedStep(p) ==
    \/ Flock(p)
    \/ FlockFails(p)
    \/ AddStep(p)
    \/ RemoveStep(p)
    \/ Release(p)
    \/ ReleaseUnlocked(p)

Step(p) ==
    \/ OpenLock(p)
    \/ "lockfile" \in Faults /\ OpenLockFails(p)
    \/ LockedStep(p)
    \/ Crash(p)

Next ==
    \E p \in Proc :
        \/ \E l \in Line : BeginAdd(p, l)
        \/ \E c \in Content \cup {None} : BeginRemove(p, c)
        \/ Step(p)

Spec == Init /\ [][Next]_vars

\* A process that is not blocked keeps running; a lock that becomes free again
\* and again is granted in the end to each process blocked in flock(2), which
\* the kernel's queue of waiters ensures.
Fairness ==
    \A p \in Proc :
        /\ WF_vars(OpenLock(p))
        /\ SF_vars(Flock(p))
        /\ WF_vars(AddStep(p) \/ RemoveStep(p) \/ Release(p) \/ ReleaseUnlocked(p))

FairSpec == Spec /\ Fairness

-----------------------------------------------------------------------------
(* Properties.  What rests on the lock is promised until a call has gone on  *)
(* without it.                                                               *)

InCritical(p) == pc[p] \in {"append", "load", "trunc", "write"}

\* Until flock() itself has failed, two calls are never both between
\* acquire_lock and release_lock, and the one that is there has the lock: this
\* is what every read-modify-write of the file rests on.
MutualExclusion ==
    ~unlocked =>
        \A p \in Proc : InCritical(p) \/ pc[p] = "release" => owner = p

\* When a removal truncates the file, what it has loaded is still what the
\* file holds: no line added by another process in between is dropped.
LoadedIsCurrent ==
    ~unlocked =>
        \A p \in Proc : pc[p] = "trunc" => present /\ buf[p] = file

\* From the truncation until it closes the file, a removal is the only writer,
\* so that a kept line is appended to what was kept before.
NothingOverwritten ==
    ~unlocked =>
        \A p \in Proc : pc[p] = "write" => present /\ file = wrote[p]

\* An add that is about to return True has its line in the file.
AckedAddIsThere ==
    ~unlocked =>
        \A p \in Proc :
            pc[p] = "release" /\ op[p] = "add" /\ ret[p] = "true"
                => file[arg[p]] > 0

\* A removal that ran to the end (it returns False) leaves no line that
\* mentions the content.
RemovedIsGone ==
    ~unlocked =>
        \A p \in Proc :
            /\ pc[p] = "release" /\ op[p] = "remove" /\ ret[p] = "false"
            /\ arg[p] # None
            => \A l \in Mentions[arg[p]] : file[l] = 0

\* A call that went on without the lock never reports that it succeeded: a
\* process goes back to idle with a result other than an exception only from
\* owning the lock.
UnlockedNeverReturns ==
    [][\A p \in Proc :
          pc[p] # "idle" /\ pc'[p] = "idle" /\ ret'[p] \in {"true", "false"}
              => owner = p /\ owner' = None]_vars

\* To the other processes, an edit is one step: the file together with the
\* lines that a rewrite holds is the bag of KeyRegistry.
RewriteRuns == owner # None /\ pc[owner] = "write"

Entries == [l \in Line |-> file[l] + (IF RewriteRuns THEN buf[owner][l] ELSE 0)]

Registry ==
    INSTANCE KeyRegistry WITH
        Lossy <- "io" \in Faults \/ "crash" \in Faults,
        Lockless <- "flock" \in Faults,
        entries <- Entries,
        broken <- unlocked

RegistrySpec == Registry!Spec

\* Every call ends, whoever else is calling, erring or dying: the lock is
\* released on every path.
CallReturns == \A p \in Proc : pc[p] = "open" ~> pc[p] = "idle"

\* remove_from_known_hosts and remove_from_authorized print "Failed to remove
\* from ..." for the exception they catch; a removal that returns True should
\* then have removed the lines.
RemoveReportsTruth ==
    \A p \in Proc :
        /\ pc[p] = "release" /\ op[p] = "remove" /\ ret[p] = "true"
        => \A l \in Mentions[arg[p]] : file[l] = 0
=============================================================================
