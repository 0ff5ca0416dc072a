--------------------------- MODULE KnownHostsProofs ---------------------------
(***************************************************************************)
(* Proofs about KnownHosts, for any processes, lines and hosts:            *)
(*   - its types, and the invariant of KeyFile inside it;                  *)
(*   - what an authenticator that is prepared knows, and the permissions   *)
(*     of the directory and of the file;                                   *)
(*   - what a process has seen stays, and the number of duplicates;        *)
(*   - prepare and cleanup implement KeyRegistry.                          *)
(***************************************************************************)
EXTENDS KnownHosts, KeyFileProofs, FiniteSetTheorems

\* All that a step does to the file and the lock: nothing, touch the file, or
\* a step of KeyFile.
TouchFile ==
    /\ present' = TRUE
    /\ UNCHANGED <<file, owner, pc, op, arg, buf, wrote, ret, unlocked>>

QuietStep(p) == UNCHANGED vars \/ TouchFile \/ BeginCall(p)

KeyStep(p) ==
    \/ QuietStep(p)
    \/ OpenLock(p)
    \/ OpenLockFails(p)
    \/ LockedStep(p)
    \/ Crash(p)

LEMMA TypeKeyStep ==
    ASSUME TypeOK, NEW p \in Proc, KeyStep(p)
    PROVE  TypeOK'
<1>1. CASE UNCHANGED vars
  BY <1>1 DEF vars, TypeOK
<1>2. CASE TouchFile
  BY <1>2 DEF TouchFile, TypeOK
<1> QED
  BY <1>1, <1>2, TypeBegin, TypeLock, TypeAdd, TypeRemove
  DEF KeyStep, QuietStep, LockedStep

LEMMA IInvKeyStep ==
    ASSUME TypeOK, unlocked \/ IInv, NEW p \in Proc, KeyStep(p)
    PROVE  unlocked' \/ IInv'
<1> USE DEF IInv, Alone, ArgFits, AbsentIsEmpty, NothingWritten, Loaded, Rewriting,
            Acked, Gone, InCritical
<1>1. CASE UNCHANGED vars
  BY <1>1 DEF vars
<1>2. CASE TouchFile
  BY <1>2 DEF TouchFile
<1>3. CASE BeginCall(p) \/ OpenLock(p) \/ OpenLockFails(p) \/ LockedStep(p) \/ Crash(p)
  <2> HIDE DEF IInv
  <2> SUFFICES ASSUME ~unlocked' PROVE IInv'
    OBVIOUS
  <2>1. IInv
    BY <1>3, UnlockedStep
  <2> QED
    BY <1>3, <2>1, IInvBegin, IInvLock, IInvAdd, IInvRemove DEF LockedStep
<1> QED
  BY <1>1, <1>2, <1>3 DEF KeyStep, QuietStep

\* The arguments of a call fit it also where flock() fails.
LEMMA ArgFitsKeyStep ==
    ASSUME TypeOK, ArgFits, NEW p \in Proc, KeyStep(p)
    PROVE  ArgFits'
<1> USE DEF TypeOK, ArgFits
<1>1. CASE UNCHANGED vars \/ TouchFile
  BY <1>1 DEF vars, TouchFile
<1>2. CASE BeginCall(p)
  BY <1>2 DEF BeginCall, Begin
<1>3. CASE OpenLock(p) \/ OpenLockFails(p) \/ Release(p) \/ ReleaseUnlocked(p) \/ Crash(p)
  BY <1>3 DEF OpenLock, OpenLockFails, Release, ReleaseUnlocked, Crash, Goto, Return
<1>4. CASE Flock(p) \/ FlockFails(p)
  BY <1>4 DEF Flock, FlockFails, Goto, Critical
<1>5. CASE AddStep(p)
  BY <1>5 DEF AddStep, Append, AppendFails, Finish, Goto
<1>6. CASE RemoveStep(p)
  BY <1>6 DEF RemoveStep, SkipLoad, Load, Truncate, WriteLine, CloseFile, RewriteFails,
              Finish, Goto
<1> QED
  BY <1>1, <1>2, <1>3, <1>4, <1>5, <1>6 DEF KeyStep, QuietStep, LockedStep

-----------------------------------------------------------------------------
(* Types.                                                                  *)

Fetched == {"dir", "mkdir", "mode", "file", "touch", "chmod", "lookup", "adding"}

\* Once the key of the host is there, the process holds its line.
LineFits == \A p \in Proc : stage[p] \in Fetched => line[p] \in Line

HostActions(p) ==
    \/ BeginPrepare(p)
    \/ PrepareStep(p)
    \/ BeginCleanup(p)
    \/ CleanupTwice(p)
    \/ CleanupReturns(p)
    \/ EditStep(p)
    \/ HostCrash(p)

LEMMA HostQuietStep ==
    ASSUME HostTypeOK, LineFits, NEW p \in Proc, HostActions(p),
           ~EditStep(p), ~HostCrash(p)
    PROVE  QuietStep(p)
<1> USE DEF QuietStep
<1>1. CASE Lookup(p)
  <2>1. line[p] \in Line
    BY <1>1 DEF Lookup, At, LineFits, Fetched
  <2> QED
    BY <1>1, <2>1 DEF Lookup, BeginCall
<1>2. CASE Touch(p)
  BY <1>2 DEF Touch, TouchFile
<1>3. CASE BeginCleanup(p)
  BY <1>3 DEF BeginCleanup, Endpoint, BeginCall
<1>4. CASE \/ BeginPrepare(p) \/ Probe(p) \/ ProbeFails(p) \/ CheckDir(p)
           \/ MakeDir(p) \/ MakeDirRaces(p) \/ FixDirMode(p) \/ CheckFile(p)
           \/ FixFileMode(p) \/ AddReturns(p) \/ PrepareFails(p)
           \/ CleanupTwice(p) \/ CleanupReturns(p)
  BY <1>4 DEF BeginPrepare, Probe, ProbeFails, CheckDir, MakeDir, MakeDirRaces,
              FixDirMode, CheckFile, FixFileMode, AddReturns, PrepareFails,
              CleanupTwice, CleanupReturns, allVars
<1> QED
  BY <1>1, <1>2, <1>3, <1>4 DEF HostActions, PrepareStep

LEMMA HostKeyStep ==
    ASSUME HostTypeOK, LineFits, NEW p \in Proc, HostActions(p)
    PROVE  KeyStep(p)
<1>1. CASE EditStep(p)
  BY <1>1 DEF EditStep, OpenLockFile, KeyStep
<1>2. CASE HostCrash(p)
  BY <1>2 DEF HostCrash, KeyStep, QuietStep
<1> QED
  BY <1>1, <1>2, HostQuietStep DEF KeyStep

\* A step of KeyFile moves only the process that takes it.
LEMMA KeyStepMoves ==
    ASSUME TypeOK, NEW p \in Proc, pc[p] # "idle",
           OpenLock(p) \/ OpenLockFails(p) \/ LockedStep(p) \/ Crash(p)
    PROVE  \A q \in Proc \ {p} :
               pc'[q] = pc[q] /\ op'[q] = op[q] /\ arg'[q] = arg[q]
BY DEF TypeOK, OpenLock, OpenLockFails, LockedStep, Crash, Flock, FlockFails, AddStep,
       Append, AppendFails, RemoveStep, SkipLoad, Load, Truncate, WriteLine, CloseFile,
       RewriteFails, Release, ReleaseUnlocked, Goto, Return, Finish

LEMMA EditStarted ==
    ASSUME NEW p \in Proc, OpenLock(p) \/ OpenLockFails(p) \/ LockedStep(p)
    PROVE  pc[p] # "idle"
BY DEF OpenLock, OpenLockFails, LockedStep, Flock, FlockFails, AddStep,
       Append, AppendFails, RemoveStep, SkipLoad, Load, Truncate, WriteLine, CloseFile,
       RewriteFails, Release, ReleaseUnlocked

LEMMA HostTypeStep ==
    ASSUME HostTypeOK, LineFits, ArgFits, NEW p \in Proc, HostActions(p)
    PROVE  HostTypeOK' /\ LineFits'
<1>1. TypeOK'
  BY HostKeyStep, TypeKeyStep DEF HostTypeOK
<1> USE DEF HostTypeOK, LineFits, Fetched, At, Move, End, Mode, authVars, diskVars,
            history, vars
<1>2. CASE BeginPrepare(p) \/ ProbeFails(p) \/ CheckDir(p) \/ MakeDir(p)
           \/ MakeDirRaces(p) \/ FixDirMode(p) \/ CheckFile(p) \/ FixFileMode(p)
           \/ PrepareFails(p)
  BY <1>1, <1>2 DEF BeginPrepare, ProbeFails, CheckDir, MakeDir, MakeDirRaces,
                    FixDirMode, CheckFile, FixFileMode, PrepareFails
<1>3. CASE Probe(p)
  <2>1. \A e \in Endpoint : HostLines[e] \subseteq Line
    BY HostLinesAssumption DEF Endpoint
  <2> QED
    BY <1>1, <1>3, <2>1 DEF Probe
<1>4. CASE Touch(p)
  BY <1>1, <1>4 DEF Touch
<1>5. CASE Lookup(p)
  <2>1. line[p] \in Line
    BY <1>5 DEF Lookup
  <2>2. missed' \in 0..MaxMissed
    BY <1>5, MaxMissedAssumption DEF Lookup
  <2>3. CASE UNCHANGED vars /\ End(p) /\ prepared' = [prepared EXCEPT ![p] = TRUE]
             /\ seen' = [seen EXCEPT ![p] = @ \cup {line[p]}]
             /\ wiped' = [wiped EXCEPT ![p] = FALSE]
    BY <1>1, <1>5, <2>1, <2>2, <2>3 DEF Lookup
  <2>4. CASE Begin(p, "add", line[p]) /\ Move(p, "adding")
             /\ UNCHANGED <<prepared, seen, wiped, line>>
    BY <1>1, <1>5, <2>1, <2>2, <2>4 DEF Lookup, Begin, TypeOK
  <2> QED
    BY <1>5, <2>3, <2>4 DEF Lookup
<1>6. CASE AddReturns(p) \/ CleanupTwice(p) \/ CleanupReturns(p)
  BY <1>1, <1>6 DEF AddReturns, CleanupTwice, CleanupReturns, allVars
<1>7. CASE BeginCleanup(p)
  BY <1>1, <1>7 DEF BeginCleanup, Begin, TypeOK
<1>8. CASE EditStep(p)
  <2>1. pc[p] # "idle" /\ \A q \in Proc \ {p} : pc'[q] = pc[q]
    BY <1>8, EditStarted, KeyStepMoves DEF EditStep, OpenLockFile
  <2>2. seen' \in [Proc -> SUBSET Line]
    <3>1. Append(p) => arg[p] \in Line
      BY DEF Append, ArgFits
    <3> QED
      BY <1>8, <3>1 DEF EditStep
  <2> QED
    BY <1>1, <1>8, <2>1, <2>2 DEF EditStep
<1>9. CASE HostCrash(p)
  <2>1. pc'[p] = "idle" /\ \A q \in Proc \ {p} : pc'[q] = pc[q]
    BY <1>9 DEF HostCrash, Crash, Return, Goto, TypeOK
  <2> QED
    BY <1>1, <1>9, <2>1 DEF HostCrash
<1> QED
  BY <1>2, <1>3, <1>4, <1>5, <1>6, <1>7, <1>8, <1>9 DEF HostActions, PrepareStep

-----------------------------------------------------------------------------
(* What an authenticator knows.                                            *)

\* What a prepare knows of the directory at each stage, and what prepared says.
DirKept ==
    \A p \in Proc :
        /\ stage[p] = "mode" => dirThere
        /\ stage[p] \in {"file", "touch", "chmod", "lookup", "adding"} \/ prepared[p]
               => dirThere /\ dirMode = "private"

\* What an add knows, and what prepared says of the lines: where the add has
\* answered True, or the lookup has found it, the process has seen its line.
LineKept ==
    \A p \in Proc :
        /\ stage[p] = "adding" =>
              /\ pc[p] \in {"idle", "open", "flock", "append", "release"}
              /\ pc[p] # "idle" => op[p] = "add"
        /\ (stage[p] = "adding" /\ ret[p] = "true") \/ prepared[p]
              => seen[p] # {} \/ wiped[p]

LEMMA LineStep ==
    ASSUME HostTypeOK, LineFits, LineKept, NEW p \in Proc, HostActions(p)
    PROVE  LineKept'
<1> USE DEF HostTypeOK, LineKept, At, Move, End, authVars, diskVars, history, vars
<1>1. CASE BeginPrepare(p) \/ Probe(p) \/ ProbeFails(p) \/ CheckDir(p) \/ MakeDir(p)
           \/ MakeDirRaces(p) \/ FixDirMode(p) \/ CheckFile(p) \/ FixFileMode(p)
           \/ PrepareFails(p)
  BY <1>1 DEF BeginPrepare, Probe, ProbeFails, CheckDir, MakeDir, MakeDirRaces,
              FixDirMode, CheckFile, FixFileMode, PrepareFails
<1>2. CASE Touch(p)
  BY <1>2 DEF Touch
<1>3. CASE Lookup(p)
  <2>1. \A q \in Proc \ {p} :
            UNCHANGED <<pc[q], op[q], ret[q], stage[q], prepared[q], seen[q], wiped[q]>>
    BY <1>3 DEF Lookup, Begin, TypeOK
  <2>2. CASE prepared'[p] /\ stage'[p] = "idle"
    BY <1>3, <2>1, <2>2 DEF Lookup
  <2>3. CASE Begin(p, "add", line[p]) /\ UNCHANGED <<prepared, seen, wiped>>
    <3>1. pc'[p] = "open" /\ op'[p] = "add" /\ ret'[p] = "none"
      BY <2>3 DEF Begin, TypeOK
    <3> QED
      BY <2>1, <2>3, <3>1
  <2> QED
    BY <1>3, <2>2, <2>3 DEF Lookup
<1>4. CASE AddReturns(p) \/ CleanupTwice(p) \/ CleanupReturns(p)
  BY <1>4 DEF AddReturns, CleanupTwice, CleanupReturns, allVars
<1>5. CASE BeginCleanup(p)
  BY <1>5 DEF BeginCleanup, Begin, TypeOK
<1>6. CASE EditStep(p)
  <2>1. UNCHANGED <<stage, prepared>>
    BY <1>6 DEF EditStep
  <2>2. \A q \in Proc : seen[q] # {} \/ wiped[q] => seen'[q] # {} \/ wiped'[q]
    BY <1>6 DEF EditStep
  <2>3. OpenLock(p) \/ OpenLockFails(p) \/ LockedStep(p)
    BY <1>6 DEF EditStep, OpenLockFile
  <2>4. \A q \in Proc \ {p} : pc'[q] = pc[q] /\ op'[q] = op[q] /\ ret'[q] = ret[q]
    BY <2>3 DEF TypeOK, OpenLock, OpenLockFails, LockedStep, Flock, FlockFails, AddStep,
       Append, AppendFails, RemoveStep, SkipLoad, Load, Truncate, WriteLine, CloseFile,
       RewriteFails, Release, ReleaseUnlocked, Goto, Return, Finish
  <2>5. ASSUME stage[p] = "adding"
        PROVE  /\ pc'[p] \in {"idle", "open", "flock", "append", "release"}
               /\ pc'[p] # "idle" => op'[p] = "add"
               /\ ret'[p] = "true" => ret[p] = "true" \/ Append(p)
    <3>1. ~RemoveStep(p)
      BY <2>5 DEF RemoveStep, SkipLoad, Load, Truncate, WriteLine, CloseFile, RewriteFails
    <3>2. CASE OpenLock(p) \/ OpenLockFails(p)
      BY <2>5, <3>2 DEF OpenLock, OpenLockFails, Goto, Return, TypeOK
    <3>3. CASE Flock(p) \/ FlockFails(p)
      BY <2>5, <3>3 DEF Flock, FlockFails, Critical, Goto, TypeOK
    <3>4. CASE AddStep(p)
      BY <2>5, <3>4 DEF AddStep, Append, AppendFails, Finish, Goto, TypeOK
    <3>5. CASE Release(p) \/ ReleaseUnlocked(p)
      BY <2>5, <3>5 DEF Release, ReleaseUnlocked, Goto, Return, TypeOK
    <3> QED
      BY <2>3, <3>1, <3>2, <3>3, <3>4, <3>5 DEF LockedStep
  <2>6. Append(p) => arg[p] \in seen'[p]
    BY <1>6 DEF EditStep
  <2> QED
    BY <2>1, <2>2, <2>4, <2>5, <2>6
<1>7. CASE HostCrash(p)
  <2>1. \A q \in Proc \ {p} : pc'[q] = pc[q] /\ op'[q] = op[q] /\ ret'[q] = ret[q]
    BY <1>7 DEF HostCrash, Crash, Return, Goto, TypeOK
  <2> QED
    BY <1>7, <2>1 DEF HostCrash
<1> QED
  BY <1>1, <1>2, <1>3, <1>4, <1>5, <1>6, <1>7 DEF HostActions, PrepareStep

LEMMA DirStep ==
    ASSUME HostTypeOK, DirKept, NEW p \in Proc, HostActions(p)
    PROVE  DirKept'
<1> USE DEF HostTypeOK, DirKept, At, Move, End, authVars, diskVars, history
<1>1. CASE BeginPrepare(p) \/ Probe(p) \/ ProbeFails(p) \/ CheckDir(p)
           \/ MakeDirRaces(p) \/ PrepareFails(p)
  BY <1>1 DEF BeginPrepare, Probe, ProbeFails, CheckDir, MakeDirRaces, PrepareFails
<1>2. CASE MakeDir(p) \/ FixDirMode(p)
  BY <1>2 DEF MakeDir, FixDirMode
<1>3. CASE CheckFile(p) \/ Touch(p) \/ FixFileMode(p)
  BY <1>3 DEF CheckFile, Touch, FixFileMode
<1>4. CASE Lookup(p)
  BY <1>4 DEF Lookup
<1>5. CASE AddReturns(p) \/ CleanupTwice(p) \/ CleanupReturns(p)
  BY <1>5 DEF AddReturns, CleanupTwice, CleanupReturns, allVars
<1>6. CASE BeginCleanup(p) \/ EditStep(p) \/ HostCrash(p)
  BY <1>6 DEF BeginCleanup, EditStep, HostCrash
<1> QED
  BY <1>1, <1>2, <1>3, <1>4, <1>5, <1>6 DEF HostActions, PrepareStep

-----------------------------------------------------------------------------
(* The invariant.                                                          *)

HostInv ==
    /\ HostTypeOK
    /\ LineFits
    /\ ArgFits
    /\ DirKept
    /\ LineKept
    /\ unlocked \/ IInv

LEMMA HostInvInit == HostInit => HostInv
<1> SUFFICES ASSUME HostInit PROVE HostInv
  OBVIOUS
<1>1. TypeOK /\ IInv
  BY TypeInit, IInvInit DEF HostInit
<1>2. HostTypeOK
  BY <1>1, MaxMissedAssumption DEF HostInit, HostTypeOK, Init
<1> QED
  BY <1>1, <1>2 DEF HostInit, HostInv, LineFits, Fetched, DirKept, LineKept, IInv

LEMMA HostStep ==
    ASSUME HostNext
    PROVE  \E p \in Proc : HostActions(p)
BY DEF HostNext, HostActions

LEMMA HostInvNext == HostInv /\ [HostNext]_allVars => HostInv'
<1> SUFFICES ASSUME HostInv, [HostNext]_allVars PROVE HostInv'
  OBVIOUS
<1>1. CASE HostNext
  <2>1. PICK p \in Proc : HostActions(p)
    BY <1>1, HostStep
  <2>2. KeyStep(p)
    BY <2>1, HostKeyStep DEF HostInv
  <2>3. HostTypeOK' /\ LineFits' /\ DirKept' /\ LineKept'
    BY <2>1, HostTypeStep, DirStep, LineStep DEF HostInv
  <2>4. ArgFits' /\ (unlocked' \/ IInv')
    BY <2>2, ArgFitsKeyStep, IInvKeyStep DEF HostInv, HostTypeOK
  <2> QED
    BY <2>3, <2>4 DEF HostInv
<1>2. CASE UNCHANGED allVars
  <2>1. UNCHANGED vars
    BY <1>2 DEF allVars
  <2>2. TypeOK' /\ ArgFits' /\ (unlocked' \/ IInv')
    <3>1. PICK p \in Proc : TRUE
      BY ProcAssumption
    <3> QED
      BY <2>1, <3>1, TypeKeyStep, ArgFitsKeyStep, IInvKeyStep
      DEF KeyStep, QuietStep, HostInv, HostTypeOK
  <2>3. HostTypeOK' /\ LineFits' /\ DirKept' /\ LineKept'
    BY <1>2, <2>2 DEF allVars, vars, authVars, diskVars, history, HostInv, HostTypeOK,
                      LineFits, DirKept, LineKept
  <2> QED
    BY <2>2, <2>3 DEF HostInv
<1> QED
  BY <1>1, <1>2

\* HostInv holds in every reachable state, whatever fails: the types, what each
\* stage knows, and until a flock() has failed the invariant of KeyFile.
THEOREM HostInvariance == HostSpec => []HostInv
BY HostInvInit, HostInvNext, PTL DEF HostSpec

\* KnownHosts keeps its types, and only a prepare or a cleanup edits the file.
THEOREM SpecHostTypeOK == HostSpec => []HostTypeOK
<1>1. HostInv => HostTypeOK
  BY DEF HostInv
<1> QED
  BY <1>1, HostInvariance, PTL

\* While an authenticator says that it is prepared, it has found or added a
\* line that it still counts on, unless a cleanup has mentioned the last of
\* them, and the directory is there and private; whatever fails.
THEOREM SpecPreparedIsKnown == HostSpec => []PreparedIsKnown
<1>1. HostInv => PreparedIsKnown
  BY DEF HostInv, DirKept, LineKept, PreparedIsKnown
<1> QED
  BY <1>1, HostInvariance, PTL

-----------------------------------------------------------------------------
(* The permissions of a file that a prepare created.                       *)

LEMMA OpenFileStep ==
    ASSUME HostTypeOK, NoOpenFileLeft, NEW p \in Proc, HostActions(p)
    PROVE  NoOpenFileLeft'
<1> SUFFICES ASSUME Faults \cap {"io", "crash"} = {}, fileMode' = "open"
             PROVE  \E q \in Proc : stage'[q] = "chmod"
  BY DEF NoOpenFileLeft, At
<1> USE DEF HostTypeOK, NoOpenFileLeft, At, Move, End, authVars, diskVars, history
<1>1. CASE BeginPrepare(p) \/ Probe(p) \/ ProbeFails(p) \/ CheckDir(p)
           \/ MakeDir(p) \/ MakeDirRaces(p) \/ FixDirMode(p) \/ CheckFile(p)
  BY <1>1 DEF BeginPrepare, Probe, ProbeFails, CheckDir, MakeDir, MakeDirRaces,
              FixDirMode, CheckFile
<1>2. CASE Touch(p)
  BY <1>2 DEF Touch
<1>3. CASE Lookup(p)
  BY <1>3 DEF Lookup
<1>4. CASE AddReturns(p) \/ CleanupTwice(p) \/ CleanupReturns(p) \/ BeginCleanup(p)
  BY <1>4 DEF AddReturns, CleanupTwice, CleanupReturns, BeginCleanup, allVars
<1>5. CASE EditStep(p)
  BY <1>5 DEF EditStep
<1>6. CASE FixFileMode(p) \/ PrepareFails(p) \/ HostCrash(p)
  BY <1>6 DEF FixFileMode, PrepareFails, HostCrash
<1> QED
  BY <1>1, <1>2, <1>3, <1>4, <1>5, <1>6 DEF HostActions, PrepareStep

\* Unless something fails, a file that has the umask's permissions is one whose
\* creator is about to fix them.
THEOREM SpecNoOpenFileLeft == HostSpec => []NoOpenFileLeft
<1>1. HostInit => NoOpenFileLeft
  BY DEF HostInit, NoOpenFileLeft
<1>2. HostTypeOK /\ NoOpenFileLeft /\ [HostNext]_allVars => NoOpenFileLeft'
  <2>1. CASE UNCHANGED allVars
    BY <2>1 DEF allVars, diskVars, NoOpenFileLeft, At
  <2> QED
    BY <2>1, HostStep, OpenFileStep
<1> QED
  BY <1>1, <1>2, SpecHostTypeOK, PTL DEF HostSpec

-----------------------------------------------------------------------------
(* The lines.                                                              *)

\* A prepare or a cleanup that does not edit leaves the lines alone.
LEMMA QuietEntries ==
    ASSUME TypeOK, IInv, ~unlocked', NEW p \in Proc, QuietStep(p)
    PROVE  UNCHANGED Entries
<1>1. CASE UNCHANGED vars \/ TouchFile
  BY <1>1 DEF vars, TouchFile, Entries, RewriteRuns
<1>2. CASE BeginCall(p)
  BY <1>2, RefineQuiet
<1> QED
  BY <1>1, <1>2 DEF QuietStep

LEMMA EditEntries ==
    ASSUME TypeOK, IInv, ~unlocked', NEW p \in Proc,
           OpenLock(p) \/ OpenLockFails(p) \/ LockedStep(p),
           ~Append(p), ~Truncate(p), ~RewriteFails(p)
    PROVE  UNCHANGED Entries
BY RefineQuiet, RefineWriteLine DEF LockedStep, AddStep, RemoveStep

LEMMA EntriesNat ==
    ASSUME TypeOK
    PROVE  /\ \A l \in Line : Entries[l] \in Nat /\ Entries[l] >= file[l]
           /\ Entries = [l \in Line |-> Entries[l]]
BY NoneAssumption DEF TypeOK, Bag, Entries, RewriteRuns

LEMMA SeenStep ==
    ASSUME HostTypeOK, LineFits, IInv, ~unlocked', SeenStays, ~unlocked,
           NEW p \in Proc, HostActions(p)
    PROVE  SeenStays'
<1> SUFFICES ASSUME Faults \cap {"io", "crash"} = {},
                    NEW q \in Proc, NEW l \in seen'[q]
             PROVE  Entries'[l] > 0
  BY DEF SeenStays
<1>1. TypeOK /\ \A k \in seen[q] : k \in Line /\ Entries[k] > 0
  BY DEF SeenStays, HostTypeOK
<1>2. CASE EditStep(p)
  <2>1. ~RewriteFails(p)
    BY DEF RewriteFails
  <2>2. CASE Append(p)
    <3>1. Registry!Add(arg[p]) /\ arg[p] \in Line /\ ~Truncate(p)
      BY <1>1, <2>2, RefineAppend DEF Append, Truncate
    <3>2. l \in seen[q] \/ l = arg[p]
      BY <1>2, <3>1 DEF EditStep
    <3> QED
      BY <1>1, <3>1, <3>2, EntriesNat DEF Registry!Add
  <2>3. CASE Truncate(p)
    <3>1. Registry!Remove(arg[p]) /\ arg[p] \in Content /\ ~Append(p)
      BY <1>1, <2>3, RefineTruncate DEF Append, Truncate
    <3>2. l \in seen[q] /\ l \notin Mentions[arg[p]]
      BY <1>2, <2>3, <3>1 DEF EditStep
    <3> QED
      BY <1>1, <3>1, <3>2 DEF Registry!Remove, Registry!Without
  <2>4. CASE ~Append(p) /\ ~Truncate(p)
    <3>1. UNCHANGED Entries
      BY <1>1, <1>2, <2>1, <2>4, EditEntries DEF EditStep, OpenLockFile
    <3>2. l \in seen[q]
      BY <1>2, <2>4 DEF EditStep
    <3> QED
      BY <1>1, <3>1, <3>2
  <2> QED
    BY <2>2, <2>3, <2>4
<1>3. CASE ~EditStep(p)
  <2>1. UNCHANGED Entries
    <3>1. ~HostCrash(p)
      BY DEF HostCrash
    <3> QED
      BY <1>1, <1>3, <3>1, HostQuietStep, QuietEntries
  <2>2. CASE Lookup(p)
    <3>1. l \in seen[q] \/ (l = line[p] /\ l \in Line /\ file[l] > 0)
      BY <2>2 DEF Lookup, HostTypeOK, LineFits, Fetched, At
    <3> QED
      BY <1>1, <2>1, <3>1, EntriesNat DEF TypeOK, Bag
  <2>3. CASE ~Lookup(p)
    <3>1. UNCHANGED seen
      BY <1>3, <2>3
      DEF HostActions, PrepareStep, BeginPrepare, Probe, ProbeFails, CheckDir, MakeDir,
          MakeDirRaces, FixDirMode, CheckFile, Touch, FixFileMode, AddReturns,
          PrepareFails, BeginCleanup, CleanupTwice, CleanupReturns, HostCrash, history,
          allVars
    <3> QED
      BY <1>1, <2>1, <3>1
  <2> QED
    BY <2>2, <2>3
<1> QED
  BY <1>2, <1>3

\* What a process has found in the file or added to it stays there until a
\* cleanup of a host that the line mentions, unless something fails.
THEOREM SpecSeenStays == HostSpec => []SeenStays
<1>1. HostInit => SeenStays
  BY DEF HostInit, SeenStays
<1>2. HostInv /\ HostInv' /\ SeenStays /\ [HostNext]_allVars => SeenStays'
  <2> SUFFICES ASSUME HostInv, SeenStays, [HostNext]_allVars, ~unlocked'
               PROVE  SeenStays'
    BY DEF SeenStays
  <2>1. CASE UNCHANGED allVars
    BY <2>1 DEF allVars, vars, history, SeenStays, Entries, RewriteRuns
  <2>2. CASE HostNext
    <3>1. PICK p \in Proc : HostActions(p)
      BY <2>2, HostStep
    <3>2. KeyStep(p)
      BY <3>1, HostKeyStep DEF HostInv
    <3>3. ~unlocked
      BY <3>2, UnlockedStep DEF KeyStep, QuietStep, TouchFile, vars
    <3> QED
      BY <3>1, <3>3, SeenStep DEF HostInv
  <2> QED
    BY <2>1, <2>2
<1> QED
  BY <1>1, <1>2, HostInvariance, PTL DEF HostSpec

-----------------------------------------------------------------------------
(* The refinement of KeyRegistry.                                          *)

LEMMA HostRefineStep ==
    ASSUME TypeOK, TypeOK', Blamed', unlocked \/ IInv, NEW p \in Proc, KeyStep(p)
    PROVE  [Registry!Next]_<<Entries, unlocked>>
<1> SUFFICES ASSUME ~unlocked' PROVE [Registry!Next]_<<Entries, unlocked>>
  BY RefineBroken
<1>1. IInv /\ UNCHANGED unlocked
  BY UnlockedStep DEF KeyStep, QuietStep, TouchFile, vars, TypeOK
<1>2. CASE QuietStep(p)
  BY <1>1, <1>2, QuietEntries
<1>3. CASE Append(p)
  BY <1>1, <1>3, RefineAppend DEF Registry!Next
<1>4. CASE Truncate(p)
  BY <1>1, <1>4, RefineTruncate DEF Registry!Next
<1>5. CASE RewriteFails(p) \/ Crash(p)
  BY <1>1, <1>5, RefineLose DEF Registry!Next
<1>6. CASE ~(QuietStep(p) \/ Append(p) \/ Truncate(p) \/ RewriteFails(p) \/ Crash(p))
  BY <1>1, <1>6, EditEntries DEF KeyStep
<1> QED
  BY <1>2, <1>3, <1>4, <1>5, <1>6

\* prepare and cleanup, whose lookups and touches take no lock, do to known_hosts what
\* KeyRegistry does in single steps: whatever processes interleave, each adds a
\* line, removes those that mention a host, or, where that may fail, loses some.
THEOREM HostRefinement == HostSpec => RegistrySpec
<1>1. HostInit => Registry!Init /\ Blamed
  BY RefineInit DEF HostInit, Init, Blamed
<1>2. HostInv /\ Blamed /\ [HostNext]_allVars
        => Blamed' /\ (HostInv' => [Registry!Next]_<<Entries, unlocked>>)
  <2> SUFFICES ASSUME HostInv, Blamed, [HostNext]_allVars
               PROVE  Blamed' /\ (HostInv' => [Registry!Next]_<<Entries, unlocked>>)
    OBVIOUS
  <2>1. CASE UNCHANGED allVars
    BY <2>1 DEF allVars, vars, Blamed, Entries, RewriteRuns
  <2>2. CASE HostNext
    <3>1. PICK p \in Proc : HostActions(p)
      BY <2>2, HostStep
    <3>2. KeyStep(p)
      BY <3>1, HostKeyStep DEF HostInv
    <3>3. Blamed'
      BY <3>2, UnlockedStep DEF KeyStep, QuietStep, TouchFile, vars, Blamed
    <3> QED
      BY <3>2, <3>3, HostRefineStep DEF HostInv, HostTypeOK
  <2> QED
    BY <2>1, <2>2
<1> QED
  BY <1>1, <1>2, HostInvariance, PTL DEF HostSpec, RegistrySpec, Registry!Spec

\* What KeyFile promises to calls of the library holds inside prepare and cleanup too,
\* although a prepare reads and touches the file without the lock: edits exclude
\* each other, no rewrite drops or overlays a line, an add that returns True is
\* there, and a removal that ran to the end has left nothing.
THEOREM HostEditsSafe ==
    HostSpec => [](/\ MutualExclusion /\ LoadedIsCurrent /\ NothingOverwritten
                   /\ AckedAddIsThere /\ RemovedIsGone)
<1>1. HostInv => /\ MutualExclusion /\ LoadedIsCurrent /\ NothingOverwritten
                 /\ AckedAddIsThere /\ RemovedIsGone
  <2>1. unlocked \/ IInv => MutualExclusion /\ LoadedIsCurrent /\ NothingOverwritten
    BY DEF IInv, Alone, MutualExclusion, Loaded, LoadedIsCurrent, Rewriting,
           NothingOverwritten
  <2>2. unlocked \/ IInv => AckedAddIsThere /\ RemovedIsGone
    BY DEF IInv, Acked, AckedAddIsThere, Gone, RemovedIsGone
  <2> QED
    BY <2>1, <2>2 DEF HostInv
<1> QED
  BY <1>1, HostInvariance, PTL

-----------------------------------------------------------------------------
(* Duplicates.                                                             *)

\* Every process that is about to add a line may still do so.
Bounded ==
    \A l \in Line : Entries[l] + Cardinality(Adding(l)) <= Cardinality(Proc) + missed

DuplicatesBounded == missed < MaxMissed /\ ~unlocked => Bounded

LEMMA AddingFinite ==
    /\ Cardinality(Proc) \in Nat \ {0}
    /\ \A l : /\ IsFiniteSet(Adding(l))
              /\ Cardinality(Adding(l)) \in Nat
              /\ Cardinality(Adding(l)) <= Cardinality(Proc)
<1>1. \A l : Adding(l) \subseteq Proc
  BY DEF Adding
<1>2. Cardinality(Proc) # 0
  BY ProcAssumption, FS_EmptySet
<1> QED
  BY <1>1, <1>2, ProcAssumption, FS_CardinalityType, FS_Subset

LEMMA AddingFiniteNext ==
    \A l : /\ IsFiniteSet(Adding(l)')
           /\ Cardinality(Adding(l)') \in Nat
           /\ Cardinality(Adding(l)') <= Cardinality(Proc)
<1>1. \A l : Adding(l)' \subseteq Proc
  BY DEF Adding
<1> QED
  BY <1>1, ProcAssumption, FS_CardinalityType, FS_Subset

\* No step that an edit takes makes more adders.
LEMMA AddingShrinks ==
    ASSUME TypeOK, NEW p \in Proc, pc[p] # "idle",
           OpenLock(p) \/ OpenLockFails(p) \/ LockedStep(p) \/ Crash(p)
    PROVE  \A l \in Line : Adding(l)' \subseteq Adding(l)
<1>1. \A q \in Proc \ {p} :
          pc'[q] = pc[q] /\ op'[q] = op[q] /\ arg'[q] = arg[q]
  BY KeyStepMoves
<1>2. ASSUME pc'[p] \in {"open", "flock", "append"}
      PROVE  pc[p] \in {"open", "flock"} /\ op'[p] = op[p] /\ arg'[p] = arg[p]
  BY <1>2 DEF TypeOK, OpenLock, OpenLockFails, LockedStep, Crash, Flock, FlockFails,
       AddStep, Append, AppendFails, RemoveStep, SkipLoad, Load, Truncate, WriteLine,
       CloseFile, RewriteFails, Release, ReleaseUnlocked, Goto, Return, Finish
<1> QED
  BY <1>1, <1>2 DEF Adding

\* Fewer lines and fewer adders keep the bound.
LEMMA BoundedLess ==
    ASSUME TypeOK, TypeOK', Bounded, missed \in Nat, UNCHANGED missed,
           \A l \in Line : Entries'[l] <= Entries[l] /\ Adding(l)' \subseteq Adding(l)
    PROVE  Bounded'
<1> SUFFICES ASSUME NEW l \in Line
             PROVE  Entries'[l] + Cardinality(Adding(l)') <= Cardinality(Proc) + missed'
  BY DEF Bounded
<1>1. Cardinality(Adding(l)') <= Cardinality(Adding(l))
  BY AddingFinite, FS_Subset
<1>2. Entries[l] \in Nat /\ Entries'[l] \in Nat
  BY NoneAssumption DEF TypeOK, Bag, Entries, RewriteRuns
<1>3. Entries[l] + Cardinality(Adding(l)) <= Cardinality(Proc) + missed
  BY DEF Bounded
<1> QED
  BY <1>1, <1>2, <1>3, AddingFinite, AddingFiniteNext

LEMMA BoundedAppend ==
    ASSUME TypeOK, TypeOK', IInv, Bounded, missed \in Nat, UNCHANGED missed,
           NEW p \in Proc, Append(p)
    PROVE  Bounded'
<1> SUFFICES ASSUME NEW l \in Line
             PROVE  Entries'[l] + Cardinality(Adding(l)') <= Cardinality(Proc) + missed'
  BY DEF Bounded
<1>1. arg[p] \in Line /\ Entries' = [Entries EXCEPT ![arg[p]] = @ + 1]
  BY RefineAppend DEF Registry!Add
<1>2. Entries[l] \in Nat /\ Entries = [k \in Line |-> Entries[k]]
  BY EntriesNat
<1>3. Adding(l)' \subseteq Adding(l) \ {p}
  <2>1. pc[p] # "idle" /\ pc'[p] = "release"
    BY DEF Append, Finish, Goto, TypeOK
  <2>2. p \notin Adding(l)'
    BY <2>1 DEF Adding
  <2> QED
    BY <2>1, <2>2, AddingShrinks DEF LockedStep, AddStep
<1>4. Entries[l] + Cardinality(Adding(l)) <= Cardinality(Proc) + missed
  BY DEF Bounded
<1>5. CASE l = arg[p]
  <2>1. p \in Adding(l)
    BY <1>5 DEF Adding, Append, IInv, ArgFits
  <2>2. /\ IsFiniteSet(Adding(l) \ {p})
        /\ Cardinality(Adding(l) \ {p}) = Cardinality(Adding(l)) - 1
    BY <2>1, AddingFinite, FS_RemoveElement
  <2>3. Cardinality(Adding(l)') <= Cardinality(Adding(l)) - 1
    BY <1>3, <2>2, FS_Subset
  <2>4. Entries'[l] = Entries[l] + 1
    BY <1>1, <1>2, <1>5
  <2> QED
    BY <1>2, <1>4, <2>3, <2>4, AddingFinite, AddingFiniteNext
<1>6. CASE l # arg[p]
  <2>1. Cardinality(Adding(l)') <= Cardinality(Adding(l))
    BY <1>3, AddingFinite, FS_Subset
  <2>2. Entries'[l] = Entries[l]
    BY <1>1, <1>2, <1>6
  <2> QED
    BY <1>2, <1>4, <2>1, <2>2, AddingFinite, AddingFiniteNext
<1> QED
  BY <1>5, <1>6

LEMMA BoundedEdit ==
    ASSUME TypeOK, TypeOK', IInv, ~unlocked', Bounded, missed \in Nat, UNCHANGED missed,
           NEW p \in Proc, pc[p] # "idle",
           OpenLock(p) \/ OpenLockFails(p) \/ LockedStep(p) \/ Crash(p)
    PROVE  Bounded'
<1>1. CASE Append(p)
  BY <1>1, BoundedAppend
<1>2. CASE ~Append(p)
  <2>1. \A l \in Line : Entries'[l] <= Entries[l]
    <3>1. \A l \in Line : Entries[l] \in Nat
      BY EntriesNat
    <3>2. CASE Truncate(p)
      BY <3>1, <3>2, RefineTruncate DEF Registry!Remove, Registry!Without
    <3>3. CASE RewriteFails(p) \/ Crash(p)
      BY <3>1, <3>3, RefineLose DEF Registry!Lose
    <3>4. CASE ~(Truncate(p) \/ RewriteFails(p) \/ Crash(p))
      <4>1. UNCHANGED Entries
        BY <1>2, <3>4, EditEntries
      <4> QED
        BY <3>1, <4>1
    <3> QED
      BY <3>2, <3>3, <3>4
  <2>2. \A l \in Line : Adding(l)' \subseteq Adding(l)
    BY AddingShrinks
  <2> QED
    BY <2>1, <2>2, BoundedLess
<1> QED
  BY <1>1, <1>2

\* A prepare that does not find its line may add it: either it is not in the file,
\* or a rewrite runs, and the lookup is counted.
LEMMA BoundedLookup ==
    ASSUME TypeOK, TypeOK', IInv, ~unlocked', Bounded, missed \in Nat,
           NEW p \in Proc, NEW k \in Line, file[k] = 0, Begin(p, "add", k),
           missed' = IF RewriteRuns THEN missed + 1 ELSE missed
    PROVE  Bounded'
<1> SUFFICES ASSUME NEW l \in Line
             PROVE  Entries'[l] + Cardinality(Adding(l)') <= Cardinality(Proc) + missed'
  BY DEF Bounded
<1>1. Entries' = Entries /\ (~RewriteRuns => Entries = file)
  BY RefineQuiet, EntriesOutside DEF BeginCall
<1>2. Entries[l] \in Nat
  BY EntriesNat
<1>3. Entries[l] + Cardinality(Adding(l)) <= Cardinality(Proc) + missed
  BY DEF Bounded
<1>4. CASE l = k /\ ~RewriteRuns
  <2>1. Entries'[l] = 0
    BY <1>1, <1>4
  <2> QED
    BY <1>4, <2>1, AddingFinite, AddingFiniteNext
<1>5. CASE l = k /\ RewriteRuns
  <2>1. Adding(l)' \subseteq Adding(l) \cup {p}
    BY DEF Begin, Adding, TypeOK
  <2>2. /\ IsFiniteSet(Adding(l) \cup {p})
        /\ Cardinality(Adding(l) \cup {p}) <= Cardinality(Adding(l)) + 1
    <3>1. IsFiniteSet(Adding(l)) /\ Cardinality(Adding(l)) \in Nat
      BY AddingFinite
    <3> QED
      BY <3>1, FS_AddElement
  <2>3. Cardinality(Adding(l)') <= Cardinality(Adding(l) \cup {p})
    BY <2>1, <2>2, FS_Subset
  <2>4. Cardinality(Adding(l) \cup {p}) \in Nat
    BY <2>2, FS_CardinalityType
  <2>5. Cardinality(Adding(l)') <= Cardinality(Adding(l)) + 1
    BY <2>2, <2>3, <2>4, AddingFinite, AddingFiniteNext
  <2> QED
    BY <1>1, <1>2, <1>3, <1>5, <2>5, AddingFinite, AddingFiniteNext
<1>6. CASE l # k
  <2>1. Adding(l)' \subseteq Adding(l)
    BY <1>6 DEF Begin, Adding, TypeOK
  <2>2. Cardinality(Adding(l)') <= Cardinality(Adding(l))
    BY <2>1, AddingFinite, FS_Subset
  <2>3. missed' >= missed /\ missed' \in Nat
    OBVIOUS
  <2> QED
    BY <1>1, <1>2, <1>3, <2>2, <2>3, AddingFinite, AddingFiniteNext
<1> QED
  BY <1>4, <1>5, <1>6

LEMMA DuplicatesStep ==
    ASSUME HostTypeOK, HostTypeOK', LineFits, unlocked \/ IInv, DuplicatesBounded,
           NEW p \in Proc, HostActions(p)
    PROVE  DuplicatesBounded'
<1> SUFFICES ASSUME missed' < MaxMissed, ~unlocked' PROVE Bounded'
  BY DEF DuplicatesBounded
<1>1. TypeOK /\ TypeOK' /\ ~unlocked /\ IInv
  <2>1. KeyStep(p)
    BY HostKeyStep
  <2>2. ~unlocked
    BY <2>1, UnlockedStep DEF KeyStep, QuietStep, TouchFile, vars
  <2> QED
    BY <2>2 DEF HostTypeOK
<1>2. /\ missed < MaxMissed /\ missed \in Nat
      /\ Lookup(p) \/ UNCHANGED missed
  <2>1. Lookup(p) \/ UNCHANGED missed
    BY DEF HostActions, PrepareStep, BeginPrepare, Probe, ProbeFails, CheckDir, MakeDir,
         MakeDirRaces, FixDirMode, CheckFile, Touch, FixFileMode, AddReturns,
         PrepareFails, BeginCleanup, CleanupTwice, CleanupReturns, EditStep, HostCrash,
         history, allVars
  <2>2. missed' = missed \/ missed' = missed + 1
    BY <2>1 DEF Lookup
  <2> QED
    BY <2>1, <2>2, MaxMissedAssumption DEF HostTypeOK
<1>3. Bounded
  BY <1>1, <1>2 DEF DuplicatesBounded
<1>4. ASSUME UNCHANGED vars \/ TouchFile, UNCHANGED missed
      PROVE  Bounded'
  BY <1>3, <1>4 DEF vars, TouchFile, Bounded, Adding, Entries, RewriteRuns
<1>5. CASE EditStep(p)
  <2>1. OpenLock(p) \/ OpenLockFails(p) \/ LockedStep(p)
    BY <1>5 DEF EditStep, OpenLockFile
  <2> QED
    BY <1>1, <1>2, <1>3, <1>5, <2>1, EditStarted, BoundedEdit DEF EditStep
<1>6. CASE HostCrash(p)
  <2>1. UNCHANGED missed
    BY <1>6 DEF HostCrash
  <2>2. CASE Crash(p)
    BY <1>1, <1>2, <1>3, <2>1, <2>2, BoundedEdit DEF Crash
  <2> QED
    BY <1>4, <1>6, <2>1, <2>2 DEF HostCrash
<1>7. CASE Lookup(p)
  <2>1. line[p] \in Line
    BY <1>7 DEF Lookup, At, LineFits, Fetched
  <2>2. CASE UNCHANGED vars /\ UNCHANGED missed
    BY <1>4, <2>2
  <2>3. CASE file[line[p]] = 0 /\ Begin(p, "add", line[p])
    <3>1. missed' = IF RewriteRuns THEN missed + 1 ELSE missed
      BY <1>2, <1>7, <2>3 DEF Lookup
    <3> QED
      BY <1>1, <1>2, <1>3, <2>1, <2>3, <3>1, BoundedLookup
  <2> QED
    BY <1>7, <2>2, <2>3 DEF Lookup
<1>8. CASE BeginCleanup(p)
  <2>1. PICK e \in Content : Begin(p, "remove", e)
    BY <1>8 DEF BeginCleanup, Endpoint
  <2>2. UNCHANGED Entries
    BY <1>1, <2>1, RefineQuiet DEF BeginCall
  <2>3. \A l \in Line : Entries[l] \in Nat
    BY <1>1, EntriesNat
  <2>4. \A l \in Line : Adding(l)' \subseteq Adding(l)
    BY <1>1, <2>1 DEF Begin, Adding, TypeOK
  <2> QED
    BY <1>1, <1>2, <1>3, <1>8, <2>2, <2>3, <2>4, BoundedLess DEF BeginCleanup, history
<1>9. CASE ~(EditStep(p) \/ HostCrash(p) \/ Lookup(p) \/ BeginCleanup(p))
  <2>1. UNCHANGED vars \/ TouchFile
    BY <1>9 DEF HostActions, PrepareStep, BeginPrepare, Probe, ProbeFails, CheckDir,
         MakeDir, MakeDirRaces, FixDirMode, CheckFile, Touch, FixFileMode, AddReturns,
         PrepareFails, CleanupTwice, CleanupReturns, TouchFile, allVars
  <2> QED
    BY <1>2, <1>4, <1>9, <2>1
<1> QED
  BY <1>5, <1>6, <1>7, <1>8, <1>9

\* No line stands in the file more often than there are processes and lookups
\* that met a rewrite: any other lookup adds a line only when there is none, so
\* that no more than all the processes do so before one of them finds it.
THEOREM SpecBoundedDuplicates == HostSpec => []BoundedDuplicates
<1>1. HostInit => DuplicatesBounded
  <2> SUFFICES ASSUME HostInit, NEW l \in Line
               PROVE  Entries[l] + Cardinality(Adding(l)) <= Cardinality(Proc) + missed
    BY DEF DuplicatesBounded, Bounded
  <2>1. Adding(l) = {}
    BY DEF HostInit, Init, Adding
  <2>2. Entries[l] \in 0..1
    BY DEF HostInit, Init, Entries, RewriteRuns
  <2> QED
    BY <2>1, <2>2, AddingFinite, FS_EmptySet DEF HostInit
<1>2. HostInv /\ HostInv' /\ DuplicatesBounded /\ [HostNext]_allVars
        => DuplicatesBounded'
  <2> SUFFICES ASSUME HostInv, HostInv', DuplicatesBounded, [HostNext]_allVars
               PROVE  DuplicatesBounded'
    OBVIOUS
  <2>1. CASE UNCHANGED allVars
    BY <2>1 DEF allVars, vars, history, DuplicatesBounded, Bounded, Adding, Entries,
                RewriteRuns
  <2>2. CASE HostNext
    BY <2>2, HostStep, DuplicatesStep DEF HostInv
  <2> QED
    BY <2>1, <2>2
<1>3. HostInv /\ DuplicatesBounded => BoundedDuplicates
  <2> SUFFICES ASSUME HostInv, DuplicatesBounded, missed < MaxMissed, ~unlocked,
                      NEW l \in Line
               PROVE  Entries[l] <= Cardinality(Proc) + missed
    BY DEF BoundedDuplicates
  <2>1. Entries[l] + Cardinality(Adding(l)) <= Cardinality(Proc) + missed
    BY DEF DuplicatesBounded, Bounded
  <2>2. Entries[l] \in Nat /\ missed \in Nat
    BY EntriesNat, MaxMissedAssumption DEF HostInv, HostTypeOK
  <2> QED
    BY <2>1, <2>2, AddingFinite
<1> QED
  BY <1>1, <1>2, <1>3, HostInvariance, PTL DEF HostSpec
=============================================================================
