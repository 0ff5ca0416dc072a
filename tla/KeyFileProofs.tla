---------------------------- MODULE KeyFileProofs ----------------------------
(***************************************************************************)
(* Proofs about KeyFile, for any processes, lines, contents and bound:     *)
(*   - type correctness, whatever fails;                                   *)
(*   - until flock() itself has failed, the inductive invariant IInv and   *)
(*     from it the safety invariants of KeyFile;                           *)
(*   - every step is a step of KeyRegistry or a stutter of it.             *)
(***************************************************************************)
EXTENDS KeyFile, TLAPS

LEMMA EmptyBag == Empty \in Bag
BY DEF Empty, Bag

LEMMA WithoutBag == ASSUME NEW f \in Bag, NEW c PROVE Without(f, c) \in Bag
BY DEF Without, Bag

-----------------------------------------------------------------------------
(* Type correctness.                                                       *)

LEMMA TypeInit == Init => TypeOK
<1> SUFFICES ASSUME Init PROVE TypeOK
  OBVIOUS
<1>1. file \in Bag
  BY DEF Init, Bag
<1> QED
  BY <1>1, EmptyBag DEF Init, TypeOK

\* A call begins, with or without the bound on the copies of a line.
BeginCall(p) ==
    \/ \E l \in Line : Begin(p, "add", l)
    \/ \E c \in Content \cup {None} : Begin(p, "remove", c)

LEMMA NextSteps ==
    ASSUME Next
    PROVE  \E p \in Proc : BeginCall(p) \/ Step(p)
BY DEF Next, BeginCall, BeginAdd, BeginRemove

LEMMA TypeBegin ==
    ASSUME TypeOK, NEW p \in Proc, BeginCall(p)
    PROVE  TypeOK'
BY DEF TypeOK, BeginCall, Begin

LEMMA TypeLock ==
    ASSUME TypeOK, NEW p \in Proc,
           \/ OpenLock(p)
           \/ OpenLockFails(p)
           \/ Flock(p)
           \/ FlockFails(p)
           \/ Release(p)
           \/ ReleaseUnlocked(p)
           \/ Crash(p)
    PROVE  TypeOK'
<1>1. CASE OpenLock(p)
  BY <1>1 DEF TypeOK, OpenLock, Goto
<1>2. CASE OpenLockFails(p)
  BY <1>2 DEF TypeOK, OpenLockFails, Return, Goto
<1>3. CASE Flock(p)
  BY <1>3 DEF TypeOK, Flock, Goto, Critical
<1>4. CASE FlockFails(p)
  BY <1>4 DEF TypeOK, FlockFails, Goto, Critical
<1>5. CASE Release(p)
  BY <1>5 DEF TypeOK, Release, Return, Goto
<1>6. CASE ReleaseUnlocked(p)
  BY <1>6 DEF TypeOK, ReleaseUnlocked, Return, Goto
<1>7. CASE Crash(p)
  BY <1>7, EmptyBag DEF TypeOK, Crash, Return, Goto
<1> QED
  BY <1>1, <1>2, <1>3, <1>4, <1>5, <1>6, <1>7

LEMMA TypeAdd ==
    ASSUME TypeOK, NEW p \in Proc, AddStep(p)
    PROVE  TypeOK'
<1>1. CASE Append(p)
  <2>1. file' = [l \in Line |-> IF l = arg[p] THEN file[l] + 1 ELSE file[l]]
    BY <1>1 DEF TypeOK, Append, Bag
  <2>2. file' \in Bag
    BY <2>1 DEF TypeOK, Bag
  <2> QED
    BY <1>1, <2>2 DEF TypeOK, Append, Finish, Goto
<1>2. CASE AppendFails(p)
  BY <1>2 DEF TypeOK, AppendFails, Finish, Goto
<1> QED
  BY <1>1, <1>2 DEF AddStep

LEMMA TypeRemove ==
    ASSUME TypeOK, NEW p \in Proc, RemoveStep(p)
    PROVE  TypeOK'
<1>1. CASE SkipLoad(p)
  BY <1>1 DEF TypeOK, SkipLoad, Finish, Goto
<1>2. CASE Load(p)
  BY <1>2 DEF TypeOK, Load, Goto
<1>3. CASE Truncate(p)
  <2>1. Without(buf[p], arg[p]) \in Bag
    BY WithoutBag DEF TypeOK
  <2> QED
    BY <1>3, <2>1, EmptyBag DEF TypeOK, Truncate, Goto
<1>4. CASE WriteLine(p)
  <2>1. PICK l \in Line :
          /\ buf[p][l] > 0
          /\ buf' = [buf EXCEPT ![p][l] = @ - 1]
          /\ wrote' = [wrote EXCEPT ![p][l] = @ + 1]
          /\ \/ file' = [file EXCEPT ![l] = @ + 1]
             \/ \E f \in Overwritten : file' = [f EXCEPT ![l] = @ + 1]
    BY <1>4 DEF WriteLine
  <2>2. buf' \in [Proc -> Bag] /\ wrote' \in [Proc -> Bag]
    BY <2>1 DEF TypeOK, Bag
  <2>3. file' \in Bag
    <3>1. Overwritten \subseteq Bag
      BY MaxCopiesAssumption DEF Overwritten, Bag
    <3>2. PICK f \in Bag : file' = [f EXCEPT ![l] = @ + 1]
      BY <2>1, <3>1 DEF TypeOK
    <3> QED
      BY <3>2 DEF Bag
  <2> QED
    BY <1>4, <2>2, <2>3 DEF TypeOK, WriteLine
<1>5. CASE CloseFile(p)
  BY <1>5, EmptyBag DEF TypeOK, CloseFile, Finish, Goto
<1>6. CASE RewriteFails(p)
  BY <1>6, EmptyBag DEF TypeOK, RewriteFails, Finish, Goto
<1> QED
  BY <1>1, <1>2, <1>3, <1>4, <1>5, <1>6 DEF RemoveStep

LEMMA TypeNext == TypeOK /\ [Next]_vars => TypeOK'
<1> SUFFICES ASSUME TypeOK, [Next]_vars PROVE TypeOK'
  OBVIOUS
<1>1. CASE UNCHANGED vars
  BY <1>1 DEF vars, TypeOK
<1>2. CASE Next
  BY <1>2, NextSteps, TypeBegin, TypeLock, TypeAdd, TypeRemove
  DEF Step, LockedStep
<1> QED
  BY <1>1, <1>2

\* Every variable keeps its type, whichever faults the environment has: no
\* count of lines goes below zero, and a call's argument fits its operation.
THEOREM TypeCorrect == Spec => []TypeOK
<1>1. Init => TypeOK
  BY TypeInit
<1>2. TypeOK /\ [Next]_vars => TypeOK'
  BY TypeNext
<1> QED
  BY <1>1, <1>2, PTL DEF Spec

-----------------------------------------------------------------------------
(* The inductive invariant.  MutualExclusion is inductive on its own; the   *)
(* properties of the data are not: that a removal leaves no line that       *)
(* mentions its content needs to know what the file and the buffer are while *)
(* it writes, which in turn needs what they were when it truncated.         *)

Alone == \A p \in Proc : InCritical(p) \/ pc[p] = "release" => owner = p

ArgFits ==
    \A p \in Proc :
        /\ pc[p] # "idle" => op[p] # "none"
        /\ pc[p] # "idle" /\ op[p] = "add" => arg[p] \in Line
        /\ pc[p] = "append" => op[p] = "add"
        /\ pc[p] \in {"load", "trunc", "write"} => op[p] = "remove"
        /\ pc[p] \in {"trunc", "write"} => arg[p] \in Content

AbsentIsEmpty == ~present => file = Empty

NothingWritten == \A p \in Proc : pc[p] # "write" => wrote[p] = Empty

Loaded == \A p \in Proc : pc[p] = "trunc" => present /\ buf[p] = file

Rewriting ==
    \A p \in Proc :
        pc[p] = "write" =>
            /\ present
            /\ file = wrote[p]
            /\ \A l \in Mentions[arg[p]] : buf[p][l] = 0 /\ file[l] = 0

Acked ==
    \A p \in Proc :
        pc[p] = "release" /\ op[p] = "add" /\ ret[p] = "true" => file[arg[p]] > 0

Gone ==
    \A p \in Proc :
        pc[p] = "release" /\ op[p] = "remove" /\ ret[p] = "false" /\ arg[p] # None
            => \A l \in Mentions[arg[p]] : file[l] = 0

IInv ==
    /\ Alone
    /\ ArgFits
    /\ AbsentIsEmpty
    /\ NothingWritten
    /\ Loaded
    /\ Rewriting
    /\ Acked
    /\ Gone

LEMMA IInvInit == Init => IInv
BY DEF Init, IInv, Alone, ArgFits, AbsentIsEmpty, NothingWritten, Loaded,
       Rewriting, Acked, Gone, InCritical

LEMMA IInvBegin ==
    ASSUME TypeOK, IInv, NEW p \in Proc, BeginCall(p)
    PROVE  IInv'
BY DEF TypeOK, BeginCall, Begin, IInv, Alone, ArgFits,
       AbsentIsEmpty, NothingWritten, Loaded, Rewriting, Acked, Gone, InCritical

LEMMA FlockEffect ==
    ASSUME TypeOK, NEW p \in Proc, op[p] # "none", Flock(p)
    PROVE  /\ \A q \in Proc \ {p} : pc'[q] = pc[q]
           /\ \/ pc'[p] = "append" /\ op[p] = "add"
              \/ pc'[p] = "load" /\ op[p] = "remove"
           /\ owner' = p
           /\ UNCHANGED <<present, file, op, arg, buf, wrote, ret>>
<1>1. owner' = p /\ UNCHANGED <<present, file, op, arg, buf, wrote, ret>>
  BY DEF Flock
<1>2. \A q \in Proc \ {p} : pc'[q] = pc[q]
  BY DEF TypeOK, Flock, Goto
<1>3. op[p] = "add" => pc'[p] = "append"
  BY DEF TypeOK, Flock, Goto, Critical
<1>4. op[p] = "remove" => pc'[p] = "load"
  BY DEF TypeOK, Flock, Goto, Critical
<1>5. op[p] = "add" \/ op[p] = "remove"
  BY DEF TypeOK
<1> QED
  BY <1>1, <1>2, <1>3, <1>4, <1>5

LEMMA IInvLock ==
    ASSUME TypeOK, IInv, ~unlocked', NEW p \in Proc,
           \/ OpenLock(p)
           \/ OpenLockFails(p)
           \/ Flock(p)
           \/ FlockFails(p)
           \/ Release(p)
           \/ ReleaseUnlocked(p)
           \/ Crash(p)
    PROVE  IInv'
<1> USE DEF TypeOK, IInv, Alone, ArgFits, AbsentIsEmpty, NothingWritten, Loaded,
            Rewriting, Acked, Gone, InCritical, Goto, Return
<1>1. CASE OpenLock(p)
  BY <1>1 DEF OpenLock
<1>2. CASE OpenLockFails(p)
  BY <1>2 DEF OpenLockFails
<1>3. CASE Flock(p)
  <2>1. \A q \in Proc :
          pc[q] \notin {"append", "load", "trunc", "write", "release"}
    BY <1>3, NoneAssumption DEF Flock
  <2>2. /\ \A q \in Proc \ {p} : pc'[q] = pc[q]
        /\ \/ pc'[p] = "append" /\ op[p] = "add"
           \/ pc'[p] = "load" /\ op[p] = "remove"
        /\ owner' = p
        /\ UNCHANGED <<present, file, op, arg, buf, wrote, ret>>
    <3>1. op[p] # "none"
      BY <1>3 DEF Flock
    <3> QED
      BY <1>3, <3>1, FlockEffect
  <2>3. (Alone /\ ArgFits /\ AbsentIsEmpty)'
    BY <1>3, <2>1, <2>2 DEF Flock
  <2>4. (NothingWritten /\ Loaded /\ Rewriting /\ Acked /\ Gone)'
    BY <2>1, <2>2
  <2> QED
    BY <2>3, <2>4
<1>4. CASE FlockFails(p)
  BY <1>4 DEF FlockFails
<1>5. CASE Release(p)
  <2>1. \A q \in Proc :
          pc'[q] \notin {"append", "load", "trunc", "write", "release"}
    BY <1>5, NoneAssumption DEF Release
  <2>2. \A q \in Proc \ {p} : /\ pc'[q] = pc[q]
                              /\ op'[q] = op[q]
                              /\ arg'[q] = arg[q]
    BY <1>5 DEF Release
  <2>3. pc'[p] = "idle" /\ UNCHANGED <<present, file, buf, wrote, ret>>
    BY <1>5 DEF Release
  <2>4. NothingWritten'
    BY <1>5, <2>3 DEF Release
  <2> QED
    BY <2>1, <2>2, <2>3, <2>4
<1>6. CASE ReleaseUnlocked(p)
  BY <1>6 DEF ReleaseUnlocked
<1>7. CASE Crash(p)
  BY <1>7, NoneAssumption DEF Crash
<1> QED
  BY <1>1, <1>2, <1>3, <1>4, <1>5, <1>6, <1>7

LEMMA IInvAdd ==
    ASSUME TypeOK, IInv, NEW p \in Proc, AddStep(p)
    PROVE  IInv'
<1> USE DEF TypeOK, IInv, Alone, ArgFits, AbsentIsEmpty, NothingWritten, Loaded,
            Rewriting, Acked, Gone, InCritical, Finish, Goto
<1>1. CASE Append(p)
  <2>1. /\ arg[p] \in Line
        /\ owner = p
        /\ file[arg[p]] \in Nat
    BY <1>1 DEF Append, Bag
  <2>2. file'[arg[p]] > 0
    BY <1>1, <2>1 DEF Append, Bag
  <2>3. /\ pc' = [pc EXCEPT ![p] = "release"]
        /\ ret' = [ret EXCEPT ![p] = "true"]
        /\ present'
        /\ UNCHANGED <<owner, op, arg, buf, wrote>>
    BY <1>1 DEF Append
  <2>4. \A q \in Proc \ {p} : pc[q] \notin {"append", "load", "trunc", "write", "release"}
    BY <1>1, <2>1
  <2>5. (Alone /\ ArgFits /\ AbsentIsEmpty)'
    <3>1. Alone' /\ AbsentIsEmpty'
      BY <2>1, <2>3, <2>4
    <3>2. ArgFits'
      BY <1>1, <2>3 DEF Append
    <3> QED
      BY <3>1, <3>2
  <2>6. (NothingWritten /\ Loaded /\ Rewriting)'
    <3>1. \A q \in Proc : pc'[q] \notin {"trunc", "write"} /\ wrote[q] = Empty
      BY <1>1, <2>3, <2>4 DEF Append
    <3> QED
      BY <2>3, <3>1
  <2>7. (Acked /\ Gone)'
    BY <1>1, <2>1, <2>2, <2>3, <2>4
  <2> QED
    BY <2>5, <2>6, <2>7
<1>2. CASE AppendFails(p)
  <2>1. owner = p /\ op[p] = "add"
    BY <1>2 DEF AppendFails
  <2>2. AbsentIsEmpty'
    BY <1>2 DEF AppendFails, Empty
  <2>3. \A q \in Proc : pc'[q] \notin {"trunc", "write"} /\ wrote[q] = Empty
    BY <1>2, <2>1 DEF AppendFails
  <2>4. (Loaded /\ Rewriting /\ NothingWritten)'
    BY <1>2, <2>3 DEF AppendFails
  <2>5. (Alone /\ ArgFits /\ Acked /\ Gone)'
    BY <1>2, <2>1 DEF AppendFails
  <2> QED
    BY <2>2, <2>4, <2>5
<1> QED
  BY <1>1, <1>2 DEF AddStep

LEMMA IInvRemove ==
    ASSUME TypeOK, IInv, NEW p \in Proc, RemoveStep(p)
    PROVE  IInv'
<1> USE DEF TypeOK, IInv, Alone, ArgFits, AbsentIsEmpty, NothingWritten, Loaded,
            Rewriting, Acked, Gone, InCritical
<1>1. CASE SkipLoad(p)
  <2>1. arg[p] # None => file = Empty /\ Mentions[arg[p]] \subseteq Line
    BY <1>1, MentionsAssumption DEF SkipLoad
  <2>2. arg[p] # None => \A l \in Mentions[arg[p]] : file[l] = 0
    BY <2>1 DEF Empty
  <2> QED
    BY <1>1, <2>2 DEF SkipLoad, Finish, Goto
<1>2. CASE Load(p)
  BY <1>2 DEF Load, Goto
<1>3. CASE Truncate(p)
  <2>1. arg[p] \in Content /\ Mentions[arg[p]] \subseteq Line /\ owner = p
    BY <1>3, MentionsAssumption DEF Truncate
  <2>2. \A l \in Mentions[arg[p]] : buf'[p][l] = 0 /\ file'[l] = 0
    BY <1>3, <2>1 DEF Truncate, Without, Empty
  <2>3. file' = wrote'[p] /\ present' /\ pc' = [pc EXCEPT ![p] = "write"]
    BY <1>3 DEF Truncate, Goto
  <2> QED
    BY <1>3, <2>1, <2>2, <2>3 DEF Truncate, Goto
<1>4. CASE WriteLine(p)
  <2>1. /\ file = wrote[p]
        /\ owner = p
        /\ Mentions[arg[p]] \subseteq Line
    BY <1>4, MentionsAssumption DEF WriteLine
  <2>2. PICK l \in Line :
          /\ buf[p][l] > 0
          /\ buf' = [buf EXCEPT ![p][l] = @ - 1]
          /\ wrote' = [wrote EXCEPT ![p][l] = @ + 1]
          /\ file' = [file EXCEPT ![l] = @ + 1]
    BY <1>4, <2>1 DEF WriteLine
  <2>3. l \notin Mentions[arg[p]]
    BY <1>4, <2>2 DEF WriteLine
  <2>4. file' = wrote'[p]
    BY <2>1, <2>2
  <2>5. \A k \in Mentions[arg[p]] : buf'[p][k] = 0 /\ file'[k] = 0
    BY <1>4, <2>1, <2>2, <2>3 DEF WriteLine, Bag
  <2>6. \A q \in Proc \ {p} : pc[q] \notin {"trunc", "write", "release"}
                              /\ wrote'[q] = wrote[q]
    BY <2>1, <2>2
  <2> QED
    BY <1>4, <2>4, <2>5, <2>6 DEF WriteLine
<1>5. CASE CloseFile(p)
  BY <1>5 DEF CloseFile, Finish, Goto
<1>6. CASE RewriteFails(p)
  BY <1>6 DEF RewriteFails, Finish, Goto
<1> QED
  BY <1>1, <1>2, <1>3, <1>4, <1>5, <1>6 DEF RemoveStep

\* Only a flock() that fails sets the history variable, and nothing clears it.
LEMMA UnlockedStep ==
    ASSUME NEW p \in Proc,
           BeginCall(p) \/ OpenLock(p) \/ OpenLockFails(p) \/ LockedStep(p) \/ Crash(p)
    PROVE  /\ unlocked => unlocked'
           /\ unlocked' => unlocked \/ "flock" \in Faults
<1>1. CASE BeginCall(p)
  BY <1>1 DEF BeginCall, Begin
<1>2. CASE OpenLock(p) \/ OpenLockFails(p) \/ Flock(p) \/ FlockFails(p)
  BY <1>2 DEF OpenLock, OpenLockFails, Flock, FlockFails
<1>3. CASE AddStep(p)
  BY <1>3 DEF AddStep, Append, AppendFails
<1>4. CASE RemoveStep(p)
  BY <1>4 DEF RemoveStep, SkipLoad, Load, Truncate, WriteLine, CloseFile, RewriteFails
<1>5. CASE Release(p) \/ ReleaseUnlocked(p) \/ Crash(p)
  BY <1>5 DEF Release, ReleaseUnlocked, Crash
<1> QED
  BY <1>1, <1>2, <1>3, <1>4, <1>5 DEF LockedStep

LEMMA UnlockedStays ==
    ASSUME [Next]_vars
    PROVE  /\ unlocked => unlocked'
           /\ unlocked' => unlocked \/ "flock" \in Faults
<1>1. CASE UNCHANGED vars
  BY <1>1 DEF vars
<1>2. CASE Next
  BY <1>2, NextSteps, UnlockedStep DEF Step
<1> QED
  BY <1>1, <1>2

Blamed == unlocked => "flock" \in Faults

\* No call goes on without the lock while flock() cannot fail.
LEMMA SpecBlamed == Spec => []Blamed
<1>1. Init => Blamed
  BY DEF Init, Blamed
<1>2. Blamed /\ [Next]_vars => Blamed'
  BY UnlockedStays DEF Blamed
<1> QED
  BY <1>1, <1>2, PTL DEF Spec

LEMMA IInvNext ==
    TypeOK /\ (unlocked \/ IInv) /\ [Next]_vars => unlocked' \/ IInv'
<1> SUFFICES ASSUME TypeOK, unlocked \/ IInv, [Next]_vars, ~unlocked'
             PROVE  IInv'
  OBVIOUS
<1>1. IInv
  BY UnlockedStays
<1>2. CASE UNCHANGED vars
  BY <1>1, <1>2 DEF vars, IInv, Alone, ArgFits, AbsentIsEmpty, NothingWritten,
                    Loaded, Rewriting, Acked, Gone, InCritical
<1>3. CASE Next
  BY <1>1, <1>3, NextSteps, IInvBegin, IInvLock, IInvAdd, IInvRemove
  DEF Step, LockedStep
<1> QED
  BY <1>2, <1>3

\* Until flock() has failed, IInv holds in every reachable state.
THEOREM Invariance == Spec => [](unlocked \/ IInv)
<1>1. Init => unlocked \/ IInv
  BY IInvInit
<1>2. TypeOK /\ (unlocked \/ IInv) /\ [Next]_vars => (unlocked \/ IInv)'
  BY IInvNext
<1> QED
  BY <1>1, <1>2, TypeCorrect, PTL DEF Spec

-----------------------------------------------------------------------------
(* The safety invariants of KeyFile.                                       *)

\* Two calls are never both between acquire_lock and release_lock, until flock()
\* itself has failed.
THEOREM SpecMutualExclusion == Spec => []MutualExclusion
<1>1. unlocked \/ IInv => MutualExclusion
  BY DEF IInv, Alone, MutualExclusion
<1> QED
  BY <1>1, Invariance, PTL

\* What a removal has loaded is still what the file holds when it truncates it.
THEOREM SpecLoadedIsCurrent == Spec => []LoadedIsCurrent
<1>1. unlocked \/ IInv => LoadedIsCurrent
  BY DEF IInv, Loaded, LoadedIsCurrent
<1> QED
  BY <1>1, Invariance, PTL

\* A removal is the only writer until it closes the file.
THEOREM SpecNothingOverwritten == Spec => []NothingOverwritten
<1>1. unlocked \/ IInv => NothingOverwritten
  BY DEF IInv, Rewriting, NothingOverwritten
<1> QED
  BY <1>1, Invariance, PTL

\* An add that is about to return True has its line in the file.
THEOREM SpecAckedAddIsThere == Spec => []AckedAddIsThere
<1>1. unlocked \/ IInv => AckedAddIsThere
  BY DEF IInv, Acked, AckedAddIsThere
<1> QED
  BY <1>1, Invariance, PTL

\* A removal that ran to the end leaves no line that mentions its content.
THEOREM SpecRemovedIsGone == Spec => []RemovedIsGone
<1>1. unlocked \/ IInv => RemovedIsGone
  BY DEF IInv, Gone, RemovedIsGone
<1> QED
  BY <1>1, Invariance, PTL

\* Whatever fails, flock() included: a call that reports a result owned the lock
\* until then.
THEOREM SpecUnlockedNeverReturns == Spec => UnlockedNeverReturns
<1> DEFINE Reported == \A p \in Proc :
              pc[p] # "idle" /\ pc'[p] = "idle" /\ ret'[p] \in {"true", "false"}
                => owner = p /\ owner' = None
<1>1. TypeOK /\ [Next]_vars => Reported
  <2> SUFFICES ASSUME TypeOK, [Next]_vars, NEW p \in Proc,
                      pc[p] # "idle", pc'[p] = "idle", ret'[p] \in {"true", "false"}
               PROVE  owner = p /\ owner' = None
    OBVIOUS
  <2> USE DEF TypeOK, Goto, Return, Finish
  <2>1. ASSUME NEW q \in Proc,
               \/ \E l \in Line : BeginAdd(q, l)
               \/ \E c \in Content \cup {None} : BeginRemove(q, c)
        PROVE  FALSE
    BY <2>1 DEF BeginAdd, BeginRemove, Begin
  <2>2. ASSUME NEW q \in Proc, Step(q)
        PROVE  owner = p /\ owner' = None
    <3>1. CASE Release(q)
      BY <3>1 DEF Release
    <3>2. ~(OpenLockFails(q) \/ ReleaseUnlocked(q) \/ Crash(q))
      BY DEF OpenLockFails, ReleaseUnlocked, Crash
    <3>3. ~(OpenLock(q) \/ Flock(q) \/ FlockFails(q) \/ AddStep(q))
      BY DEF OpenLock, Flock, FlockFails, AddStep, Append, AppendFails, Critical
    <3>4. ~RemoveStep(q)
      BY DEF RemoveStep, SkipLoad, Load, Truncate, WriteLine, CloseFile, RewriteFails
    <3> QED
      BY <2>2, <3>1, <3>2, <3>3, <3>4 DEF Step, LockedStep
  <2>3. CASE UNCHANGED vars
    BY <2>3 DEF vars
  <2> QED
    BY <2>1, <2>2, <2>3 DEF Next
<1>2. Spec => [][Reported]_vars
  BY <1>1, TypeCorrect, PTL DEF Spec
<1> QED
  BY <1>2 DEF UnlockedNeverReturns

-----------------------------------------------------------------------------
(* Refinement: every step of KeyFile is a step of KeyRegistry or leaves its  *)
(* entries unchanged.                                                       *)

LEMMA EntriesOutside ==
    ASSUME TypeOK, ~RewriteRuns
    PROVE  Entries = file
BY DEF TypeOK, Bag, Entries

LEMMA EntriesInside ==
    ASSUME TypeOK, NEW p \in Proc, owner = p, pc[p] = "write"
    PROVE  Entries = [l \in Line |-> file[l] + buf[p][l]]
BY NoneAssumption DEF Entries, RewriteRuns

LEMMA RefineInit == Init => Registry!Init
<1> SUFFICES ASSUME Init PROVE Entries \in [Line -> Nat]
  BY DEF Registry!Init, Init
<1>1. TypeOK /\ ~RewriteRuns
  BY TypeInit DEF Init, RewriteRuns
<1> QED
  BY <1>1, EntriesOutside DEF TypeOK, Bag

\* A step that leaves the file, the owner's place and its buffer alone.
LEMMA RefineQuiet ==
    ASSUME TypeOK, IInv, ~unlocked', NEW p \in Proc,
           \/ BeginCall(p)
           \/ OpenLock(p)
           \/ OpenLockFails(p)
           \/ Flock(p)
           \/ FlockFails(p)
           \/ AppendFails(p)
           \/ SkipLoad(p)
           \/ Load(p)
           \/ CloseFile(p)
           \/ Release(p)
           \/ ReleaseUnlocked(p)
    PROVE  UNCHANGED Entries
<1> USE DEF Entries, RewriteRuns, TypeOK, IInv, Alone, InCritical
<1>1. CASE BeginCall(p)
  BY <1>1, NoneAssumption DEF BeginCall, Begin
<1>2. CASE OpenLock(p) \/ OpenLockFails(p)
  BY <1>2, NoneAssumption DEF OpenLock, OpenLockFails, Return, Goto
<1>3. CASE Flock(p) \/ FlockFails(p)
  BY <1>3, NoneAssumption DEF Flock, FlockFails, Goto, Critical
<1>4. CASE AppendFails(p) \/ SkipLoad(p)
  BY <1>4, NoneAssumption DEF AppendFails, SkipLoad, Finish, Goto
<1>5. CASE Load(p)
  BY <1>5, NoneAssumption DEF Load, Goto
<1>6. CASE CloseFile(p)
  <2>1. owner = p /\ pc[p] = "write" /\ buf[p] = Empty
    BY <1>6 DEF CloseFile
  <2>2. Entries = file
    BY <2>1, EntriesInside DEF Empty, Bag
  <2>3. ~RewriteRuns' /\ file' = file
    BY <1>6, <2>1, NoneAssumption DEF CloseFile, Finish, Goto
  <2> QED
    BY <2>2, <2>3 DEF Bag
<1>7. CASE Release(p) \/ ReleaseUnlocked(p)
  BY <1>7, NoneAssumption DEF Release, ReleaseUnlocked, Return, Goto
<1> QED
  BY <1>1, <1>2, <1>3, <1>4, <1>5, <1>6, <1>7

LEMMA RefineAppend ==
    ASSUME TypeOK, IInv, NEW p \in Proc, Append(p)
    PROVE  Registry!Add(arg[p]) /\ arg[p] \in Line
<1>1. owner = p /\ arg[p] \in Line /\ ~RewriteRuns /\ ~RewriteRuns'
  BY DEF Append, Finish, Goto, TypeOK, IInv, Alone, ArgFits, InCritical, RewriteRuns
<1>2. Entries = file
  BY <1>1, EntriesOutside
<1>3. file' \in Bag
  BY TypeAdd DEF AddStep, TypeOK
<1>4. Entries' = file'
  BY <1>1, <1>3 DEF Entries, Bag
<1> QED
  BY <1>1, <1>2, <1>4 DEF Append, Registry!Add

LEMMA RefineTruncate ==
    ASSUME TypeOK, IInv, NEW p \in Proc, Truncate(p)
    PROVE  Registry!Remove(arg[p]) /\ arg[p] \in Content
<1>1. owner = p /\ arg[p] \in Content /\ ~RewriteRuns /\ buf[p] = file
  BY DEF Truncate, TypeOK, IInv, Alone, ArgFits, Loaded, InCritical, RewriteRuns
<1>2. Entries = file
  BY <1>1, EntriesOutside
<1>3. /\ file' = Empty
      /\ buf'[p] = Without(file, arg[p])
      /\ pc'[p] = "write"
      /\ owner' = p
  BY <1>1 DEF Truncate, Goto, TypeOK
<1>4. Entries' = [l \in Line |-> file'[l] + buf'[p][l]]
  BY <1>3, NoneAssumption DEF Entries, RewriteRuns
<1>5. \A l \in Line : file'[l] + buf'[p][l] = Without(file, arg[p])[l]
  BY <1>3 DEF Empty, Without, TypeOK, Bag
<1>6. Entries' = Without(file, arg[p])
  BY <1>4, <1>5 DEF Without
<1> QED
  BY <1>1, <1>2, <1>6 DEF Truncate, Registry!Remove, Registry!Without, Without

LEMMA RefineWriteLine ==
    ASSUME TypeOK, IInv, NEW p \in Proc, WriteLine(p)
    PROVE  UNCHANGED Entries
<1>1. owner = p /\ pc[p] = "write" /\ file = wrote[p]
  BY DEF WriteLine, IInv, Alone, Rewriting, InCritical
<1>2. PICK l \in Line :
        /\ buf[p][l] > 0
        /\ buf' = [buf EXCEPT ![p][l] = @ - 1]
        /\ file' = [file EXCEPT ![l] = @ + 1]
  BY <1>1 DEF WriteLine
<1>3. Entries = [k \in Line |-> file[k] + buf[p][k]]
  BY <1>1, EntriesInside
<1>4. Entries' = [k \in Line |-> file'[k] + buf'[p][k]]
  BY <1>1, NoneAssumption DEF WriteLine, Entries, RewriteRuns
<1>5. \A k \in Line : file'[k] + buf'[p][k] = file[k] + buf[p][k]
  <2>1. \A k \in Line : file[k] \in Nat /\ buf[p][k] \in Nat
    BY DEF TypeOK, Bag
  <2>2. file'[l] = file[l] + 1 /\ \A k \in Line \ {l} : file'[k] = file[k]
    BY <1>2 DEF TypeOK, Bag
  <2>3. buf'[p][l] = buf[p][l] - 1 /\ \A k \in Line \ {l} : buf'[p][k] = buf[p][k]
    BY <1>2 DEF TypeOK, Bag
  <2> QED
    BY <2>1, <2>2, <2>3
<1> QED
  BY <1>3, <1>4, <1>5

\* An error or a crash: what a rewrite had not written back yet is lost.
LEMMA RefineLose ==
    ASSUME TypeOK, IInv, NEW p \in Proc, RewriteFails(p) \/ Crash(p)
    PROVE  Registry!Lose \/ UNCHANGED Entries
<1>1. "io" \in Faults \/ "crash" \in Faults
  BY DEF RewriteFails, Crash
<1>2. file' = file
  BY DEF RewriteFails, Crash
<1>3. CASE owner = p /\ pc[p] = "write"
  <2>1. Entries = [l \in Line |-> file[l] + buf[p][l]]
    BY <1>3, EntriesInside
  <2>2. Entries' = file
    BY <1>2, <1>3, NoneAssumption
    DEF Entries, RewriteRuns, RewriteFails, Crash, Return, Finish, Goto, TypeOK, Bag
  <2> QED
    BY <1>1, <2>1, <2>2 DEF RewriteFails, Crash, Registry!Lose, TypeOK, Bag
<1>4. CASE ~(owner = p /\ pc[p] = "write")
  <2>1. RewriteRuns' <=> RewriteRuns
    BY <1>4, NoneAssumption
    DEF RewriteRuns, RewriteFails, Crash, Return, Finish, Goto, TypeOK, IInv, Alone, InCritical
  <2>2. RewriteRuns => owner' = owner /\ buf'[owner] = buf[owner]
    BY <1>4, NoneAssumption
    DEF RewriteRuns, RewriteFails, Crash, Return, Finish, Goto, TypeOK, IInv, Alone, InCritical
  <2> QED
    BY <1>2, <2>1, <2>2 DEF Entries
<1> QED
  BY <1>3, <1>4

\* A step of a call that goes on without the lock, or after one has.
LEMMA RefineBroken ==
    ASSUME TypeOK', Blamed', unlocked'
    PROVE  [Registry!Next]_<<Entries, unlocked>>
<1>1. Entries' \in [Line -> Nat]
  BY NoneAssumption DEF Entries, RewriteRuns, TypeOK, Bag
<1>2. unlocked' = TRUE
  BY DEF TypeOK
<1> QED
  BY <1>1, <1>2 DEF Blamed, Registry!Next, Registry!Break

LEMMA RefineNext ==
    TypeOK /\ TypeOK' /\ Blamed' /\ (unlocked \/ IInv) /\ [Next]_vars
        => [Registry!Next]_<<Entries, unlocked>>
<1> SUFFICES ASSUME TypeOK, TypeOK', Blamed', unlocked \/ IInv, [Next]_vars,
                    ~unlocked'
             PROVE  [Registry!Next]_<<Entries, unlocked>>
  BY RefineBroken
<1>1. IInv /\ UNCHANGED unlocked
  BY UnlockedStays DEF TypeOK
<1>2. CASE UNCHANGED vars
  BY <1>2 DEF vars, Entries, RewriteRuns
<1>3. CASE Next
  <2>1. PICK p \in Proc : BeginCall(p) \/ Step(p)
    BY <1>3, NextSteps
  <2>2. CASE Append(p)
    BY <1>1, <2>2, RefineAppend DEF Registry!Next
  <2>3. CASE Truncate(p)
    BY <1>1, <2>3, RefineTruncate DEF Registry!Next
  <2>4. CASE WriteLine(p)
    BY <1>1, <2>4, RefineWriteLine
  <2>5. CASE RewriteFails(p) \/ Crash(p)
    BY <1>1, <2>5, RefineLose DEF Registry!Next
  <2> QED
    BY <1>1, <2>1, <2>2, <2>3, <2>4, <2>5, RefineQuiet
    DEF Step, LockedStep, AddStep, RemoveStep
<1> QED
  BY <1>2, <1>3

\* To the other processes every edit of the file is one step: the protocol
\* implements KeyRegistry, whatever fails, and that promises nothing any more
\* once a call has gone on without the lock.
THEOREM Refinement == Spec => RegistrySpec
<1>1. Init => Registry!Init
  BY RefineInit
<1>2. TypeOK /\ TypeOK' /\ Blamed' /\ (unlocked \/ IInv) /\ [Next]_vars
        => [Registry!Next]_<<Entries, unlocked>>
  BY RefineNext
<1> QED
  BY <1>1, <1>2, TypeCorrect, SpecBlamed, Invariance, PTL
  DEF Spec, RegistrySpec, Registry!Spec
=============================================================================
