-------------------------- MODULE CredentialsProofs --------------------------
(***************************************************************************)
(* Proofs about Credentials, for any processes and generations of keys.     *)
(* What a call has established for the files that it is through with stays  *)
(* so until another process marks it: OtherSteps is about the steps of the  *)
(* others, and each part of the invariant then about the steps of its own.  *)
(***************************************************************************)
EXTENDS Credentials, TLAPS

\* The kinds that come before k in each of the methods.
Earlier == [private |-> {}, public |-> {"private"}, certificate |-> {"private", "public"}]

Storing(p) == pc[p] \in {"store", "mkdir", "open", "fill", "chmod"}

\* What a call of store() knows when it has come to a file; and a call starts
\* with the private key, and has told nothing before it ends.
Ready ==
    \A p \in Proc :
        /\ pc[p] = "idle" => at[p] = "private"
        /\ pc[p] # "idle" => told[p] = "none"
        /\ pc[p] \in {"mkdir", "open", "fill", "chmod"} => Stores(p, at[p]) /\ ~Lost(p, at[p])
        /\ pc[p] \in {"open", "fill", "chmod"} => dirThere

\* A file that exists() has seen is gone only if another has removed it.
Racing == \A p \in Proc : pc[p] = "unlink" /\ file[at[p]] = None => p \in taken

RemovedUpTo(p, kinds) == \A k \in kinds : k \in named[p] => Lost(p, k) \/ file[k] = None

Removing ==
    \A p \in Proc : pc[p] \in {"check", "unlink"} /\ p \notin written
        => RemovedUpTo(p, Earlier[at[p]])

StoredUpTo(p, kinds) ==
    \A k \in kinds : Stores(p, k) /\ ~Lost(p, k)
        => file[k] = key[p][k] /\ ~(k = "private" /\ wide)

Written ==
    \A p \in Proc : Storing(p) /\ p \notin written \cup taken =>
        /\ StoredUpTo(p, Earlier[at[p]])
        /\ pc[p] = "fill" => p \in held /\ file[at[p]] = Blank
        /\ pc[p] = "chmod" => file[at[p]] = key[p][at[p]]

IInv ==
    /\ CredTypeOK /\ Ready
    /\ KeyKeptPrivate
    /\ Racing /\ RemoveFalseMeansRace
    /\ Removing /\ RemovedIsGone
    /\ Written /\ StoredIsThere

\* Somebody whose promise may be spoilt, in the making or made.
Promising(q) == pc[q] \notin {"idle", "load"} \/ told[q] # "none"

-----------------------------------------------------------------------------

LEMMA KindFacts ==
    /\ Kind = {"private", "public", "certificate"}
    /\ Earlier["private"] = {} /\ Earlier["public"] = {"private"}
    /\ Earlier["certificate"] = {"private", "public"}
    /\ After["private"] = "public" /\ After["public"] = "certificate"
    /\ \A k \in Kind \ {"certificate"} : After[k] \in Kind
BY DEF Kind, Earlier, After

LEMMA IInvInit == Init => IInv
<1> SUFFICES ASSUME Init PROVE IInv
  OBVIOUS
<1>1. CredTypeOK
  <2>1. PICK given \in [Proc -> Given], own \in [Proc -> Value] :
          /\ named = [p \in Proc |-> given[p][1]]
          /\ key = [p \in Proc |->
                     [k \in Kind |-> IF k \in given[p][2] THEN own[p] ELSE None]]
    BY DEF Init
  <2>2. named \in [Proc -> SUBSET Kind]
    <3>1. \A p \in Proc : given[p] \in (SUBSET Kind) \X (SUBSET Kind)
      BY <2>1, GivenAssumption
    <3> QED
      BY <2>1, <3>1
  <2>3. key \in [Proc -> [Kind -> Content \cup {None}]]
    BY <2>1 DEF Content
  <2> QED
    BY <2>2, <2>3 DEF Init, CredTypeOK, Kind
<1>2. /\ wide = FALSE
      /\ \A p \in Proc : pc[p] = "idle" /\ at[p] = "private" /\ told[p] = "none"
  BY DEF Init
<1> QED
  BY <1>1, <1>2 DEF IInv, Ready, KeyKeptPrivate, Racing, RemoveFalseMeansRace, Removing,
     RemovedIsGone, Written, StoredIsThere, Storing

\* A step of p leaves the call and the object of another process alone.
LEMMA OtherFrame ==
    ASSUME CredTypeOK, NEW p \in Proc, Step(p), NEW q \in Proc, q # p
    PROVE  /\ pc'[q] = pc[q] /\ at'[q] = at[q] /\ told'[q] = told[q]
           /\ named'[q] = named[q] /\ key'[q] = key[q]
           /\ q \in strayed' <=> q \in strayed
<1> USE DEF CredTypeOK, Goto, Stay, Return, Advance, control, object
<1>1. CASE Call(p) \/ Generate(p)
  BY <1>1 DEF Call, Generate
<1>2. CASE StoreStep(p)
  BY <1>2 DEF StoreStep, SkipFile, StoreElsewhere, CheckDir, MakeDir, OpenFile, Fill,
     Chmod, StoreFails
<1>3. CASE LoadStep(p)
  BY <1>3 DEF LoadStep, LoadKey, LoadCertificate, LoadNothing
<1>4. CASE RemoveStep(p)
  BY <1>4 DEF RemoveStep, CheckFile, Unlink, UnlinkFails
<1> QED
  BY <1>1, <1>2, <1>3, <1>4 DEF Step

\* It may change the files only by marking those who have promised something.
LEMMA OtherSteps ==
    ASSUME CredTypeOK, NEW p \in Proc, Step(p), NEW q \in Proc, q # p
    PROVE  /\ q \in written => q \in written'
           /\ q \in taken => q \in taken'
           /\ failed => failed'
           /\ dirThere => dirThere'
           /\ Promising(q) /\ q \notin written' =>
                /\ wide' => wide
                /\ \A k \in Kind : file'[k] \in {file[k], None}
           /\ Promising(q) /\ q \notin written' \cup taken' =>
                /\ \A k \in Kind : file'[k] = file[k]
                /\ q \in held => q \in held'
<1> USE DEF CredTypeOK, Promising, Others, Writes, Takes, disk, object, control, history
<1>1. CASE Call(p) \/ Generate(p)
  BY <1>1 DEF Call, Generate
<1>2. CASE OpenFile(p) \/ Fill(p)
  BY <1>2 DEF OpenFile, Fill
<1>3. CASE SkipFile(p) \/ StoreElsewhere(p) \/ CheckDir(p) \/ MakeDir(p) \/ Chmod(p)
          \/ StoreFails(p)
  BY <1>3 DEF SkipFile, StoreElsewhere, CheckDir, MakeDir, Chmod, StoreFails
<1>4. CASE LoadStep(p)
  BY <1>4 DEF LoadStep, LoadKey, LoadCertificate, LoadNothing
<1>5. CASE CheckFile(p) \/ UnlinkFails(p)
  BY <1>5 DEF CheckFile, UnlinkFails
<1>6. CASE Unlink(p)
  BY <1>6 DEF Unlink
<1> QED
  BY <1>1, <1>2, <1>3, <1>4, <1>5, <1>6 DEF Step, StoreStep, RemoveStep

-----------------------------------------------------------------------------
(* CredTypeOK and Ready.                                                    *)

Label == {"idle", "store", "mkdir", "open", "fill", "chmod", "load", "check", "unlink"}
Answer == {"none", "stored", "removed", "refused"}

LEMMA ControlTypes ==
    ASSUME CredTypeOK, NEW p \in Proc, Step(p)
    PROVE  /\ pc' \in [Proc -> Label]
           /\ at' \in [Proc -> Kind]
           /\ told' \in [Proc -> Answer]
           /\ written' \subseteq Proc /\ taken' \subseteq Proc /\ failed' \in BOOLEAN
<1>1. /\ pc \in [Proc -> Label] /\ at \in [Proc -> Kind] /\ told \in [Proc -> Answer]
      /\ written \subseteq Proc /\ taken \subseteq Proc /\ failed \in BOOLEAN
  BY DEF CredTypeOK, Label, Answer
<1>2. ASSUME NEW l \in Label, NEW what \in Answer,
             Stay(p, l) \/ Return(p, what) \/ Advance(p, l, what)
      PROVE  pc' \in [Proc -> Label] /\ at' \in [Proc -> Kind] /\ told' \in [Proc -> Answer]
  BY <1>1, <1>2, KindFacts DEF Stay, Return, Advance, Goto, Label
<1>3. ASSUME UNCHANGED history \/ Writes(p) \/ Takes(p) \/
               (failed' = TRUE /\ UNCHANGED <<written, taken>>)
      PROVE  written' \subseteq Proc /\ taken' \subseteq Proc /\ failed' \in BOOLEAN
  BY <1>1, <1>3 DEF history, Writes, Takes, Others
<1>4. CASE Call(p) \/ Generate(p)
  BY <1>1, <1>3, <1>4 DEF Call, Generate, Goto, Label, Answer
<1>5. CASE SkipFile(p) \/ StoreElsewhere(p) \/ CheckDir(p) \/ MakeDir(p)
  BY <1>2, <1>3, <1>5 DEF SkipFile, StoreElsewhere, CheckDir, MakeDir, Label, Answer
<1>6. CASE OpenFile(p) \/ Fill(p) \/ Chmod(p) \/ StoreFails(p)
  BY <1>2, <1>3, <1>6 DEF OpenFile, Fill, Chmod, StoreFails, Label, Answer
<1>7. CASE LoadStep(p)
  BY <1>2, <1>3, <1>7 DEF LoadStep, LoadKey, LoadCertificate, LoadNothing, Label, Answer
<1>8. CASE RemoveStep(p)
  BY <1>2, <1>3, <1>8 DEF RemoveStep, CheckFile, Unlink, UnlinkFails, Label, Answer
<1> QED
  BY <1>4, <1>5, <1>6, <1>7, <1>8 DEF Step, StoreStep

LEMMA DataTypes ==
    ASSUME CredTypeOK, Ready, NEW p \in Proc, Step(p)
    PROVE  /\ dirThere' \in BOOLEAN /\ wide' \in BOOLEAN
           /\ file' \in [Kind -> Content \cup {Blank, None}]
           /\ named' \in [Proc -> SUBSET Kind]
           /\ strayed' \subseteq Proc
           /\ key' \in [Proc -> [Kind -> Content \cup {None}]]
           /\ held' \subseteq Proc
<1> USE KindFacts DEF CredTypeOK, disk, object, Content
<1>1. CASE Call(p) \/ Generate(p)
  BY <1>1 DEF Call, Generate
<1>2. CASE Fill(p)
  BY <1>2 DEF Fill, Ready, Stores
<1>3. CASE SkipFile(p) \/ StoreElsewhere(p) \/ CheckDir(p) \/ MakeDir(p) \/ OpenFile(p)
          \/ Chmod(p) \/ StoreFails(p)
  BY <1>3 DEF SkipFile, StoreElsewhere, CheckDir, MakeDir, OpenFile, Chmod, StoreFails
<1>4. CASE LoadStep(p)
  BY <1>4 DEF LoadStep, LoadKey, LoadCertificate, LoadNothing
<1>5. CASE RemoveStep(p)
  BY <1>5 DEF RemoveStep, CheckFile, Unlink, UnlinkFails
<1> QED
  BY <1>1, <1>2, <1>3, <1>4, <1>5 DEF Step, StoreStep

\* An open file that has the name is there, a file is in the directory, and a file
\* that is not there has no mode.
LEMMA DiskTypes ==
    ASSUME CredTypeOK, Ready, NEW p \in Proc, Step(p)
    PROVE  /\ \A q \in held' : pc'[q] = "fill" /\ file'[at'[q]] # None
           /\ \A k \in Kind : file'[k] # None => dirThere'
           /\ wide' => file'["private"] # None
<1> USE KindFacts, SpecialValues DEF CredTypeOK, disk, control, Goto, Stay, Return, Advance
<1>1. CASE Call(p) \/ Generate(p)
  BY <1>1 DEF Call, Generate
<1>2. CASE Fill(p)
  BY <1>2 DEF Fill, Ready, Stores
<1>3. CASE OpenFile(p)
  BY <1>3 DEF OpenFile, Ready
<1>4. CASE SkipFile(p) \/ StoreElsewhere(p) \/ CheckDir(p) \/ MakeDir(p)
  BY <1>4 DEF SkipFile, StoreElsewhere, CheckDir, MakeDir
<1>5. CASE Chmod(p) \/ StoreFails(p)
  BY <1>5 DEF Chmod, StoreFails
<1>6. CASE LoadStep(p)
  BY <1>6 DEF LoadStep, LoadKey, LoadCertificate, LoadNothing
<1>7. CASE CheckFile(p) \/ UnlinkFails(p)
  BY <1>7 DEF CheckFile, UnlinkFails
<1>8. CASE Unlink(p)
  <2>1. \A q \in held' : q \in held /\ at[q] # at[p] /\ q # p
    BY <1>8 DEF Unlink
  <2>2. \A q \in held' : pc'[q] = "fill" /\ file'[at'[q]] # None
    BY <1>8, <2>1, OtherFrame DEF Unlink
  <2>3. /\ \A k \in Kind : file'[k] # None => dirThere'
        /\ wide' => file'["private"] # None
    BY <1>8 DEF Unlink
  <2> QED
    BY <2>2, <2>3
<1> QED
  BY <1>1, <1>2, <1>3, <1>4, <1>5, <1>6, <1>7, <1>8 DEF Step, StoreStep, RemoveStep

LEMMA TypesStep ==
    ASSUME CredTypeOK, Ready, NEW p \in Proc, Step(p)
    PROVE  CredTypeOK'
BY ControlTypes, DataTypes, DiskTypes DEF CredTypeOK, Label, Answer

LEMMA ReadyStep ==
    ASSUME CredTypeOK, Ready, NEW p \in Proc, Step(p)
    PROVE  Ready'
<1> DEFINE R(q) ==
      /\ pc[q] = "idle" => at[q] = "private"
      /\ pc[q] # "idle" => told[q] = "none"
      /\ pc[q] \in {"mkdir", "open", "fill", "chmod"} => Stores(q, at[q]) /\ ~Lost(q, at[q])
      /\ pc[q] \in {"open", "fill", "chmod"} => dirThere
<1>1. ASSUME NEW q \in Proc, q # p
      PROVE  R(q)'
  BY <1>1, OtherFrame, OtherSteps DEF Ready, Stores, Lost
<1>2. R(p)'
  <2> USE DEF CredTypeOK, Ready, Goto, Stay, Return, Advance, Stores, Lost, disk, object,
              control
  <2>1. CASE Call(p) \/ Generate(p)
    BY <2>1 DEF Call, Generate
  <2>2. CASE SkipFile(p) \/ StoreElsewhere(p) \/ CheckDir(p) \/ MakeDir(p)
    BY <2>2 DEF SkipFile, StoreElsewhere, CheckDir, MakeDir
  <2>3. CASE OpenFile(p) \/ Fill(p) \/ Chmod(p) \/ StoreFails(p)
    BY <2>3 DEF OpenFile, Fill, Chmod, StoreFails
  <2>4. CASE LoadStep(p)
    BY <2>4 DEF LoadStep, LoadKey, LoadCertificate, LoadNothing
  <2>5. CASE RemoveStep(p)
    BY <2>5 DEF RemoveStep, CheckFile, Unlink, UnlinkFails
  <2> QED
    BY <2>1, <2>2, <2>3, <2>4, <2>5 DEF Step, StoreStep
<1> QED
  BY <1>1, <1>2 DEF Ready

-----------------------------------------------------------------------------
(* KeyKeptPrivate.                                                          *)

LEMMA PrivateStep ==
    ASSUME CredTypeOK, KeyKeptPrivate, NEW p \in Proc, Step(p)
    PROVE  KeyKeptPrivate'
<1> DEFINE Narrows(q) == pc[q] \in {"fill", "chmod"} /\ at[q] = "private"
<1> SUFFICES ASSUME ~failed', wide'
             PROVE  \E q \in Proc : Narrows(q)'
  BY DEF KeyKeptPrivate
<1>1. ~failed
  BY OtherSteps DEF CredTypeOK, Step, Call, StoreStep, SkipFile, StoreElsewhere, CheckDir,
     MakeDir, OpenFile, Fill, Chmod, StoreFails, LoadStep, LoadKey, LoadCertificate,
     LoadNothing, RemoveStep, CheckFile, Unlink, UnlinkFails, Generate, Writes, Takes, history
<1>2. CASE OpenFile(p)
  <2>1. CASE at[p] = "private"
    BY <1>2, <2>1 DEF OpenFile, Stay, Goto, CredTypeOK
  <2>2. CASE at[p] # "private"
    <3>1. PICK q \in Proc : Narrows(q)
      BY <1>1, <1>2, <2>2 DEF OpenFile, KeyKeptPrivate
    <3>2. q # p
      BY <1>2, <3>1 DEF OpenFile
    <3> QED
      BY <3>1, <3>2, OtherFrame
  <2> QED
    BY <2>1, <2>2
<1>3. CASE ~OpenFile(p)
  <2>1. wide
    BY <1>3 DEF CredTypeOK, Step, Call, StoreStep, SkipFile, StoreElsewhere, CheckDir,
       MakeDir, Fill, Chmod, StoreFails, LoadStep, LoadKey, LoadCertificate,
       LoadNothing, RemoveStep, CheckFile, Unlink, UnlinkFails, Generate, disk
  <2>2. PICK q \in Proc : Narrows(q)
    BY <1>1, <2>1 DEF KeyKeptPrivate
  <2>3. CASE q # p
    BY <2>2, <2>3, OtherFrame
  <2>4. CASE q = p
    <3>1. Fill(p) \/ Chmod(p) \/ StoreFails(p)
      BY <1>3, <2>2, <2>4 DEF Step, Call, StoreStep, SkipFile, StoreElsewhere, CheckDir,
         MakeDir, LoadStep, LoadKey, LoadCertificate, LoadNothing, RemoveStep, CheckFile,
         Unlink, UnlinkFails, Generate
    <3>2. Fill(p)
      BY <2>1, <2>2, <2>4, <3>1 DEF Chmod, StoreFails, CredTypeOK
    <3> QED
      BY <2>2, <2>4, <3>2 DEF Fill, Stay, Goto, CredTypeOK
  <2> QED
    BY <2>3, <2>4
<1> QED
  BY <1>2, <1>3

-----------------------------------------------------------------------------
(* RemoveFalseMeansRace.                                                    *)

\* A file that goes in a step of p marks the others that have promised something.
LEMMA GoneIsTaken ==
    ASSUME CredTypeOK, Ready, NEW p \in Proc, Step(p), NEW q \in Proc, q # p,
           Promising(q), q \notin taken', NEW k \in Kind, file[k] # None
    PROVE  file'[k] # None
<1> USE KindFacts, SpecialValues DEF CredTypeOK, Promising, Others, Takes, disk
<1>1. CASE OpenFile(p) \/ Generate(p)
  BY <1>1 DEF OpenFile, Generate
<1>2. CASE Fill(p)
  BY <1>2 DEF Fill, Ready, Stores
<1>3. CASE Unlink(p)
  BY <1>3 DEF Unlink
<1>4. CASE UNCHANGED file
  BY <1>4
<1> QED
  BY <1>1, <1>2, <1>3, <1>4 DEF Step, Call, StoreStep, SkipFile, StoreElsewhere, CheckDir,
     MakeDir, Chmod, StoreFails, LoadStep, LoadKey, LoadCertificate, LoadNothing, RemoveStep,
     CheckFile, UnlinkFails

LEMMA RacingStep ==
    ASSUME CredTypeOK, Ready, Racing, NEW p \in Proc, Step(p)
    PROVE  Racing'
<1> SUFFICES ASSUME NEW q \in Proc, pc'[q] = "unlink", file'[at'[q]] = None, q \notin taken'
             PROVE  FALSE
  BY DEF Racing
<1>1. CASE q # p
  <2>1. pc[q] = "unlink" /\ at'[q] = at[q] /\ at[q] \in Kind
    BY <1>1, OtherFrame DEF CredTypeOK
  <2>2. q \notin taken
    BY <1>1, OtherSteps
  <2>3. file[at[q]] # None
    BY <2>1, <2>2 DEF Racing
  <2> QED
    BY <1>1, <2>1, <2>3, GoneIsTaken DEF Promising
<1>2. CASE q = p
  <2>1. CheckFile(p)
    BY <1>2 DEF CredTypeOK, Step, Call, StoreStep, SkipFile, StoreElsewhere, CheckDir,
       MakeDir, OpenFile, Fill, Chmod, StoreFails, LoadStep, LoadKey, LoadCertificate,
       LoadNothing, RemoveStep, Unlink, UnlinkFails, Generate, Stay, Return, Advance, Goto
  <2> QED
    BY <1>2, <2>1 DEF CheckFile, CredTypeOK, Stay, Return, Advance, Goto, disk
<1> QED
  BY <1>1, <1>2

LEMMA RefusedStep ==
    ASSUME CredTypeOK, Ready, Racing, RemoveFalseMeansRace, NEW p \in Proc, Step(p)
    PROVE  RemoveFalseMeansRace'
<1> SUFFICES ASSUME NEW q \in Proc, told'[q] = "refused"
             PROVE  q \in taken' \/ failed'
  BY DEF RemoveFalseMeansRace
<1>1. CASE q # p
  BY <1>1, OtherFrame, OtherSteps DEF RemoveFalseMeansRace
<1>2. CASE q = p
  <2>1. pc[p] # "idle" /\ told[p] = "none"
    BY <1>2 DEF CredTypeOK, Ready, Step, Call, StoreStep, SkipFile, StoreElsewhere, CheckDir,
       MakeDir, OpenFile, Fill, Chmod, StoreFails, LoadStep, LoadKey, LoadCertificate,
       LoadNothing, RemoveStep, CheckFile, Unlink, UnlinkFails, Generate
  <2>2. Unlink(p) \/ UnlinkFails(p)
    BY <1>2, <2>1 DEF CredTypeOK, Step, Call, StoreStep, SkipFile, StoreElsewhere, CheckDir,
       MakeDir, OpenFile, Fill, Chmod, StoreFails, LoadStep, LoadKey, LoadCertificate,
       LoadNothing, RemoveStep, CheckFile, Generate, Stay, Return, Advance, Goto
  <2>3. CASE Unlink(p)
    BY <1>2, <2>1, <2>3 DEF Unlink, Racing, Advance, Return, CredTypeOK, history
  <2>4. CASE UnlinkFails(p)
    BY <2>4 DEF UnlinkFails
  <2> QED
    BY <2>2, <2>3, <2>4
<1> QED
  BY <1>1, <1>2

-----------------------------------------------------------------------------
(* RemovedIsGone.                                                           *)

LEMMA RemovingOthers ==
    ASSUME CredTypeOK, NEW p \in Proc, Step(p), NEW q \in Proc, q # p, Promising(q),
           q \notin written', NEW kinds \in SUBSET Kind, RemovedUpTo(q, kinds)
    PROVE  RemovedUpTo(q, kinds)'
BY OtherFrame, OtherSteps DEF RemovedUpTo, Lost

LEMMA RemovingStep ==
    ASSUME CredTypeOK, Ready, Removing, RemovedIsGone, NEW p \in Proc, Step(p)
    PROVE  Removing' /\ RemovedIsGone'
<1> DEFINE Going(q) == pc[q] \in {"check", "unlink"} /\ q \notin written
                         => RemovedUpTo(q, Earlier[at[q]])
           Gone(q) == told[q] = "removed" /\ q \notin written => RemovedUpTo(q, Kind)
<1>1. \A q \in Proc : Going(q) /\ Gone(q)
  BY DEF Removing, RemovedIsGone, RemovedUpTo
<1>2. \A q \in Proc : Earlier[at[q]] \in SUBSET Kind
  BY KindFacts DEF CredTypeOK
<1>3. ASSUME NEW q \in Proc, q # p
      PROVE  Going(q)' /\ Gone(q)'
  <2>1. /\ pc'[q] = pc[q] /\ at'[q] = at[q] /\ told'[q] = told[q]
        /\ q \in written => q \in written'
    BY <1>3, OtherFrame, OtherSteps
  <2>2. CASE ~Promising(q)
    BY <2>1, <2>2 DEF Promising
  <2>3. CASE Promising(q) /\ q \notin written'
    <3>1. Going(q)'
      BY <1>1, <1>2, <1>3, <2>1, <2>3, RemovingOthers
    <3>2. Gone(q)'
      BY <1>1, <1>3, <2>1, <2>3, RemovingOthers
    <3> QED
      BY <3>1, <3>2
  <2>4. CASE q \in written'
    BY <2>4
  <2> QED
    BY <2>2, <2>3, <2>4
<1>4. Going(p)' /\ Gone(p)'
  <2> USE DEF Goto, Stay, Return, Advance
  <2>1. CASE Call(p)
    BY <2>1, KindFacts DEF Call, CredTypeOK, Ready, RemovedUpTo
  <2>2. CASE Generate(p)
    BY <2>2 DEF Generate, CredTypeOK
  <2>3. CASE StoreStep(p)
    <3>1. pc'[p] \notin {"check", "unlink"} /\ told'[p] # "removed"
      <4> USE DEF CredTypeOK, Ready
      <4>1. CASE SkipFile(p) \/ StoreElsewhere(p) \/ CheckDir(p) \/ MakeDir(p)
        BY <4>1 DEF SkipFile, StoreElsewhere, CheckDir, MakeDir
      <4>2. CASE OpenFile(p) \/ Fill(p) \/ Chmod(p) \/ StoreFails(p)
        BY <4>2 DEF OpenFile, Fill, Chmod, StoreFails
      <4> QED
        BY <2>3, <4>1, <4>2 DEF StoreStep
    <3> QED
      BY <3>1
  <2>4. CASE LoadStep(p)
    <3>1. pc'[p] \notin {"check", "unlink"} /\ told'[p] # "removed"
      BY <2>4 DEF LoadStep, LoadKey, LoadCertificate, LoadNothing, CredTypeOK, Ready
    <3> QED
      BY <3>1
  <2>5. CASE UnlinkFails(p)
    BY <2>5 DEF UnlinkFails, CredTypeOK
  <2>6. CASE CheckFile(p) \/ Unlink(p)
    <3>1. /\ named' = named /\ strayed' = strayed
          /\ p \in written' <=> p \in written
          /\ \A k \in Kind \ {at[p]} : file'[k] = file[k]
          /\ pc[p] \in {"check", "unlink"} /\ at[p] \in Kind /\ told[p] = "none"
      BY <2>6 DEF CheckFile, Unlink, CredTypeOK, object, disk, history, Takes, Ready
    <3>2. CASE p \in written
      BY <3>1, <3>2
    <3>3. CASE p \notin written
      <4>1. RemovedUpTo(p, Earlier[at[p]])
        BY <1>1, <3>1, <3>3
      <4>2. RemovedUpTo(p, Earlier[at[p]])' \/ at'[p] # at[p]
        BY <3>1, <4>1, KindFacts DEF RemovedUpTo, Lost
      <4>3. CASE Stay(p, "unlink") \/ Return(p, "refused")
        BY <3>1, <4>2, <4>3 DEF CredTypeOK
      <4>4. CASE Advance(p, "check", "removed")
        <5>1. at[p] \in named[p] => Lost(p, at[p]) \/ file'[at[p]] = None
          <6>1. CASE CheckFile(p)
            <7>1. ~(at[p] \in named[p] /\ ~Lost(p, at[p]) /\ file[at[p]] # None)
              BY <4>4, <6>1, <3>1 DEF CheckFile, CredTypeOK
            <7> QED
              BY <3>1, <6>1, <7>1 DEF CheckFile, disk, Lost
          <6>2. CASE Unlink(p)
            BY <6>2, <3>1 DEF Unlink, CredTypeOK
          <6> QED
            BY <2>6, <6>1, <6>2
        <5>2. \A k \in Earlier[at[p]] \cup {at[p]} :
                k \in named[p] => Lost(p, k) \/ file'[k] = None
          BY <3>1, <4>1, <5>1, KindFacts DEF RemovedUpTo, Lost
        <5>3. CASE at[p] = "certificate"
          <6>1. RemovedUpTo(p, Kind)'
            BY <3>1, <5>2, <5>3, KindFacts DEF RemovedUpTo, Lost
          <6> QED
            BY <4>4, <5>3, <6>1 DEF CredTypeOK
        <5>4. CASE at[p] # "certificate"
          <6>1. at'[p] = After[at[p]] /\ told'[p] = "none"
            BY <3>1, <4>4, <5>4 DEF CredTypeOK
          <6>2. Earlier[at'[p]] = Earlier[at[p]] \cup {at[p]}
            BY <3>1, <5>4, <6>1, KindFacts
          <6>3. RemovedUpTo(p, Earlier[at[p]])'
            BY <3>1, <5>2, <6>2 DEF RemovedUpTo, Lost
          <6> QED
            BY <6>1, <6>3
        <5> QED
          BY <5>3, <5>4
      <4> QED
        BY <2>6, <4>3, <4>4 DEF CheckFile, Unlink
    <3> QED
      BY <3>2, <3>3
  <2> QED
    BY <2>1, <2>2, <2>3, <2>4, <2>5, <2>6 DEF Step, RemoveStep
<1>5. \A q \in Proc : Going(q)' /\ Gone(q)'
  BY <1>3, <1>4
<1>6. \A q \in Proc : named'[q] \subseteq Kind
  BY DataTypes DEF CredTypeOK
<1> QED
  BY <1>5, <1>6 DEF Removing, RemovedIsGone, RemovedUpTo

-----------------------------------------------------------------------------
(* StoredIsThere.                                                           *)

LEMMA StoredOthers ==
    ASSUME CredTypeOK, NEW p \in Proc, Step(p), NEW q \in Proc, q # p, Promising(q),
           q \notin written' \cup taken', NEW kinds \in SUBSET Kind, StoredUpTo(q, kinds)
    PROVE  StoredUpTo(q, kinds)'
BY OtherFrame, OtherSteps DEF StoredUpTo, Stores, Lost

\* What a call of store() has established when it is at a file.
Stage(q) ==
    /\ StoredUpTo(q, Earlier[at[q]])
    /\ pc[q] = "fill" => q \in held /\ file[at[q]] = Blank
    /\ pc[q] = "chmod" => file[at[q]] = key[q][at[q]]

\* A step of store() that goes on to the next file, having dealt with this one.
LEMMA StoreAdvances ==
    ASSUME CredTypeOK, Ready, NEW p \in Proc, Storing(p), Stage(p),
           Advance(p, "store", "stored"), UNCHANGED <<named, strayed, key, file>>,
           wide' => wide,
           Stores(p, at[p]) /\ ~Lost(p, at[p]) =>
             file[at[p]] = key[p][at[p]] /\ ~(at[p] = "private" /\ wide')
    PROVE  /\ Storing(p)' => Stage(p)'
           /\ told'[p] = "stored" => StoredUpTo(p, Kind)'
<1>1. at[p] \in Kind /\ told[p] = "none"
  BY DEF CredTypeOK, Ready, Storing
<1>2. \A k \in Earlier[at[p]] \cup {at[p]} : Stores(p, k) /\ ~Lost(p, k)
        => file'[k] = key'[p][k] /\ ~(k = "private" /\ wide')
  BY DEF Stage, StoredUpTo
<1>3. CASE at[p] = "certificate"
  <2>1. pc'[p] = "idle" /\ told'[p] = "stored"
    BY <1>3 DEF Advance, Return, Goto, CredTypeOK
  <2>2. StoredUpTo(p, Kind)'
    BY <1>2, <1>3, KindFacts DEF StoredUpTo, Stores, Lost
  <2> QED
    BY <2>1, <2>2 DEF Storing
<1>4. CASE at[p] # "certificate"
  <2>1. at'[p] = After[at[p]] /\ pc'[p] = "store" /\ told'[p] = "none"
    BY <1>1, <1>4 DEF Advance, Goto, CredTypeOK
  <2>2. Earlier[at'[p]] = Earlier[at[p]] \cup {at[p]}
    BY <1>1, <1>4, <2>1, KindFacts
  <2>3. StoredUpTo(p, Earlier[at[p]])'
    BY <1>2, <2>2 DEF StoredUpTo, Stores, Lost
  <2> QED
    BY <2>1, <2>3 DEF Stage
<1> QED
  BY <1>3, <1>4

\* A step of store() that stays with its file.
LEMMA StoreStays ==
    ASSUME CredTypeOK, NEW p \in Proc, Storing(p), Stage(p), NEW l, Stay(p, l),
           UNCHANGED <<named, strayed, key>>,
           \A k \in Kind \ {at[p]} : file'[k] = file[k],
           at[p] # "private" => wide' = wide
    PROVE  StoredUpTo(p, Earlier[at[p]])'
<1>1. at' = at /\ at[p] \in Kind
  BY DEF Stay, CredTypeOK
<1>2. /\ at[p] \notin Earlier[at[p]] /\ Earlier[at[p]] \subseteq Kind
      /\ at[p] = "private" => Earlier[at[p]] = {}
  BY <1>1, KindFacts
<1> QED
  BY <1>1, <1>2 DEF Stage, StoredUpTo, Stores, Lost

LEMMA StoredStep ==
    ASSUME CredTypeOK, Ready, Written, StoredIsThere, NEW p \in Proc, Step(p)
    PROVE  Written' /\ StoredIsThere'
<1> DEFINE Stored(q) == told[q] = "stored" => StoredUpTo(q, Kind)
           Kept(q) == q \notin written \cup taken => (Storing(q) => Stage(q)) /\ Stored(q)
<1>1. \A q \in Proc : Kept(q)
  BY DEF Written, StoredIsThere, StoredUpTo, Stage
<1>2. \A q \in Proc : Earlier[at[q]] \in SUBSET Kind /\ at[q] \in Kind
  BY KindFacts DEF CredTypeOK
<1>3. ASSUME NEW q \in Proc, q # p, q \notin written' \cup taken'
      PROVE  (Storing(q)' => Stage(q)') /\ Stored(q)'
  <2>1. /\ pc'[q] = pc[q] /\ at'[q] = at[q] /\ told'[q] = told[q] /\ key'[q] = key[q]
        /\ q \notin written \cup taken
    BY <1>3, OtherFrame, OtherSteps
  <2>2. CASE ~Promising(q)
    BY <2>1, <2>2 DEF Promising, Storing
  <2>3. CASE Promising(q)
    <3>1. /\ \A k \in Kind : file'[k] = file[k]
          /\ q \in held => q \in held'
      BY <1>3, <2>3, OtherSteps
    <3>2. Storing(q)' => Storing(q)
      BY <2>1 DEF Storing
    <3>3. Storing(q) => StoredUpTo(q, Earlier[at[q]])'
      <4>1. Storing(q) => StoredUpTo(q, Earlier[at[q]])
        BY <1>1, <2>1 DEF Stage
      <4> HIDE DEF Storing
      <4>2. \A kinds \in SUBSET Kind : StoredUpTo(q, kinds) => StoredUpTo(q, kinds)'
        BY <1>3, <2>3, StoredOthers
      <4> QED
        BY <1>2, <2>1, <4>1, <4>2
    <3>4. Stored(q)'
      BY <1>1, <1>3, <2>1, <2>3, StoredOthers
    <3>5. Storing(q) => Stage(q)'
      BY <1>1, <1>2, <2>1, <3>1, <3>3 DEF Stage
    <3> QED
      BY <3>2, <3>4, <3>5
  <2> QED
    BY <2>2, <2>3
<1>4. ASSUME p \notin written' \cup taken'
      PROVE  (Storing(p)' => Stage(p)') /\ Stored(p)'
  <2> USE DEF Goto, Stay, Return
  <2>1. CASE Call(p)
    <3>1. at'[p] = "private" /\ pc'[p] \in {"store", "load", "check"} /\ told'[p] = "none"
      BY <2>1 DEF Call, CredTypeOK, Ready
    <3>2. StoredUpTo(p, Earlier[at[p]])'
      BY <3>1, KindFacts DEF StoredUpTo
    <3> QED
      BY <3>1, <3>2 DEF Stage
  <2>2. CASE Generate(p)
    BY <2>2 DEF Generate, CredTypeOK, Storing
  <2>3. CASE StoreStep(p)
    <3>1. /\ p \notin written \cup taken /\ Storing(p) /\ told[p] = "none"
          /\ UNCHANGED <<named, strayed, key>>
      BY <1>4, <2>3 DEF StoreStep, SkipFile, StoreElsewhere, CheckDir, MakeDir, OpenFile,
         Fill, Chmod, StoreFails, Storing, object, history, Writes, Others, CredTypeOK, Ready
    <3>2. Stage(p)
      BY <1>1, <3>1
    <3>3. CASE SkipFile(p)
      BY <3>1, <3>2, <3>3, StoreAdvances DEF SkipFile, disk
    <3>4. CASE StoreElsewhere(p)
      <4>1. at[p] = "certificate" /\ UNCHANGED <<file, wide>> /\ pc'[p] = "idle"
        BY <3>4 DEF StoreElsewhere, Lost, disk, CredTypeOK
      <4>2. StoredUpTo(p, Kind)'
        BY <3>1, <3>2, <3>4, <4>1, KindFacts
           DEF Stage, StoredUpTo, Stores, Lost, StoreElsewhere
      <4> QED
        BY <4>1, <4>2 DEF Storing
    <3>5. CASE CheckDir(p) \/ MakeDir(p) \/ StoreFails(p)
      <4>1. CASE Return(p, "none")
        BY <4>1 DEF CredTypeOK, Storing
      <4>2. CASE \E l \in {"mkdir", "open"} : Stay(p, l)
        <5>1. UNCHANGED <<file, wide>>
          BY <3>5 DEF CheckDir, MakeDir, StoreFails, disk
        <5>2. StoredUpTo(p, Earlier[at[p]])'
          BY <3>1, <3>2, <4>2, <5>1, StoreStays
        <5> QED
          BY <3>1, <4>2, <5>2 DEF Stage, CredTypeOK
      <4> QED
        BY <3>5, <4>1, <4>2 DEF CheckDir, MakeDir, StoreFails
    <3>6. CASE OpenFile(p)
      <4>1. /\ Stay(p, "fill") /\ (at[p] # "private" => wide' = wide)
            /\ \A k \in Kind \ {at[p]} : file'[k] = file[k]
        BY <3>6 DEF OpenFile, CredTypeOK
      <4>2. StoredUpTo(p, Earlier[at[p]])'
        BY <3>1, <3>2, <4>1, StoreStays
      <4> QED
        BY <3>1, <3>6, <4>2 DEF OpenFile, Stage, CredTypeOK
    <3>7. CASE Fill(p)
      <4>1. p \in held /\ file[at[p]] = Blank
        BY <3>2, <3>7 DEF Fill, Stage
      <4>2. file' = [file EXCEPT ![at[p]] = key[p][at[p]]]
        BY <3>7, <4>1 DEF Fill
      <4>3. /\ Stay(p, "chmod") /\ wide' = wide
            /\ \A k \in Kind \ {at[p]} : file'[k] = file[k]
        BY <3>7, <4>2 DEF Fill, CredTypeOK
      <4>4. StoredUpTo(p, Earlier[at[p]])'
        BY <3>1, <3>2, <4>3, StoreStays
      <4> QED
        BY <3>1, <3>7, <4>2, <4>4 DEF Fill, Stage, CredTypeOK
    <3>8. CASE Chmod(p)
      <4>1. CASE Return(p, "none")
        BY <4>1 DEF CredTypeOK, Storing
      <4>2. CASE Advance(p, "store", "stored")
        <5>1. CASE file[at[p]] = None
          BY <3>8, <4>1, <5>1 DEF Chmod
        <5>2. CASE file[at[p]] # None
          <6>1. /\ wide' = (wide /\ at[p] # "private") /\ UNCHANGED file
                /\ file[at[p]] = key[p][at[p]]
            BY <3>2, <3>8, <5>2 DEF Chmod, Stage
          <6> QED
            BY <3>1, <3>2, <4>2, <6>1, StoreAdvances DEF CredTypeOK
        <5> QED
          BY <5>1, <5>2
      <4> QED
        BY <3>8, <4>1, <4>2 DEF Chmod
    <3> QED
      BY <2>3, <3>3, <3>4, <3>5, <3>6, <3>7, <3>8 DEF StoreStep
  <2>4. CASE LoadStep(p) \/ RemoveStep(p)
    <3>1. ~Storing(p)' /\ told'[p] # "stored"
      <4> USE DEF CredTypeOK, Ready, Storing, Advance
      <4>1. CASE LoadStep(p)
        BY <4>1 DEF LoadStep, LoadKey, LoadCertificate, LoadNothing
      <4>2. CASE RemoveStep(p)
        BY <4>2 DEF RemoveStep, CheckFile, Unlink, UnlinkFails
      <4> QED
        BY <2>4, <4>1, <4>2
    <3> QED
      BY <3>1
  <2> QED
    BY <2>1, <2>2, <2>3, <2>4 DEF Step
<1>5. \A q \in Proc : Kept(q)'
  BY <1>3, <1>4
<1> QED
  BY <1>5 DEF Written, StoredIsThere, StoredUpTo, Stage

-----------------------------------------------------------------------------
(* The theorems.                                                            *)

\* The parts hold together: no step of any method breaks one.
THEOREM Invariance == Spec => []IInv
<1>1. IInv /\ [Next]_vars => IInv'
  <2> SUFFICES ASSUME IInv, [Next]_vars PROVE IInv'
    OBVIOUS
  <2>1. ASSUME NEW p \in Proc, Step(p) PROVE IInv'
    <3>1. CredTypeOK' /\ Ready'
      BY <2>1, TypesStep, ReadyStep DEF IInv
    <3>2. KeyKeptPrivate'
      BY <2>1, PrivateStep DEF IInv
    <3>3. Racing' /\ RemoveFalseMeansRace'
      BY <2>1, RacingStep, RefusedStep DEF IInv
    <3>4. Removing' /\ RemovedIsGone'
      BY <2>1, RemovingStep DEF IInv
    <3>5. Written' /\ StoredIsThere'
      BY <2>1, StoredStep DEF IInv
    <3> QED
      BY <3>1, <3>2, <3>3, <3>4, <3>5 DEF IInv
  <2>2. CASE UNCHANGED vars
    <3> USE <2>2 DEF vars, disk, object, control, history
    <3>1. CredTypeOK' /\ Ready' /\ KeyKeptPrivate'
      BY DEF IInv, CredTypeOK, Ready, KeyKeptPrivate, Stores, Lost
    <3>2. Racing' /\ RemoveFalseMeansRace' /\ Removing' /\ RemovedIsGone'
      BY DEF IInv, Racing, RemoveFalseMeansRace, Removing, RemovedIsGone, RemovedUpTo, Lost
    <3>3. Written' /\ StoredIsThere'
      BY DEF IInv, Written, StoredIsThere, StoredUpTo, Storing, Stores, Lost
    <3> QED
      BY <3>1, <3>2, <3>3 DEF IInv
  <2> QED
    BY <2>1, <2>2 DEF Next
<1> QED
  BY <1>1, IInvInit, PTL DEF Spec

\* Every variable keeps its type; a file that is open under its name is there.
THEOREM SpecCredTypeOK == Spec => []CredTypeOK
BY Invariance, PTL DEF IInv

\* The private key is never left with the permissions of the umask unless a step
\* has failed: write() and chmod() of store() against every other call.
THEOREM SpecKeyKeptPrivate == Spec => []KeyKeptPrivate
BY Invariance, PTL DEF IInv

\* True from store() means that the files are there, whole and with their modes,
\* unless another process has written or removed one since the call began.
THEOREM SpecStoredIsThere == Spec => []StoredIsThere
BY Invariance, PTL DEF IInv

\* True from remove() means that no file that the object names is left, unless
\* another process has stored since the call began.
THEOREM SpecRemovedIsGone == Spec => []RemovedIsGone
BY Invariance, PTL DEF IInv

\* False from remove() means that another process was faster, or an error.
THEOREM SpecRemoveFalseMeansRace == Spec => []RemoveFalseMeansRace
BY Invariance, PTL DEF IInv
=============================================================================
