----------------------------- MODULE Credentials -----------------------------
(***************************************************************************)
(* SSHCredentials.store(), load() and remove(), and gen_ssh_key_pair(), of  *)
(* several processes whose credentials name the same files in one directory *)
(* (deling/authenticators/ssh.py, with write, load, remove, chmod and       *)
(* makedirs of deling/utils/io.py).  Each of them goes through the private  *)
(* key, the public key and the certificate in turn, without any lock.       *)
(***************************************************************************)

CONSTANTS
    Proc,       \* processes, each with one SSHCredentials object
    Value,      \* what a key file may contain: a generation of keys
    Blank,      \* an empty file
    Torn,       \* the remains of two contents, one written over the other
    None,       \* no file, no content (None, False or ""), no name
    Given       \* the fields of objects: sets of kinds named, and of kinds held

ASSUME SpecialValues == None \notin Value \cup {Blank, Torn} /\ Blank \notin Value

Kind == {"private", "public", "certificate"}
ASSUME GivenAssumption == Given \subseteq (SUBSET Kind) \X (SUBSET Kind)

After == [private |-> "public", public |-> "certificate", certificate |-> "private"]

VARIABLES
    dirThere,   \* the directory exists
    file,       \* the content of each file
    wide,       \* the private key has the mode that the umask gave it
    named,      \* the kinds whose file name an object has
    strayed,    \* the objects whose certificate_file holds a certificate
    key,        \* the contents that an object holds
    pc,         \* where its call is: "store" ... "chmod" is store(), "check" and
                \* "unlink" are remove()
    at,         \* the kind of file that it deals with
    held,       \* the processes whose open file is the one that has the name
    told,       \* what the last call has told: that it stored, that it
                \* removed, or (by False) that it could not remove
    written,    \* history: another process has written since that call began
    taken,      \* history: another process has removed since it began
    failed      \* history: an I/O error or a death in a call

disk == <<dirThere, file, wide>>
object == <<named, strayed, key>>
control == <<pc, at, told>>
history == <<written, taken, failed>>
vars == <<disk, object, control, held, history>>

Content == Value \cup {Torn}

CredTypeOK ==
    /\ dirThere \in BOOLEAN
    /\ file \in [Kind -> Content \cup {Blank, None}]
    /\ wide \in BOOLEAN
    /\ named \in [Proc -> SUBSET Kind]
    /\ strayed \subseteq Proc
    /\ key \in [Proc -> [Kind -> Content \cup {None}]]
    /\ pc \in [Proc -> {"idle", "store", "mkdir", "open", "fill", "chmod",
                        "load", "check", "unlink"}]
    /\ at \in [Proc -> Kind]
    /\ held \subseteq Proc
    /\ told \in [Proc -> {"none", "stored", "removed", "refused"}]
    /\ written \subseteq Proc
    /\ taken \subseteq Proc
    /\ failed \in BOOLEAN
    /\ \A p \in held : pc[p] = "fill" /\ file[at[p]] # None
    /\ \A k \in Kind : file[k] # None => dirThere
    /\ wide => file["private"] # None

\* SSHCredentials(...): the names and the contents that a user may give.
Init ==
    /\ dirThere \in BOOLEAN
    /\ file = [k \in Kind |-> None]
    /\ wide = FALSE
    /\ \E given \in [Proc -> Given], own \in [Proc -> Value] :
         /\ named = [p \in Proc |-> given[p][1]]
         /\ key = [p \in Proc |-> [k \in Kind |->
                                     IF k \in given[p][2] THEN own[p] ELSE None]]
    /\ strayed = {}
    /\ pc = [p \in Proc |-> "idle"]
    /\ at = [p \in Proc |-> "private"]
    /\ held = {}
    /\ told = [p \in Proc |-> "none"]
    /\ written = {}
    /\ taken = {}
    /\ failed = FALSE

-----------------------------------------------------------------------------

Goto(p, l) == pc' = [pc EXCEPT ![p] = l]

Stay(p, l) == Goto(p, l) /\ UNCHANGED <<at, told>>

Return(p, what) ==
    /\ Goto(p, "idle")
    /\ at' = [at EXCEPT ![p] = "private"]
    /\ told' = [told EXCEPT ![p] = what]

\* On to the next kind of file, at label l, or to the end of the method.
Advance(p, l, what) ==
    IF at[p] = "certificate"
    THEN Return(p, what)
    ELSE Goto(p, l) /\ at' = [at EXCEPT ![p] = After[@]] /\ UNCHANGED told

\* The processes whose promise, made or in the making, a step of p may spoil.
Others(p) == {q \in Proc \ {p} : pc[q] \notin {"idle", "load"} \/ told[q] # "none"}
Writes(p) == written' = written \cup Others(p) /\ UNCHANGED <<taken, failed>>
Takes(p) == taken' = taken \cup Others(p) /\ UNCHANGED <<written, failed>>

\* The user calls store(), load() or remove(); store_credentials makes the
\* constructor call store() first.
Call(p) ==
    /\ pc[p] = "idle"
    /\ \E l \in {"store", "load", "check"} : Goto(p, l)
    /\ told' = [told EXCEPT ![p] = "none"]
    /\ written' = written \ {p}
    /\ taken' = taken \ {p}
    /\ UNCHANGED <<disk, object, at, held, failed>>

-----------------------------------------------------------------------------
(* store()                                                                  *)

\* The name of the certificate is a certificate: the path leads elsewhere.
Lost(p, k) == k = "certificate" /\ p \in strayed

Stores(p, k) == k \in named[p] /\ key[p][k] # None

SkipFile(p) ==
    /\ pc[p] = "store"
    /\ ~Stores(p, at[p])
    /\ Advance(p, "store", "stored")
    /\ UNCHANGED <<disk, object, held, history>>

\* Under such a name a file may be made or not.
StoreElsewhere(p) ==
    /\ pc[p] = "store"
    /\ Stores(p, at[p]) /\ Lost(p, at[p])
    /\ Return(p, "stored") \/ Return(p, "none")
    /\ UNCHANGED <<disk, object, held, history>>

\* write(): if not os.path.exists(dir_path)
CheckDir(p) ==
    /\ pc[p] = "store"
    /\ Stores(p, at[p]) /\ ~Lost(p, at[p])
    /\ Stay(p, IF dirThere THEN "open" ELSE "mkdir")
    /\ UNCHANGED <<disk, object, held, history>>

\* makedirs() returns False when another process has been faster.
MakeDir(p) ==
    /\ pc[p] = "mkdir"
    /\ IF dirThere THEN Return(p, "none") ELSE Stay(p, "open")
    /\ dirThere' = TRUE
    /\ UNCHANGED <<file, wide, object, held, history>>

\* Mutant: open(path, "r+"), which keeps what is in the file.
OpenFile_Keeps(p) ==
    /\ pc[p] = "open"
    /\ file' = [file EXCEPT ![at[p]] = IF @ = None THEN Blank ELSE @]
    /\ held' = held \cup {p}
    /\ Stay(p, "fill")
    /\ Writes(p)
    /\ UNCHANGED <<dirThere, wide, object>>

\* open(path, "w") empties the file, or creates it with what the umask gives.
OpenFile(p) ==
    /\ pc[p] = "open"
    /\ file' = [file EXCEPT ![at[p]] = Blank]
    /\ IF at[p] = "private" /\ file["private"] = None
       THEN wide' \in BOOLEAN
       ELSE UNCHANGED wide
    /\ held' = held \cup {p}
    /\ Stay(p, "fill")
    /\ Writes(p)
    /\ UNCHANGED <<dirThere, object>>

\* The content reaches the file that was opened, which may have lost its name,
\* or may have got another content meanwhile: a longer one keeps its end.
Fill(p) ==
    /\ pc[p] = "fill"
    /\ LET k == at[p]
           v == key[p][k]
           mixed == IF file[k] \in {Blank, v} THEN {} ELSE {Torn} IN
         IF p \in held
         THEN \E c \in {v} \cup mixed : file' = [file EXCEPT ![k] = c]
         ELSE UNCHANGED file
    /\ held' = held \ {p}
    /\ Stay(p, "chmod")
    /\ Writes(p)
    /\ UNCHANGED <<dirThere, wide, object>>

\* Mutant: only the other files get their modes.
Chmod_NotPrivate(p) ==
    /\ pc[p] = "chmod"
    /\ Advance(p, "store", "stored")
    /\ UNCHANGED <<disk, object, held, history>>

Chmod(p) ==
    /\ pc[p] = "chmod"
    /\ IF file[at[p]] = None
       THEN Return(p, "none") /\ UNCHANGED wide
       ELSE Advance(p, "store", "stored") /\ wide' = (wide /\ at[p] # "private")
    /\ UNCHANGED <<dirThere, file, object, held, history>>

\* Mutant: write() does not close the file when writing fails.
StoreFails_KeepsOpen(p) ==
    /\ pc[p] \in {"mkdir", "open", "fill", "chmod"}
    /\ Return(p, "none")
    /\ failed' = TRUE
    /\ UNCHANGED <<disk, object, held, written, taken>>

\* A step of store() fails: write() or chmod() prints the error, and store()
\* returns False with the files before this one written; or the process dies.
StoreFails(p) ==
    /\ pc[p] \in {"mkdir", "open", "fill", "chmod"}
    /\ Return(p, "none")
    /\ held' = held \ {p}
    /\ failed' = TRUE
    /\ UNCHANGED <<disk, object, written, taken>>

-----------------------------------------------------------------------------
(* load(), remove(), gen_ssh_key_pair()                                     *)

\* What load() of a key finds, or False, takes the place of what the object held.
LoadKey(p) ==
    /\ pc[p] = "load" /\ at[p] \in named[p] \ {"certificate"}
    /\ \E c \in {file[at[p]], None} \ {Blank} :
         key' = [key EXCEPT ![p][at[p]] = c]
    /\ Advance(p, "load", "none")
    /\ UNCHANGED <<disk, named, strayed, held, history>>

\* load() of the certificate gives the name of its file what the file contains:
\* later calls look for a file that has the certificate for its name, or for none.
LoadCertificate(p) ==
    /\ pc[p] = "load" /\ at[p] = "certificate" /\ at[p] \in named[p]
    /\ \/ /\ Lost(p, at[p]) \/ file[at[p]] \notin {Blank, None}
          /\ strayed' = strayed \cup {p}
          /\ UNCHANGED named
       \/ /\ strayed' = strayed \ {p}
          /\ named' = [named EXCEPT ![p] = @ \ {"certificate"}]
    /\ Return(p, "none")
    /\ UNCHANGED <<disk, key, held, history>>

LoadNothing(p) ==
    /\ pc[p] = "load" /\ at[p] \notin named[p]
    /\ Advance(p, "load", "none")
    /\ UNCHANGED <<disk, object, held, history>>

\* Mutant: only the keys are looked at.
CheckFile_KeysOnly(p) ==
    /\ pc[p] = "check"
    /\ IF at[p] \in named[p] \ {"certificate"} /\ file[at[p]] # None
       THEN Stay(p, "unlink")
       ELSE Advance(p, "check", "removed")
    /\ UNCHANGED <<disk, object, held, history>>

\* Mutant: remove() is called without exists(), and so returns False for a file
\* that has not been there.
CheckFile_Always(p) ==
    /\ pc[p] = "check"
    /\ IF at[p] \in named[p] /\ ~Lost(p, at[p])
       THEN Stay(p, "unlink")
       ELSE Advance(p, "check", "removed")
    /\ UNCHANGED <<disk, object, held, history>>

\* if exists(path)
CheckFile(p) ==
    /\ pc[p] = "check"
    /\ IF at[p] \in named[p] /\ ~Lost(p, at[p]) /\ file[at[p]] # None
       THEN Stay(p, "unlink")
       ELSE Advance(p, "check", "removed")
    /\ UNCHANGED <<disk, object, held, history>>

\* remove() returns False, and so does the method, if the file has gone meanwhile.
Unlink(p) ==
    /\ pc[p] = "unlink"
    /\ file' = [file EXCEPT ![at[p]] = None]
    /\ wide' = (wide /\ at[p] # "private")
    /\ held' = {q \in held : at[q] # at[p]}
    /\ IF file[at[p]] = None
       THEN Return(p, "refused") /\ UNCHANGED history
       ELSE Advance(p, "check", "removed") /\ Takes(p)
    /\ UNCHANGED <<dirThere, object>>

UnlinkFails(p) ==
    /\ pc[p] = "unlink"
    /\ Return(p, "refused")
    /\ failed' = TRUE
    /\ UNCHANGED <<disk, object, held, written, taken>>

\* ssh-keygen makes both files with their modes, and does not overwrite a
\* private key that is there.  Here it takes one step.
Generate(p) ==
    /\ pc[p] = "idle"
    /\ dirThere /\ file["private"] = None
    /\ \E v \in Value : file' = [file EXCEPT !["private"] = v, !["public"] = v]
    /\ told' = [told EXCEPT ![p] = "none"]
    /\ Writes(p)
    /\ UNCHANGED <<dirThere, wide, object, pc, at, held>>

-----------------------------------------------------------------------------

StoreStep(p) ==
    \/ SkipFile(p) \/ StoreElsewhere(p)
    \/ CheckDir(p) \/ MakeDir(p) \/ OpenFile(p) \/ Fill(p) \/ Chmod(p)
    \/ StoreFails(p)

LoadStep(p) == LoadKey(p) \/ LoadCertificate(p) \/ LoadNothing(p)

RemoveStep(p) == CheckFile(p) \/ Unlink(p) \/ UnlinkFails(p)

Step(p) == Call(p) \/ StoreStep(p) \/ LoadStep(p) \/ RemoveStep(p) \/ Generate(p)

Next == \E p \in Proc : Step(p)

Spec == Init /\ [][Next]_vars

-----------------------------------------------------------------------------
(* Properties                                                               *)

\* A private key that store() created with the permissions of the umask is never
\* left with them, whoever stores, removes and generates keys at the same time:
\* somebody is about to narrow them, as long as no step has failed.
KeyKeptPrivate ==
    ~failed /\ wide => \E p \in Proc : pc[p] \in {"fill", "chmod"} /\ at[p] = "private"

\* When store() returns True each content that the object holds is in its file,
\* whole, and the private key has its permissions, whatever failed before, unless
\* another process has written or removed a file since the call began.
StoredIsThere ==
    \A p \in Proc : told[p] = "stored" /\ p \notin written \cup taken =>
        \A k \in Kind : Stores(p, k) /\ ~Lost(p, k)
            => file[k] = key[p][k] /\ ~(k = "private" /\ wide)

\* When remove() returns True no file that the object names is left, however many
\* processes remove at the same time, unless one has stored since.  A certificate
\* whose name a load() has replaced is not among them: it stays.
RemovedIsGone ==
    \A p \in Proc : told[p] = "removed" /\ p \notin written =>
        \A k \in named[p] : Lost(p, k) \/ file[k] = None

\* remove() returns False, and stops before the other files, only when an unlink
\* has failed or another process has removed one of the files meanwhile.
RemoveFalseMeansRace ==
    \A p \in Proc : told[p] = "refused" => p \in taken \/ failed
=============================================================================
