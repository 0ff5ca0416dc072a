------------------------------ MODULE SFTPStore ------------------------------
(***************************************************************************)
(* SFTPStore (deling/io/datastores/core.py) and the file handles under it   *)
(* (file.py): several stores, each with a connection of its own, that work  *)
(* on one remote tree.  A step is one request that the server carries out;  *)
(* the answer to the last one is a step of its own, and may be lost.        *)
(*                                                                         *)
(* A path is the sequence of its parts.  A file is a sequence of blocks: a  *)
(* request reads or writes one.  Every block tells who wrote it, and where  *)
(* it stood in what he wrote.                                               *)
(***************************************************************************)
EXTENDS Naturals, Sequences, FiniteSets, SequencesExt

CONSTANTS
    Store,      \* clients
    Path,       \* the paths that are used
    File,       \* identities of files, whatever their names
    MaxData,    \* bound: blocks of one write
    MaxBlocks,  \* bound: blocks of a file; then the server refuses
    Workloads,  \* bound: which methods each store calls, and on which paths
    Dir, None

\* A "..handle" is a file that the user has opened and works on himself: they are
\* in SFTPFile.
Handle == {"rhandle", "whandle", "ahandle"}
Op == {"read", "write", "append", "touch", "copy", "mkdir", "mkdirs", "rmdir", "rmdirs"}
        \cup Handle

\* The directories above a path are paths too: mkdir and rmdir go through its parts.
ASSUME PathAssumption ==
    \A p \in Path :
        /\ p \in Seq(STRING) \ {<<>>}
        /\ \A k \in 1..Len(p) : SubSeq(p, 1, k) \in Path
ASSUME FileAssumption == File \cap {Dir, None} = {} /\ Dir # None
ASSUME BoundAssumption == MaxData \in Nat /\ MaxBlocks \in Nat
ASSUME WorkloadsAssumption ==
    Workloads \subseteq [Store -> [ops : SUBSET Op, paths : SUBSET Path]]

VARIABLES
    node,       \* what each path is
    data,       \* the content of each file
    pc,         \* where the call of a store is
    call,       \* the method and its arguments
    n,          \* blocks written, the number of parts of the path at hand, or the
                \* offset of a handle
    src, dst,   \* open handles
    got,        \* blocks read so far, or blocks to write
    start,      \* history: blocks in the file that is read when it was opened; of
                \* a handle, the offset that was sought last
    alone,      \* history: no other store has disturbed the call
    work        \* the workload of this behaviour

tree == <<node, data>>
client == <<pc, call, n, src, dst, got, start, alone>>
vars == <<tree, client, work>>

Block == Store \X (1..MaxData)
Label == {"idle", "source", "target", "read", "write", "check", "make", "rmdir", "answer",
          "handle", "end", "stat"}

\* "to" is the path that is written; "absolute" matters to rmdirs only.
Calls == [op : Op, path : Path, to : Path, absolute : BOOLEAN]

Exists(p) == node[p] # None
IsDir(p) == p # <<>> => node[p] = Dir
IsFile(p) == node[p] \in File

\* Every entry is in a directory, and has a file of its own.
WellFormed ==
    /\ \A p \in Path : Exists(p) => IsDir(Front(p))
    /\ \A p, q \in Path : IsFile(p) /\ node[p] = node[q] => p = q

TypeOK ==
    /\ node \in [Path -> File \cup {Dir, None}]
    /\ data \in [File -> Seq(Block)]
    /\ \A f \in File : Len(data[f]) <= MaxBlocks
    /\ pc \in [Store -> Label]
    /\ \A s \in Store :
         IF pc[s] = "idle" THEN call[s] = None ELSE call[s] \in Calls
    /\ n \in [Store -> Nat]
    /\ src \in [Store -> File \cup {None}]
    /\ dst \in [Store -> File \cup {None}]
    /\ got \in [Store -> Seq(Block)]
    /\ \A s \in Store :
         /\ pc[s] = "write" => dst[s] # None /\ n[s] <= Len(got[s])
         /\ pc[s] \in {"check", "make"} => n[s] \in 1..Len(call[s].path)
         /\ pc[s] = "rmdir" => n[s] \in 0..Len(call[s].path)
    /\ start \in [Store -> 0..MaxBlocks]
    /\ alone \in [Store -> BOOLEAN]
    /\ work \in Workloads
    /\ WellFormed

Init ==
    /\ node = [p \in Path |-> None]
    /\ data = [f \in File |-> <<>>]
    /\ pc = [s \in Store |-> "idle"]
    /\ call = [s \in Store |-> None]
    /\ n = [s \in Store |-> 0]
    /\ src = [s \in Store |-> None]
    /\ dst = [s \in Store |-> None]
    /\ got = [s \in Store |-> <<>>]
    /\ start = [s \in Store |-> 0]
    /\ alone = [s \in Store |-> TRUE]
    /\ work \in Workloads

\* A deed is what a step has done to one file or to one path: it wrote or appended
\* to the file, it made an entry of that path or took it away.  These are the deeds
\* of others that a property of the call of t cannot stand.
Disturbs(t) ==
    LET p == call[t].path IN
    CASE call[t].op \in {"read", "rhandle"} -> {<<"write", src[t]>>}
      [] call[t].op = "write" ->
           {<<"write", dst[t]>>, <<"take", call[t].to>>}
      [] call[t].op = "copy" ->
           {<<"write", src[t]>>, <<"append", src[t]>>, <<"write", dst[t]>>,
            <<"take", call[t].to>>}
      [] call[t].op = "whandle" -> {<<"write", dst[t]>>, <<"append", dst[t]>>}
      [] call[t].op \in {"append", "touch", "ahandle"} ->
           {<<"write", dst[t]>>, <<"take", call[t].to>>}
      [] call[t].op \in {"mkdir", "mkdirs"} -> {<<"take", p>>}
      [] call[t].op = "rmdir" -> {<<"make", p>>}
      [] call[t].op = "rmdirs" -> {<<"make", SubSeq(p, 1, k)>> : k \in 1..Len(p)}

\* A step of s with these deeds is remembered by those whom it disturbs.
Note(s, deeds) ==
    alone' = [t \in Store |->
                /\ alone[t]
                /\ t # s /\ pc[t] # "idle" => deeds \cap Disturbs(t) = {}]

Goto(s, l) == pc' = [pc EXCEPT ![s] = l]

\* With these handles, somebody has the file open.
Held(f, sr, ds) == \E t \in Store : f \in {sr[t], ds[t]}

\* What is left of the files under these names and handles.
Kept(nd, sr, ds) ==
    [f \in File |-> IF Held(f, sr, ds) \/ \E p \in Path : nd[p] = f
                     THEN data[f] ELSE <<>>]

\* The call of s is over, its handles are closed.  A file that has no name is
\* gone when nobody has it open any more.
End(s) ==
    /\ Goto(s, "idle")
    /\ call' = [call EXCEPT ![s] = None]
    /\ n' = [n EXCEPT ![s] = 0]
    /\ src' = [src EXCEPT ![s] = None]
    /\ dst' = [dst EXCEPT ![s] = None]
    /\ got' = [got EXCEPT ![s] = <<>>]
    /\ start' = [start EXCEPT ![s] = 0]
    /\ alone' = [alone EXCEPT ![s] = TRUE]
    /\ data' = Kept(node, src', dst')
    /\ UNCHANGED node

-----------------------------------------------------------------------------
(* Calls.                                                                   *)

Begin(s, c, l) ==
    /\ pc[s] = "idle"
    /\ c.op \in work[s].ops /\ {c.path, c.to} \subseteq work[s].paths
    /\ Goto(s, l)
    /\ call' = [call EXCEPT ![s] = c]
    /\ UNCHANGED <<tree, src, dst, start, alone>>

\* read, download; copy.
BeginRead(s) ==
    /\ \E p, q \in Path :
         \/ Begin(s, [op |-> "read", path |-> p, to |-> p, absolute |-> FALSE], "source")
         \/ Begin(s, [op |-> "copy", path |-> p, to |-> q, absolute |-> FALSE], "source")
    /\ UNCHANGED <<n, got>>

\* write, upload; append; touch appends nothing.
BeginWrite(s) ==
    /\ \E p \in Path, op \in {"write", "append", "touch"}, k \in 0..MaxData :
         /\ op = "touch" => k = 0
         /\ Begin(s, [op |-> op, path |-> p, to |-> p, absolute |-> FALSE], "target")
         /\ got' = [got EXCEPT ![s] = [i \in 1..k |-> <<s, i>>]]
    /\ UNCHANGED n

\* mkdir: split_path is the whole path, or each of its parts in turn.
BeginMkdir(s) ==
    /\ \E p \in Path, op \in {"mkdir", "mkdirs"} :
         /\ Begin(s, [op |-> op, path |-> p, to |-> p, absolute |-> FALSE], "check")
         /\ n' = [n EXCEPT ![s] = IF op = "mkdir" THEN Len(p) ELSE 1]
    /\ UNCHANGED got

BeginRmdir(s) ==
    /\ \E p \in Path, op \in {"rmdir", "rmdirs"}, a \in BOOLEAN :
         /\ a => op = "rmdirs"
         /\ Begin(s, [op |-> op, path |-> p, to |-> p, absolute |-> a], "rmdir")
         /\ n' = [n EXCEPT ![s] = Len(p)]
    /\ UNCHANGED got

-----------------------------------------------------------------------------
(* Files.                                                                   *)

\* open(path, "r")
OpenSource(s) ==
    /\ pc[s] = "source" /\ IsFile(call[s].path)
    /\ LET f == node[call[s].path] IN
         /\ src' = [src EXCEPT ![s] = f]
         /\ start' = [start EXCEPT ![s] = Len(data[f])]
    /\ Goto(s, IF call[s].op = "copy" THEN "target" ELSE "read")
    /\ UNCHANGED <<tree, call, n, dst, got, alone>>

Unused == {f \in File : ~Held(f, src, dst) /\ \A p \in Path : node[p] # f}

\* open(path, "w") and open(path, "a"): a file that is there is kept as it is.
OpenOrCreate(s, p) ==
    /\ \/ /\ IsFile(p)
          /\ dst' = [dst EXCEPT ![s] = node[p]]
          /\ UNCHANGED <<node, alone>>
       \/ /\ ~Exists(p) /\ IsDir(Front(p)) /\ Unused # {}
          /\ LET f == CHOOSE f \in Unused : TRUE IN
               /\ node' = [node EXCEPT ![p] = f]
               /\ dst' = [dst EXCEPT ![s] = f]
          /\ Note(s, {<<"make", p>>})
    /\ UNCHANGED data

OpenTarget(s) ==
    /\ pc[s] = "target"
    /\ OpenOrCreate(s, call[s].to)
    /\ Goto(s, IF call[s].op = "copy" THEN "read" ELSE "write")
    /\ UNCHANGED <<call, n, src, got, start>>

\* Where a read goes on at its end.
AfterRead(s) == Goto(s, IF call[s].op = "copy" THEN "write" ELSE "answer")

\* Mutant: one read is taken for all of the file.
ReadBlock_Once(s) ==
    /\ pc[s] = "read" /\ Len(got[s]) < Len(data[src[s]])
    /\ got' = [got EXCEPT ![s] = Append(@, data[src[s]][Len(@) + 1])]
    /\ AfterRead(s)
    /\ UNCHANGED <<tree, call, n, src, dst, start, alone>>

\* A turn of the loop in read_binary.
ReadBlock(s) ==
    /\ pc[s] = "read" /\ Len(got[s]) < Len(data[src[s]])
    /\ got' = [got EXCEPT ![s] = Append(@, data[src[s]][Len(@) + 1])]
    /\ UNCHANGED <<tree, pc, call, n, src, dst, start, alone>>

ReadEnd(s) ==
    /\ pc[s] = "read" /\ Len(got[s]) >= Len(data[src[s]])
    /\ AfterRead(s)
    /\ UNCHANGED <<tree, call, n, src, dst, got, start, alone>>

\* d with block b in the place after the first k.
Overlay(d, k, b) == [i \in 1..(IF k < Len(d) THEN Len(d) ELSE k + 1) |->
                        IF i = k + 1 THEN b ELSE d[i]]

\* Mutant: what is appended is written where the file ended at first.
WriteBlock_Offset(s) ==
    /\ pc[s] = "write" /\ n[s] < Len(got[s])
    /\ LET b == got[s][n[s] + 1]
           d == Overlay(data[dst[s]], n[s], b)
       IN  /\ Len(d) <= MaxBlocks
           /\ data' = [data EXCEPT ![dst[s]] = d]
           /\ Note(s, {<<IF call[s].op = "append" THEN "append" ELSE "write", dst[s]>>})
    /\ n' = [n EXCEPT ![s] = @ + 1]
    /\ UNCHANGED <<node, pc, call, src, dst, got, start>>

\* Mutant: every write goes to the end of the file.
WriteBlock_Appends(s) ==
    /\ pc[s] = "write" /\ n[s] < Len(got[s])
    /\ LET b == got[s][n[s] + 1]
           d == Append(data[dst[s]], b)
       IN  /\ Len(d) <= MaxBlocks
           /\ data' = [data EXCEPT ![dst[s]] = d]
           /\ Note(s, {<<IF call[s].op = "append" THEN "append" ELSE "write", dst[s]>>})
    /\ n' = [n EXCEPT ![s] = @ + 1]
    /\ UNCHANGED <<node, pc, call, src, dst, got, start>>

\* The server appends to a file opened with "a", and else writes at the offset
\* of the handle, over what is there.
WriteBlock(s) ==
    /\ pc[s] = "write" /\ n[s] < Len(got[s])
    /\ LET b == got[s][n[s] + 1]
           d == IF call[s].op = "append" THEN Append(data[dst[s]], b)
                                         ELSE Overlay(data[dst[s]], n[s], b)
       IN  /\ Len(d) <= MaxBlocks
           /\ data' = [data EXCEPT ![dst[s]] = d]
           /\ Note(s, {<<IF call[s].op = "append" THEN "append" ELSE "write", dst[s]>>})
    /\ n' = [n EXCEPT ![s] = @ + 1]
    /\ UNCHANGED <<node, pc, call, src, dst, got, start>>

WriteEnd(s) ==
    /\ pc[s] = "write" /\ n[s] = Len(got[s])
    /\ Goto(s, "answer")
    /\ UNCHANGED <<tree, call, n, src, dst, got, start, alone>>

-----------------------------------------------------------------------------
(* Directories.                                                             *)

Part(s) == SubSeq(call[s].path, 1, n[s])

\* Mutant: the loop goes on beyond the last part.
NextPart_TooFar(s) ==
    IF n[s] <= Len(call[s].path)
    THEN Goto(s, "check") /\ n' = [n EXCEPT ![s] = @ + 1]
    ELSE Goto(s, "answer") /\ UNCHANGED n

\* The loop of mkdir goes on to the next part.
NextPart(s) ==
    IF n[s] < Len(call[s].path)
    THEN Goto(s, "check") /\ n' = [n EXCEPT ![s] = @ + 1]
    ELSE Goto(s, "answer") /\ UNCHANGED n

\* if not self.exists(current_path): what is there may be a file.
CheckPart(s) ==
    /\ pc[s] = "check"
    /\ IF Exists(Part(s)) THEN NextPart(s) ELSE Goto(s, "make") /\ UNCHANGED n
    /\ UNCHANGED <<tree, call, src, dst, got, start, alone>>

\* The parent is a directory, and nobody has made the entry meanwhile.
CanMake(p) == IsDir(Front(p)) /\ ~Exists(p)

\* Mutant: a failure of mkdir is not looked at.
MakePart_Ignores(s) ==
    /\ pc[s] = "make"
    /\ LET p == Part(s) IN
         \/ /\ CanMake(p)
            /\ node' = [node EXCEPT ![p] = Dir]
            /\ Note(s, {<<"make", p>>})
         \/ ~CanMake(p) /\ UNCHANGED <<node, alone>>
    /\ NextPart(s)
    /\ UNCHANGED <<data, call, src, dst, got, start>>

MakePart(s) ==
    /\ pc[s] = "make"
    /\ LET p == Part(s) IN
         \/ /\ CanMake(p)
            /\ node' = [node EXCEPT ![p] = Dir]
            /\ Note(s, {<<"make", p>>})
            /\ NextPart(s)
            /\ UNCHANGED <<data, call, src, dst, got, start>>
         \/ ~CanMake(p) /\ End(s)

Empty(p) == \A q \in Path : Exists(q) => Front(q) # p

\* Mutant: the parents are removed although the directory itself was not.
RemovePart_Ignores(s) ==
    /\ pc[s] = "rmdir"
    /\ LET p == Part(s) IN
         \/ /\ n[s] > 0 /\ IsDir(p) /\ Empty(p)
            /\ node' = [node EXCEPT ![p] = None]
            /\ Note(s, {<<"take", p>>})
         \/ /\ n[s] = 0 \/ ~IsDir(p)
            /\ UNCHANGED <<node, alone>>
    /\ IF call[s].op = "rmdirs" /\ n[s] > 1
       THEN n' = [n EXCEPT ![s] = @ - 1] /\ UNCHANGED pc
       ELSE Goto(s, "answer") /\ UNCHANGED n
    /\ UNCHANGED <<data, call, src, dst, got, start>>

\* rmdir removes a directory and then, when it is recursive, its parents.  After
\* the first part of an absolute path it goes on to "", which is no directory.
RemovePart(s) ==
    /\ pc[s] = "rmdir"
    /\ LET p == Part(s) IN
         \/ /\ n[s] > 0 /\ IsDir(p) /\ Empty(p)
            /\ node' = [node EXCEPT ![p] = None]
            /\ Note(s, {<<"take", p>>})
            /\ IF call[s].op = "rmdirs" /\ (n[s] > 1 \/ call[s].absolute)
               THEN n' = [n EXCEPT ![s] = @ - 1] /\ UNCHANGED pc
               ELSE Goto(s, "answer") /\ UNCHANGED n
            /\ UNCHANGED <<data, call, src, dst, got, start>>
         \/ /\ n[s] = 0 \/ ~IsDir(p) \/ ~Empty(p)
            /\ End(s)

-----------------------------------------------------------------------------
(* Single requests, answers and failures.                                   *)

\* remove(): the file lives on for those who have it open.
Unlink(s) ==
    /\ pc[s] = "idle"
    /\ \E p \in work[s].paths :
         /\ IsFile(p)
         /\ node' = [node EXCEPT ![p] = None]
         /\ Note(s, {<<"take", p>>})
    /\ data' = Kept(node', src, dst)
    /\ UNCHANGED <<pc, call, n, src, dst, got, start>>

\* rename: the server refuses a new name that exists.
Rename(s) ==
    /\ pc[s] = "idle"
    /\ \E p, q \in work[s].paths :
         LET old(r) == p \o SubSeq(r, Len(q) + 1, Len(r)) IN
         /\ Exists(p) /\ ~Exists(q) /\ IsDir(Front(q)) /\ ~IsPrefix(p, q)
         /\ \A r \in Path : IsPrefix(p, r) /\ Exists(r)
                => q \o SubSeq(r, Len(p) + 1, Len(r)) \in Path
         /\ node' = [r \in Path |->
                       IF IsPrefix(q, r) THEN IF old(r) \in Path THEN node[old(r)] ELSE None
                       ELSE IF IsPrefix(p, r) THEN None ELSE node[r]]
         /\ Note(s, {"take", "make"} \X {r \in Path : IsPrefix(p, r) \/ IsPrefix(q, r)})
    /\ UNCHANGED <<data, pc, call, n, src, dst, got, start>>

\* The method returns True, or what it has read.
Return(s) ==
    /\ pc[s] = "answer"
    /\ End(s)

\* The server refuses, or the connection breaks before or after it has done what
\* it was asked for: the call raises or returns False, and the store is made anew.
Fail(s) ==
    /\ pc[s] # "idle"
    /\ End(s)

-----------------------------------------------------------------------------

FileStep(s) ==
    \/ OpenSource(s) \/ OpenTarget(s)
    \/ ReadBlock(s) \/ ReadEnd(s)
    \/ WriteBlock(s) \/ WriteEnd(s)

DirStep(s) == CheckPart(s) \/ MakePart(s) \/ RemovePart(s)

Next ==
    /\ \E s \in Store :
         \/ BeginRead(s) \/ BeginWrite(s) \/ BeginMkdir(s) \/ BeginRmdir(s)
         \/ FileStep(s) \/ DirStep(s)
         \/ Unlink(s) \/ Rename(s)
         \/ Return(s) \/ Fail(s)
    /\ UNCHANGED work

Spec == Init /\ [][Next]_vars

-----------------------------------------------------------------------------
(* Properties, of a call that is about to return True.                      *)

Answers(s, op) == pc[s] = "answer" /\ call[s].op = op

\* The blocks of b are in d, in their order.
InOrder(b, d) ==
    \E f \in [1..Len(b) -> 1..Len(d)] :
        /\ \A i \in 1..Len(b) : d[f[i]] = b[i]
        /\ \A i, j \in 1..Len(b) : i < j => f[i] < f[j]

\* What was written is there under its name, from the start of the file, unless
\* another store has written to that file, or removed or renamed that name, during
\* the call; appends to the file, and whatever is done to others, do no harm.  A copy
\* is all of what was copied, if nobody has written or appended to that meanwhile.
WriteIsThere ==
    \A s \in Store :
        (Answers(s, "write") \/ Answers(s, "copy")) /\ alone[s]
            => /\ node[call[s].to] = dst[s]
               /\ IsPrefix(got[s], data[dst[s]])
               /\ call[s].op = "copy" => Len(got[s]) = Len(data[src[s]])

\* Stores that append to one file at the same time lose nothing to each other,
\* also when both have to create it, and also in pieces through a handle, whatever
\* the offset of that handle is, unless the file is written to or loses its name.
AppendsKept ==
    \A s \in Store :
        (Answers(s, "append") \/ (pc[s] = "handle" /\ call[s].op = "ahandle")) /\ alone[s]
            => node[call[s].to] = dst[s] /\ InOrder(got[s], data[dst[s]])

\* A read while others append, remove or rename gives the start of one file, and
\* no less than was there when it was opened.
ReadsPrefix ==
    \A s \in Store :
        Answers(s, "read") /\ alone[s]
            => IsPrefix(got[s], data[src[s]]) /\ Len(got[s]) >= start[s]

\* After a mkdir the path is there, and its parent is a directory, unless another
\* store has taken that path away, however many make the same path or its parents,
\* and whatever they remove beside it.
MkdirMakes ==
    \A s \in Store :
        (Answers(s, "mkdir") \/ Answers(s, "mkdirs")) /\ alone[s]
            => Exists(call[s].path) /\ IsDir(Front(call[s].path))

\* After an rmdir the path is gone, and after a recursive one all its parents,
\* unless another store has made one of them again.
RmdirRemoves ==
    \A s \in Store : alone[s] =>
        LET p == call[s].path IN
        /\ Answers(s, "rmdir") => ~Exists(p)
        /\ Answers(s, "rmdirs") => \A k \in 1..Len(p) : ~Exists(SubSeq(p, 1, k))

\* test_overwrite_file: what was written over a file is what is read from it.
WriteReplaces ==
    \A s \in Store :
        Answers(s, "write") /\ alone[s] /\ got[s] # <<>>
            => data[dst[s]] = got[s]
=============================================================================
