------------------------------- MODULE SFTPFile -------------------------------
(***************************************************************************)
(* SFTPFileHandle (deling/io/datastores/file.py) in the hands of a user,    *)
(* who opens a file of an SFTPStore and then seeks, reads, iterates and     *)
(* writes, while other stores use the same tree.  The offset is kept by the *)
(* client; a step is again one request to the server.                       *)
(*                                                                         *)
(* The store is busy with the handle: pc is "handle", or "end" if it was    *)
(* opened for writing and stands where fstat() has shown the end, or where  *)
(* it has written on from there; between fstat() and seek pc is "stat".  n  *)
(* is the offset, start the one that was sought last (or, in "stat", the    *)
(* size), got what was read or written since.                              *)
(***************************************************************************)
EXTENDS SFTPStore, Integers

CONSTANT Seeks      \* bound: the offsets that are given to seek

ASSUME SeeksAssumption == Seeks \subseteq Int

\* The file of the handle.
FileOf(s) == IF call[s].op = "rhandle" THEN src[s] ELSE dst[s]
Size(s) == Len(data[FileOf(s)])

InHand(s) == pc[s] \in {"handle", "end"}

FileTypeOK ==
    /\ TypeOK
    /\ \A s \in Store : InHand(s) \/ pc[s] = "stat" =>
         /\ call[s].op \in Handle
         /\ FileOf(s) # None
         /\ pc[s] = "end" => call[s].op = "whandle"

-----------------------------------------------------------------------------

OpenHandle(s) ==
    /\ pc[s] = "idle"
    /\ \E p \in work[s].paths, op \in Handle \cap work[s].ops :
         /\ call' = [call EXCEPT ![s] =
                       [op |-> op, path |-> p, to |-> p, absolute |-> FALSE]]
         /\ \/ /\ op = "rhandle" /\ IsFile(p)
               /\ src' = [src EXCEPT ![s] = node[p]]
               /\ UNCHANGED <<tree, dst, alone>>
            \/ op # "rhandle" /\ OpenOrCreate(s, p) /\ UNCHANGED src
    /\ Goto(s, "handle")
    /\ UNCHANGED <<n, got, start>>

Seek(s, offset, l) ==
    /\ offset \in 0..MaxBlocks
    /\ n' = [n EXCEPT ![s] = offset]
    /\ start' = [start EXCEPT ![s] = offset]
    /\ got' = [got EXCEPT ![s] = <<>>]
    /\ Goto(s, l)
    /\ UNCHANGED <<tree, call, src, dst, alone>>

\* seek(o, 0) and seek(o, 1): a negative offset raises and changes nothing.
SeekTo(s) ==
    /\ InHand(s)
    /\ \E o \in Seeks : Seek(s, o, "handle") \/ Seek(s, n[s] + o, "handle")

\* seek(o, 2): fstat() first.
Stat(s) ==
    /\ InHand(s)
    /\ start' = [start EXCEPT ![s] = Size(s)]
    /\ got' = [got EXCEPT ![s] = <<>>]
    /\ alone' = [alone EXCEPT ![s] = @ \/ call[s].op = "whandle"]
    /\ Goto(s, "stat")
    /\ UNCHANGED <<tree, call, n, src, dst>>

\* Mutant: the end is taken relative to where the handle stands.
SeekEnd_Relative(s) ==
    /\ pc[s] = "stat"
    /\ \E o \in Seeks :
         Seek(s, n[s] + o, IF o = 0 /\ call[s].op = "whandle" THEN "end" ELSE "handle")

SeekEnd(s) ==
    /\ pc[s] = "stat"
    /\ \E o \in Seeks :
         Seek(s, start[s] + o, IF o = 0 /\ call[s].op = "whandle" THEN "end" ELSE "handle")

\* Mutant: a read gives all that was asked for, or the offset goes on as if.
ReadPiece_Short(s) ==
    /\ pc[s] = "handle" /\ call[s].op = "rhandle"
    /\ \E k \in 1..(Size(s) - n[s]), asked \in 1..MaxBlocks :
         /\ k <= asked
         /\ got' = [got EXCEPT ![s] = @ \o SubSeq(data[src[s]], n[s] + 1, n[s] + k)]
         /\ n' = [n EXCEPT ![s] = @ + asked]
    /\ UNCHANGED <<tree, pc, call, src, dst, start, alone>>

\* One read of the server may give less than is there and was asked for.  read(n)
\* makes one; read() and the iterator, which never ends, go on until there is no more.
ReadPiece(s) ==
    /\ pc[s] = "handle" /\ call[s].op = "rhandle"
    /\ \E k \in 1..(Size(s) - n[s]) :
         /\ got' = [got EXCEPT ![s] = @ \o SubSeq(data[src[s]], n[s] + 1, n[s] + k)]
         /\ n' = [n EXCEPT ![s] = @ + k]
    /\ UNCHANGED <<tree, pc, call, src, dst, start, alone>>

\* The server appends to a file opened with "a", whatever the offset.  A write
\* behind the end would leave a hole, which is not modelled.
WritePiece(s) ==
    /\ InHand(s) /\ call[s].op # "rhandle"
    /\ Len(got[s]) < MaxData
    /\ LET b == <<s, Len(got[s]) + 1>>
           d == IF call[s].op = "ahandle" THEN Append(data[dst[s]], b)
                                          ELSE Overlay(data[dst[s]], n[s], b)
       IN  /\ call[s].op = "ahandle" \/ n[s] <= Size(s)
           /\ Len(d) <= MaxBlocks
           /\ data' = [data EXCEPT ![dst[s]] = d]
           /\ got' = [got EXCEPT ![s] = Append(@, b)]
    /\ Note(s, {<<IF call[s].op = "ahandle" THEN "append" ELSE "write", dst[s]>>})
    /\ n' = [n EXCEPT ![s] = @ + 1]
    /\ UNCHANGED <<node, pc, call, src, dst, start>>

\* close(), or the end of "with".
Close(s) == InHand(s) /\ End(s)

-----------------------------------------------------------------------------

FileNext ==
    \/ Next
    \/ /\ \E s \in Store :
            \/ OpenHandle(s) \/ Close(s)
            \/ SeekTo(s) \/ Stat(s) \/ SeekEnd(s)
            \/ ReadPiece(s) \/ WritePiece(s)
       /\ UNCHANGED work

FileSpec == Init /\ [][FileNext]_vars

-----------------------------------------------------------------------------
(* Properties of a handle, while the tree is used by others.                *)

\* What is read in pieces after a seek, however short a read comes back, is what
\* the file has there: no block is missed, and none is given twice, also if the
\* file grows, is renamed or is removed under the handle.
PiecesTile ==
    \A s \in Store :
        pc[s] = "handle" /\ call[s].op = "rhandle" /\ alone[s] /\ got[s] # <<>>
            => got[s] = SubSeq(data[src[s]], start[s] + 1, start[s] + Len(got[s]))

\* What is written after seek(0, 2) comes after all that the file had, and nothing
\* of that is overwritten, unless another store has written or appended to that file
\* since the fstat().
EndWriteKeeps ==
    \A s \in Store :
        pc[s] = "end" /\ alone[s]
            => SubSeq(data[dst[s]], start[s] + 1, Len(data[dst[s]])) = got[s]
=============================================================================
