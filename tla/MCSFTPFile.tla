------------------------------ MODULE MCSFTPFile ------------------------------
(* Instance of SFTPFile, and of SFTPStore under it, for TLC: a directory with *)
(* an entry, and a name beside.                                              *)
EXTENDS SFTPFile, TLC

MCPath == {<<"d">>, <<"d", "e">>, <<"f">>}

Editing == [ops |-> {"read", "write", "append"}, paths |-> {<<"f">>}]
Copying == [ops |-> {"copy"}, paths |-> {<<"d">>, <<"f">>}]
Writing == [ops |-> {"write"}, paths |-> {<<"d">>}]
Tree == [ops |-> {"touch", "mkdir", "mkdirs", "rmdir", "rmdirs"}, paths |-> MCPath]
Handling == [ops |-> Handle, paths |-> {<<"f">>}]
Growing == [ops |-> {"append"}, paths |-> {<<"f">>}]
Moving == [ops |-> {}, paths |-> {<<"d">>, <<"f">>}]

\* One that does a, beside one that does b.
Pair(a, b) == {[s \in Store |-> IF s = t THEN a ELSE b] : t \in Store}

\* Two that use one file, one that copies what the other writes, two that make
\* and remove directories, a handle on a file that changes, and a file or a handle
\* beside a store that renames, removes, or writes to another file.
MCWorkloads ==
    Pair(Editing, Editing) \cup Pair(Copying, Writing) \cup Pair(Tree, Tree)
    \cup Pair(Handling, Growing)
    \cup Pair(Editing, Moving) \cup Pair(Handling, Moving)
    \cup Pair(Editing, Writing) \cup Pair(Handling, Writing)

MCSeeks == -1..2

\* The stores differ in nothing.
Symmetry == Permutations(Store)
=============================================================================
