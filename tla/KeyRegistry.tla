----------------------------- MODULE KeyRegistry -----------------------------
(***************************************************************************)
(* What the two line files of the library, known_hosts and authorized_keys *)
(* (deling/authenticators/ssh.py), promise to several processes that edit  *)
(* them at the same time: a bag of lines on which adding one line and      *)
(* removing all the lines that mention some content are each ONE step, and *)
(* which loses a line in no other way unless the environment may fail.     *)
(* Once a caller has gone on without the lock, nothing is promised.        *)
(* KeyFile is the protocol that implements it.                             *)
(***************************************************************************)
EXTENDS Naturals

CONSTANTS
    Line,       \* the lines that may stand in the file
    Content,    \* what a caller may ask to have removed (an endpoint, a key)
    Mentions,   \* Mentions[c]: the lines that have c as a substring
    Lossy,      \* TRUE where a crash or an I/O error can interrupt an edit
    Lockless    \* TRUE where a lock can be refused, and the caller goes on

VARIABLES
    entries,    \* the bag of lines
    broken      \* a caller has gone on without the lock

\* The bag f with every line that mentions c taken out.
Without(f, c) == [l \in Line |-> IF l \in Mentions[c] THEN 0 ELSE f[l]]

Init == entries \in [Line -> Nat] /\ broken = FALSE

\* add_to_known_hosts, add_to_authorized: append one line.
Add(l) == entries' = [entries EXCEPT ![l] = @ + 1] /\ UNCHANGED broken

\* remove_from_known_hosts, remove_from_authorized.
Remove(c) == entries' = Without(entries, c) /\ UNCHANGED broken

\* An edit that was interrupted: some lines are gone, none has appeared.
Lose ==
    /\ Lossy
    /\ entries' \in [Line -> Nat]
    /\ \A l \in Line : entries'[l] <= entries[l]
    /\ UNCHANGED broken

\* A caller goes on without the lock; from then on edits may overlap.
Break ==
    /\ Lockless
    /\ broken' = TRUE
    /\ entries' \in [Line -> Nat]

Next ==
    \/ \E l \in Line : Add(l)
    \/ \E c \in Content : Remove(c)
    \/ Lose
    \/ Break

Spec == Init /\ [][Next]_<<entries, broken>>
=============================================================================
