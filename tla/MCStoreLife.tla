----------------------------- MODULE MCStoreLife -----------------------------
(* Instance of StoreLife for TLC.  Objects of one kind differ in nothing. *)
EXTENDS StoreLife, TLC

Symmetry == Permutations(Sock) \cup Permutations(Sess)
=============================================================================
