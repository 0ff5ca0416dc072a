---------------------------- MODULE MCCredentials ----------------------------
(* Instance of Credentials for TLC: an object that stores what it was given,  *)
(* and one that reads what it has not got.  They name no public key, whose    *)
(* file goes the way of the private one; gen_ssh_key_pair() still makes it.   *)
EXTENDS Credentials, TLC

Named == {"private", "certificate"}
MCGiven == {<<Named, Named>>, <<Named, {}>>}

\* Processes differ in nothing, nor do generations of keys.
Symmetry == Permutations(Proc) \cup Permutations(Value)
=============================================================================
