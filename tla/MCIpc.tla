------------------------------- MODULE MCIpc -------------------------------
EXTENDS Ipc, TLC
Opts == EventOpt \ {[all |-> TRUE, keep |-> TRUE]}
Perms == Permutations(User)
=============================================================================
