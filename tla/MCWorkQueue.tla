---------------------------- MODULE MCWorkQueue ----------------------------
EXTENDS WorkQueue

Perms == Permutations(Node)
=============================================================================
