--------------------------- MODULE MCThreadSched ---------------------------
EXTENDS ThreadSched, TLC
Perms == Permutations(User)
=============================================================================
