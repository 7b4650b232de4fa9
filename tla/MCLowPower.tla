----------------------------- MODULE MCLowPower -----------------------------
EXTENDS LowPower, TLC

Perms == Permutations(User)
=============================================================================
