---------------------------- MODULE MCMsgQueue ----------------------------
EXTENDS MsgQueue, TLC
Perms == Permutations(User) \cup Permutations(Block)
=============================================================================
