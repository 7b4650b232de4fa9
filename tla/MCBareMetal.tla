---------------------------- MODULE MCBareMetal ----------------------------
EXTENDS BareMetal
=============================================================================
