------------------------------ MODULE MCMemory ------------------------------
EXTENDS Memory, TLC
Sym == Permutations(Holders)
=============================================================================
