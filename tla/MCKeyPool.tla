----------------------------- MODULE MCKeyPool -----------------------------
EXTENDS KeyPool, TLC

Symmetry == Permutations(Threads)
=============================================================================
