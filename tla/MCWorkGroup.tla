---------------------------- MODULE MCWorkGroup ----------------------------
EXTENDS WorkGroup, TLC
Symmetry == Permutations(Sessions)
=============================================================================
