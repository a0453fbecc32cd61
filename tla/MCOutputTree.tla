---------------------------- MODULE MCOutputTree ----------------------------
EXTENDS OutputTree, TLC

Symmetry == Permutations(Processes)
=============================================================================
