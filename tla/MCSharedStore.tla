------------------------------ MODULE MCSharedStore ------------------------------
EXTENDS SharedStore

Symmetry == Permutations(Procs)
=================================================================================
