---------------------------- MODULE MCLibraryScan ----------------------------
EXTENDS LibraryScan, TLC

\* Roots, paths and scan processes are interchangeable.  Idle refers to one
\* root and one path by CHOOSE, so roots and paths are not permuted.
Symmetry == Permutations(Scanner)
=============================================================================
