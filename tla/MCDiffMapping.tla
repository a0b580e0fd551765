---------------------------- MODULE MCDiffMapping ----------------------------
EXTENDS DiffMapping, TLC

CONSTANTS p1, p2, p3

\* Files with plain names are interchangeable.
Symmetry == Permutations({p1, p2})
=============================================================================
