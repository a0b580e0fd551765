----------------------------- MODULE MCRunStore -----------------------------
EXTENDS RunStore, TLC

\* The actions treat merge requests, commits and discussions alike.
Symmetry == Permutations(Mrs) \cup Permutations(Shas) \cup Permutations(Discussions)
=============================================================================
