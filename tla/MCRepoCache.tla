----------------------------- MODULE MCRepoCache -----------------------------
EXTENDS RepoCache, TLC

\* Workers are interchangeable; used in runs without liveness.
Symmetry == Permutations(Workers)

\* Of the webhooks at most one names no target: two that name none are treated
\* like one.
OneUnnamedTarget == Cardinality({k \in 1..Newest : commits[k].target = 0}) <= 1
=============================================================================
