-------------------------- MODULE MCReviewService --------------------------
EXTENDS ReviewService, TLC

\* Workers and commits are interchangeable; used in runs without liveness.
Symmetry == Permutations(Workers) \cup Permutations(Shas) \cup Permutations(Discussions)
              \cup Permutations(Notes)

\* A restart or an error outside a try block, not both.
OneFailure == budget.crashes + budget.faults >= MaxCrashes + MaxFaults - 1
=============================================================================
