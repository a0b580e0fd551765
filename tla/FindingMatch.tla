---------------------------- MODULE FindingMatch ----------------------------
(***************************************************************************)
(* When two findings are one (finding_match.py): findings_match compares   *)
(* places and texts, finding_fingerprint names a finding in the database   *)
(* and in the markers of its thread.  A text is the set of its tokens:     *)
(* words of [a-z0-9_] longer than two letters, in lower case, so that a    *)
(* text in another script has none.  A file is its path and the path in    *)
(* lower case, which is all that the fingerprint keeps of it.              *)
(***************************************************************************)
EXTENDS Integers, FiniteSets

IsFinding(f) ==
  /\ f.line \in Nat
  /\ IsFiniteSet(f.title)
  /\ IsFiniteSet(f.body)

Text(f) == f.title \cup f.body

\* _token_overlap(left, right) >= n / d.
OverlapReaches(left, right, n, d) ==
  /\ left # {} /\ right # {}
  /\ d * Cardinality(left \cap right) >= n * Cardinality(left \cup right)

Distance(m, n) == IF m < n THEN n - m ELSE m - n

FindingsMatch(left, right) ==
  LET sameFile == left.file = right.file
  IN \/ sameFile /\ left.line = right.line
     \/ left.title # {} /\ left.title = right.title
     \/ OverlapReaches(left.title, right.title, 6, 10)
     \/ /\ sameFile
        /\ Distance(left.line, right.line) <= 3
        /\ OverlapReaches(Text(left), Text(right), 28, 100)
     \/ /\ ~sameFile
        /\ OverlapReaches(left.title, right.title, 5, 10)
        /\ OverlapReaches(Text(left), Text(right), 4, 10)

Fingerprint(f) == <<f.file.folded, f.line, f.title, f.body>>

-----------------------------------------------------------------------------
\* What the models of publication and council take from it: the pairs of findings that match.
MatchingPairs(texts) ==
  {{x[1], x[2]} : x \in {y \in (DOMAIN texts) \X (DOMAIN texts) :
                           y[1] # y[2] /\ FindingsMatch(texts[y[1]], texts[y[2]])}}

=============================================================================
