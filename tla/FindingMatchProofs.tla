------------------------- MODULE FindingMatchProofs -------------------------
(***************************************************************************)
(* What findings_match guarantees to its callers, for findings of any      *)
(* text: the order of its arguments does not matter, it recognizes what    *)
(* finding_fingerprint calls equal, and findings of different files need   *)
(* words of their titles in common.                                        *)
(***************************************************************************)
EXTENDS FindingMatch, FiniteSetTheorems, TLAPS

LEMMA OverlapIsSymmetric ==
  ASSUME NEW left, NEW right, NEW n, NEW d
  PROVE  OverlapReaches(left, right, n, d) <=> OverlapReaches(right, left, n, d)
<1>1. left \cap right = right \cap left /\ left \cup right = right \cup left
  OBVIOUS
<1> QED
  BY <1>1 DEF OverlapReaches

\* findings_match may be asked in either order (service.py and review_agent.py do both).
THEOREM MatchIsSymmetric ==
  ASSUME NEW left, NEW right, IsFinding(left), IsFinding(right),
         FindingsMatch(left, right)
  PROVE  FindingsMatch(right, left)
<1>1. Distance(left.line, right.line) = Distance(right.line, left.line)
  BY DEF Distance, IsFinding
<1>2. /\ OverlapReaches(left.title, right.title, 6, 10) => OverlapReaches(right.title, left.title, 6, 10)
      /\ OverlapReaches(left.title, right.title, 5, 10) => OverlapReaches(right.title, left.title, 5, 10)
      /\ OverlapReaches(Text(left), Text(right), 28, 100) => OverlapReaches(Text(right), Text(left), 28, 100)
      /\ OverlapReaches(Text(left), Text(right), 4, 10) => OverlapReaches(Text(right), Text(left), 4, 10)
  BY OverlapIsSymmetric
<1> QED
  BY <1>1, <1>2 DEF FindingsMatch

\* A finding that comes back with the same fingerprint is recognized by findings_match, but for
\* two files whose paths differ in case only and a title without a token.
THEOREM SameFingerprintMatches ==
  ASSUME NEW left, NEW right, Fingerprint(left) = Fingerprint(right),
         left.file = right.file \/ left.title # {}
  PROVE  FindingsMatch(left, right)
<1>1. left.line = right.line /\ left.title = right.title
  BY DEF Fingerprint
<1> QED
  BY <1>1 DEF FindingsMatch

\* Findings of different files are one only when their titles share a token: no number of
\* words in common in the bodies makes them so.
THEOREM OtherFilesNeedATitle ==
  ASSUME NEW left, NEW right, IsFinding(left), IsFinding(right),
         FindingsMatch(left, right), left.file # right.file
  PROVE  left.title \cap right.title # {}
<1>1. ASSUME left.title # {}, left.title = right.title
      PROVE  left.title \cap right.title # {}
  BY <1>1
<1>2. ASSUME NEW n \in Nat, NEW d \in Nat, n > 0,
             OverlapReaches(left.title, right.title, n, d)
      PROVE  left.title \cap right.title # {}
  <2>1. IsFiniteSet(left.title \cup right.title)
    BY FS_Union DEF IsFinding
  <2>2. Cardinality(left.title \cup right.title) \in Nat \ {0}
    <3>1. left.title \cup right.title # {}
      BY <1>2 DEF OverlapReaches
    <3> QED
      BY <2>1, <3>1, FS_CardinalityType, FS_EmptySet
  <2>3. SUFFICES ASSUME left.title \cap right.title = {}
                 PROVE  FALSE
    OBVIOUS
  <2>4. Cardinality(left.title \cap right.title) = 0
    BY <2>3, FS_EmptySet
  <2>5. d * 0 >= n * Cardinality(left.title \cup right.title)
    BY <1>2, <2>4 DEF OverlapReaches
  <2>6. n * Cardinality(left.title \cup right.title) > 0
    BY <2>2, <1>2
  <2> QED
    BY <2>5, <2>6, <2>2, <1>2
<1> QED
  BY <1>1, <1>2 DEF FindingsMatch
=============================================================================
