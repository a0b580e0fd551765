--------------------------- MODULE RunStoreProofs ---------------------------
(***************************************************************************)
(* The invariants of the work queue hold for every set of merge requests,  *)
(* commits and triggers and for any number of runs.                        *)
(***************************************************************************)
EXTENDS RunStore, TLAPS

\* UpsertMrState writes a well-formed row.
LEMMA UpsertType ==
  ASSUME TypeOK, NEW mr \in Mrs, NEW seen \in Shas, NEW reviewed \in ShaOrNull,
         NEW status \in MrStatuses, UpsertMrState(mr, seen, reviewed, status)
  PROVE  mr_state' \in [Mrs -> MrRow]
  BY DEF TypeOK, UpsertMrState, MrRow, ShaOrNull

\* InsertRun appends one well-formed row and closes the rows it supersedes.
LEMMA InsertType ==
  ASSUME TypeOK, NEW row \in Row, NEW superseded, superseded \subseteq RunIds,
         InsertRun(row, superseded)
  PROVE  /\ last_id' = last_id + 1
         /\ last_id' \in Nat
         /\ review_run' \in [RunIds' -> Row]
<1>1. /\ last_id' = last_id + 1
      /\ last_id' \in Nat
      /\ RunIds' = 1..(last_id + 1)
  <2>1. last_id' = last_id + 1
    BY DEF InsertRun
  <2> QED
    BY <2>1 DEF TypeOK, RunIds
<1>2. ASSUME NEW i \in 1..(last_id + 1), i # last_id + 1
      PROVE  [review_run[i] EXCEPT !.status = "superseded",
                                   !.superseded_by = last_id + 1] \in Row
  <2>1. review_run[i] \in Row
    BY <1>2 DEF TypeOK, RunIds
  <2> QED
    BY <2>1, <1>1 DEF Row, Terminal
<1>3. ASSUME NEW i \in 1..(last_id + 1), i # last_id + 1
      PROVE  review_run[i] \in Row
  BY <1>3 DEF TypeOK, RunIds
<1> QED
  BY <1>1, <1>2, <1>3 DEF InsertRun

\* Moving one row to another status keeps every row well formed.
LEMMA StatusType ==
  ASSUME TypeOK, NEW i \in RunIds, NEW s \in Active \cup Terminal
  PROVE  [review_run EXCEPT ![i].status = s] \in [RunIds -> Row]
<1>1. [review_run[i] EXCEPT !.status = s] \in Row
  <2>1. review_run[i] \in Row
    BY DEF TypeOK
  <2> QED
    BY <2>1 DEF Row
<1> QED
  BY <1>1 DEF TypeOK

LEMMA QueuedRowType ==
  ASSUME NEW mr \in Mrs, NEW kind \in Kinds, NEW sha \in Shas, NEW t \in Triggers
  PROVE  QueuedRow(mr, kind, sha, t) \in Row
  BY DEF QueuedRow, Row, Active

\* Well-formed tables stay well formed.
LEMMA TypeStep == TypeOK /\ [Next]_storeVars => TypeOK'
<1> SUFFICES ASSUME TypeOK, [Next]_storeVars PROVE TypeOK'
  OBVIOUS
<1>1. ASSUME NEW mr \in Mrs, NEW sha \in Shas, EnqueueFullReview(mr, sha)
      PROVE  TypeOK'
  <2>1. CASE DuplicateFull(mr, sha) # {}
    BY <1>1, <2>1, UpsertType DEF EnqueueFullReview, TypeOK, RunIds, MrStatuses, ShaOrNull
  <2>2. CASE DuplicateFull(mr, sha) = {}
    <3>1. NoTrigger \in Triggers
      BY DEF NoTrigger, Triggers
    <3>2. QueuedRow(mr, "full_review", sha, NoTrigger) \in Row
      BY <3>1, QueuedRowType DEF Kinds
    <3>3. ActiveRuns(mr) \subseteq RunIds
      BY DEF ActiveRuns, RunsOf
    <3>4. last_id' \in Nat /\ review_run' \in [RunIds' -> Row]
      BY <1>1, <2>2, <3>2, <3>3, InsertType DEF EnqueueFullReview
    <3>5. mr_state' \in [Mrs -> MrRow]
      BY <1>1, <2>2, UpsertType DEF EnqueueFullReview, MrStatuses, ShaOrNull
    <3> QED
      BY <3>4, <3>5 DEF TypeOK
  <2> QED
    BY <2>1, <2>2
<1>2. ASSUME NEW mr \in Mrs, NEW sha \in Shas, NEW t \in Triggers,
             EnqueueReconcile(mr, sha, t)
      PROVE  TypeOK'
  <2>1. CASE PendingFull(mr) # {}
    BY <1>2, <2>1 DEF EnqueueReconcile, TypeOK, RunIds, storeVars
  <2>2. CASE PendingFull(mr) = {}
    <3>1. QueuedRow(mr, "discussion_reconcile", sha, t) \in Row
      BY QueuedRowType DEF Kinds
    <3>2. ReconcilesReplacedBy(mr, t) \subseteq RunIds
      BY DEF ReconcilesReplacedBy, ActiveRuns, RunsOf
    <3>3. last_id' \in Nat /\ review_run' \in [RunIds' -> Row]
      BY <1>2, <2>2, <3>1, <3>2, InsertType DEF EnqueueReconcile
    <3>4. mr_state' \in [Mrs -> MrRow]
      BY <1>2, <2>2, UpsertType DEF EnqueueReconcile, MrStatuses, ShaOrNull
    <3> QED
      BY <3>3, <3>4 DEF TypeOK
  <2> QED
    BY <2>1, <2>2
<1>3. ASSUME NEW i \in RunIds, ClaimNextRun(i)
      PROVE  TypeOK'
  BY <1>3, StatusType DEF ClaimNextRun, TypeOK, RunIds, Active
<1>4. ASSUME NEW i \in RunIds, NEW sha \in ReviewedShas(i), MarkDone(i, sha)
      PROVE  TypeOK'
  <2>1. review_run[i] \in Row
    BY DEF TypeOK
  <2>2. review_run[i].mr \in Mrs /\ sha \in Shas
    BY <2>1, <1>4 DEF Row, ReviewedShas
  <2>3. CASE IsRunning(i)
    <3>1. mr_state' \in [Mrs -> MrRow]
      BY <1>4, <2>2, <2>3, UpsertType DEF MarkDone, MrStatuses, ShaOrNull
    <3> QED
      BY <1>4, <2>3, <3>1, StatusType DEF MarkDone, TypeOK, RunIds, Terminal
  <2> QED
    BY <1>4, <2>3 DEF MarkDone, TypeOK, RunIds, storeVars
<1>5. ASSUME NEW i \in RunIds, MarkFailed(i, review_run[i].source_sha)
      PROVE  TypeOK'
  <2>1. review_run[i] \in Row
    BY DEF TypeOK
  <2>2. review_run[i].mr \in Mrs /\ review_run[i].source_sha \in Shas
    BY <2>1 DEF Row
  <2>3. CASE IsRunning(i)
    <3>1. mr_state' \in [Mrs -> MrRow]
      BY <1>5, <2>2, <2>3, UpsertType DEF MarkFailed, MrStatuses, ShaOrNull
    <3> QED
      BY <1>5, <2>3, <3>1, StatusType DEF MarkFailed, TypeOK, RunIds, Terminal
  <2> QED
    BY <1>5, <2>3 DEF MarkFailed, TypeOK, RunIds, storeVars
<1>6. ASSUME NEW i \in RunIds, MarkSupersededIfRunning(i)
      PROVE  TypeOK'
  BY <1>6, StatusType DEF MarkSupersededIfRunning, TypeOK, RunIds, Terminal, storeVars
<1>7. CASE UNCHANGED storeVars
  BY <1>7 DEF storeVars, TypeOK, RunIds
<1> QED
  BY <1>1, <1>2, <1>3, <1>4, <1>5, <1>6, <1>7 DEF Next

\* The tables always have the shape of the schema.
THEOREM TypeCorrect == Spec => []TypeOK
<1>1. Init => TypeOK
  BY DEF Init, TypeOK, RunIds, MrRow, MrStatuses, ShaOrNull
<1> QED
  BY <1>1, TypeStep, PTL DEF Spec
-----------------------------------------------------------------------------
(***************************************************************************)
(* The three ways a step changes review_run.  Every invariant below is     *)
(* proved by these cases.                                                  *)
(***************************************************************************)

SameSubject(i) ==
  /\ review_run'[i].mr = review_run[i].mr
  /\ review_run'[i].kind = review_run[i].kind
  /\ review_run'[i].source_sha = review_run[i].source_sha
  /\ review_run'[i].trigger = review_run[i].trigger

\* The row after the last one is new, the rows in `superseded` end by it,
\* the others stay.
Inserts(mr, kind, sha, t, superseded) ==
  /\ last_id' = last_id + 1
  /\ review_run'[last_id'].mr = mr
  /\ review_run'[last_id'].kind = kind
  /\ review_run'[last_id'].source_sha = sha
  /\ review_run'[last_id'].trigger = t
  /\ review_run'[last_id'].status = "queued"
  /\ review_run'[last_id'].superseded_by = None
  /\ \A i \in RunIds \ superseded : review_run'[i] = review_run[i]
  /\ \A i \in superseded : /\ SameSubject(i)
                            /\ review_run'[i].status = "superseded"
                            /\ review_run'[i].superseded_by = last_id'

InsertsFull(mr, sha) ==
  /\ DuplicateFull(mr, sha) = {}
  /\ Inserts(mr, "full_review", sha, NoTrigger, ActiveRuns(mr))

InsertsReconcile(mr, sha, t) ==
  /\ PendingFull(mr) = {}
  /\ Inserts(mr, "discussion_reconcile", sha, t, ReconcilesReplacedBy(mr, t))

\* No row is new; a row that changes was active and changes its status only.
MovesStatus ==
  /\ last_id' = last_id
  /\ \A i \in RunIds :
       \/ review_run'[i] = review_run[i]
       \/ /\ SameSubject(i)
          /\ review_run'[i].superseded_by = review_run[i].superseded_by
          /\ review_run[i].status \in Active
          /\ review_run'[i].status \in Terminal \cup {"running"}
          /\ review_run'[i].status = "done" => review_run[i].status = "running"

LEMMA InsertRows ==
  ASSUME TypeOK, NEW mr \in Mrs, NEW kind \in Kinds, NEW sha \in Shas, NEW t \in Triggers,
         NEW superseded, superseded \subseteq RunIds,
         InsertRun(QueuedRow(mr, kind, sha, t), superseded)
  PROVE  Inserts(mr, kind, sha, t, superseded)
<1> DEFINE row == QueuedRow(mr, kind, sha, t)
           over(i) == [review_run[i] EXCEPT !.status = "superseded",
                                            !.superseded_by = last_id + 1]
<1>1. last_id' = last_id + 1 /\ last_id \in Nat
  BY DEF InsertRun, TypeOK
<1>2. review_run' = [i \in 1..(last_id + 1) |->
        IF i = last_id + 1 THEN row
        ELSE IF i \in superseded THEN over(i) ELSE review_run[i]]
  BY DEF InsertRun
<1> HIDE DEF row, over
<1>3. review_run'[last_id'] = row
  BY <1>1, <1>2
<1>4. ASSUME NEW i \in RunIds
      PROVE  review_run'[i] = IF i \in superseded THEN over(i) ELSE review_run[i]
  BY <1>1, <1>2, <1>4 DEF RunIds
<1>5. ASSUME NEW i \in superseded
      PROVE  /\ SameSubject(i)
             /\ review_run'[i].status = "superseded"
             /\ review_run'[i].superseded_by = last_id'
  <2>1. review_run[i] \in Row
    BY DEF TypeOK
  <2>2. review_run'[i] = [review_run[i] EXCEPT !.status = "superseded",
                                              !.superseded_by = last_id']
    BY <1>1, <1>4 DEF over
  <2> QED
    BY <2>1, <2>2 DEF SameSubject, Row
<1> QED
  BY <1>1, <1>3, <1>4, <1>5 DEF Inserts, row, QueuedRow

LEMMA MoveRow ==
  ASSUME TypeOK, NEW i \in RunIds, review_run[i].status \in Active,
         NEW s \in Terminal \cup {"running"}, last_id' = last_id,
         s = "done" => review_run[i].status = "running",
         review_run' = [review_run EXCEPT ![i].status = s]
  PROVE  MovesStatus
<1>1. review_run[i] \in Row
  BY DEF TypeOK
<1>2. review_run'[i] = [review_run[i] EXCEPT !.status = s]
  BY DEF TypeOK
<1>3. \A j \in RunIds : j # i => review_run'[j] = review_run[j]
  BY DEF TypeOK
<1> QED
  BY <1>1, <1>2, <1>3 DEF MovesStatus, SameSubject, Row

\* An accepted request inserts its row, another leaves the table alone.
LEMMA FullInserts ==
  ASSUME TypeOK, NEW mr \in Mrs, NEW sha \in Shas, EnqueueFullReview(mr, sha)
  PROVE  InsertsFull(mr, sha) \/ UNCHANGED <<last_id, review_run>>
<1>1. CASE DuplicateFull(mr, sha) # {}
  BY <1>1 DEF EnqueueFullReview
<1>2. CASE DuplicateFull(mr, sha) = {}
  <2>1. NoTrigger \in Triggers /\ ActiveRuns(mr) \subseteq RunIds
    BY DEF NoTrigger, Triggers, ActiveRuns, RunsOf
  <2> QED
    BY <1>2, <2>1, InsertRows DEF EnqueueFullReview, InsertsFull, Kinds
<1> QED
  BY <1>1, <1>2

LEMMA ReconcileInserts ==
  ASSUME TypeOK, NEW mr \in Mrs, NEW sha \in Shas, NEW t \in Triggers,
         EnqueueReconcile(mr, sha, t)
  PROVE  InsertsReconcile(mr, sha, t) \/ UNCHANGED storeVars
<1>1. CASE PendingFull(mr) # {}
  BY <1>1 DEF EnqueueReconcile
<1>2. CASE PendingFull(mr) = {}
  <2>1. ReconcilesReplacedBy(mr, t) \subseteq RunIds
    BY DEF ReconcilesReplacedBy, ActiveRuns, RunsOf
  <2> QED
    BY <1>2, <2>1, InsertRows DEF EnqueueReconcile, InsertsReconcile, Kinds
<1> QED
  BY <1>1, <1>2

LEMMA StepCases ==
  ASSUME TypeOK, [Next]_storeVars
  PROVE  \/ \E mr \in Mrs, sha \in Shas : InsertsFull(mr, sha)
         \/ \E mr \in Mrs, sha \in Shas, t \in Triggers : InsertsReconcile(mr, sha, t)
         \/ MovesStatus
<1>1. ASSUME NEW mr \in Mrs, NEW sha \in Shas, EnqueueFullReview(mr, sha)
      PROVE  InsertsFull(mr, sha) \/ MovesStatus
  BY <1>1, FullInserts DEF MovesStatus
<1>2. ASSUME NEW mr \in Mrs, NEW sha \in Shas, NEW t \in Triggers,
             EnqueueReconcile(mr, sha, t)
      PROVE  InsertsReconcile(mr, sha, t) \/ MovesStatus
  BY <1>2, ReconcileInserts DEF MovesStatus, storeVars
<1>3. ASSUME NEW i \in RunIds, ClaimNextRun(i)
      PROVE  MovesStatus
  BY <1>3, MoveRow DEF ClaimNextRun, Queued, Active
<1>4. ASSUME NEW i \in RunIds, NEW sha, MarkDone(i, sha)
      PROVE  MovesStatus
  <2>1. CASE IsRunning(i)
    BY <1>4, <2>1, MoveRow DEF MarkDone, IsRunning, Active, Terminal
  <2> QED
    BY <1>4, <2>1 DEF MarkDone, MovesStatus, storeVars
<1>5. ASSUME NEW i \in RunIds, NEW sha, MarkFailed(i, sha)
      PROVE  MovesStatus
  <2>1. CASE IsRunning(i)
    BY <1>5, <2>1, MoveRow DEF MarkFailed, IsRunning, Active, Terminal
  <2> QED
    BY <1>5, <2>1 DEF MarkFailed, MovesStatus, storeVars
<1>6. ASSUME NEW i \in RunIds, MarkSupersededIfRunning(i)
      PROVE  MovesStatus
  <2>1. CASE IsRunning(i)
    BY <1>6, <2>1, MoveRow DEF MarkSupersededIfRunning, IsRunning, Active, Terminal
  <2> QED
    BY <1>6, <2>1 DEF MarkSupersededIfRunning, MovesStatus, storeVars
<1>7. CASE UNCHANGED storeVars
  BY <1>7 DEF MovesStatus, storeVars
<1> QED
  BY <1>1, <1>2, <1>3, <1>4, <1>5, <1>6, <1>7 DEF Next

\* An old row keeps what it is about and is never queued again; a row that is
\* over never changes.
KeepsRow(i) ==
  /\ i \in RunIds'
  /\ SameSubject(i)
  /\ review_run'[i].status = "queued" => review_run[i].status = "queued"
  /\ review_run[i].status \in Terminal => review_run'[i] = review_run[i]

LEMMA OldRows ==
  ASSUME TypeOK, [Next]_storeVars, NEW i \in RunIds
  PROVE  KeepsRow(i)
<1>1. review_run[i] \in Row /\ last_id \in Nat
  BY DEF TypeOK
<1>2. ASSUME NEW mr, NEW kind, NEW sha, NEW t, NEW S, Inserts(mr, kind, sha, t, S),
             S \subseteq {j \in RunIds : review_run[j].status \in Active}
      PROVE  KeepsRow(i)
  <2>1. i \in RunIds'
    BY <1>1, <1>2 DEF Inserts, RunIds
  <2>2. CASE i \in S
    BY <1>2, <2>1, <2>2 DEF KeepsRow, Inserts, Active, Terminal
  <2>3. CASE i \notin S
    BY <1>2, <2>1, <2>3 DEF KeepsRow, Inserts, SameSubject
  <2> QED
    BY <2>2, <2>3
<1>3. ASSUME MovesStatus PROVE KeepsRow(i)
  BY <1>1, <1>3 DEF KeepsRow, MovesStatus, SameSubject, RunIds, Active, Terminal
<1>4. ASSUME NEW mr, NEW sha, InsertsFull(mr, sha) PROVE KeepsRow(i)
  BY <1>2, <1>4 DEF InsertsFull, ActiveRuns, RunsOf
<1>5. ASSUME NEW mr, NEW sha, NEW t, InsertsReconcile(mr, sha, t) PROVE KeepsRow(i)
  BY <1>2, <1>5 DEF InsertsReconcile, ReconcilesReplacedBy, ActiveRuns, RunsOf
<1> QED
  BY <1>3, <1>4, <1>5, StepCases

\* The ids after a step are the old ones and, after an insert, one more.
LEMMA NewIds ==
  ASSUME TypeOK, NEW i \in RunIds'
  PROVE  /\ last_id' = last_id => i \in RunIds
         /\ last_id' = last_id + 1 => i \in RunIds \/ i = last_id'
         /\ last_id' = last_id + 1 => \A j \in RunIds : j < last_id' /\ j # last_id'
  BY DEF TypeOK, RunIds
-----------------------------------------------------------------------------
\* TerminalRunIsFinal: no step changes a run that is over.
THEOREM TerminalRunsStay == Spec => TerminalRunIsFinal
<1>1. TypeOK /\ [Next]_storeVars =>
        [\A i \in RunIds : review_run[i].status \in Terminal
                             => review_run'[i] = review_run[i]]_storeVars
  BY OldRows DEF KeepsRow
<1> QED
  BY <1>1, TypeCorrect, PTL DEF Spec, TerminalRunIsFinal
-----------------------------------------------------------------------------
LEMMA AloneStep ==
  TypeOK /\ PendingFullIsAlone /\ [Next]_storeVars => PendingFullIsAlone'
<1> SUFFICES ASSUME TypeOK, PendingFullIsAlone, [Next]_storeVars,
                    NEW i \in RunIds',
                    review_run'[i].kind = "full_review", review_run'[i].status \in Active,
                    NEW j \in RunIds', j # i, review_run'[j].mr = review_run'[i].mr
             PROVE  j < i /\ review_run'[j].status \in Terminal
  BY DEF PendingFullIsAlone, PendingFull, FullRuns, ActiveRuns, RunsOf
<1> USE DEF Active, Terminal
<1>1. ASSUME NEW k \in RunIds, NEW l \in RunIds, l # k,
             review_run[k].kind = "full_review", review_run[k].status \in Active,
             review_run[l].mr = review_run[k].mr
      PROVE  l < k /\ review_run[l].status \in Terminal
  BY <1>1 DEF PendingFullIsAlone, PendingFull, FullRuns, ActiveRuns, RunsOf
<1>2. \A k \in RunIds : review_run[k] \in Row /\ KeepsRow(k)
  BY OldRows DEF TypeOK
<1>3. \A k \in RunIds : review_run'[k].status \in Active => review_run[k].status \in Active
  BY <1>2 DEF Row, KeepsRow
<1>4. ASSUME i \in RunIds, j \in RunIds
      PROVE  j < i /\ review_run'[j].status \in Terminal
  BY <1>1, <1>2, <1>3, <1>4 DEF KeepsRow, SameSubject
<1>5. ASSUME NEW mr \in Mrs, NEW sha \in Shas, InsertsFull(mr, sha)
      PROVE  j < i /\ review_run'[j].status \in Terminal
  <2>1. CASE i = last_id'
    <3>1. j \in RunIds /\ j < i
      BY <1>5, <2>1, NewIds DEF InsertsFull, Inserts
    <3>2. review_run[j].mr = mr
      BY <1>2, <1>5, <2>1, <3>1 DEF InsertsFull, Inserts, SameSubject, KeepsRow
    <3>3. review_run[j].status \in Active \cup Terminal
      BY <1>2, <3>1 DEF Row
    <3>4. CASE review_run[j].status \in Active
      <4>1. j \in ActiveRuns(mr)
        BY <3>1, <3>2, <3>4 DEF ActiveRuns, RunsOf
      <4> QED
        BY <1>2, <1>5, <3>1, <4>1 DEF InsertsFull, Inserts, Row
    <3> QED
      BY <1>2, <3>1, <3>3, <3>4 DEF KeepsRow, SameSubject
  <2>2. CASE i \in RunIds
    <3>1. review_run[i].mr # mr
      <4> SUFFICES ASSUME review_run[i].mr = mr PROVE FALSE
        OBVIOUS
      <4>1. i \in ActiveRuns(mr)
        BY <1>3, <2>2 DEF ActiveRuns, RunsOf
      <4> QED
        BY <1>2, <1>5, <2>2, <4>1 DEF InsertsFull, Inserts, Row
    <3>2. j # last_id'
      BY <1>2, <1>5, <2>2, <3>1 DEF InsertsFull, Inserts, SameSubject, KeepsRow
    <3> QED
      BY <1>4, <1>5, <2>2, <3>2, NewIds DEF InsertsFull, Inserts
  <2> QED
    BY <1>5, <2>1, <2>2, NewIds DEF InsertsFull, Inserts
<1>6. ASSUME NEW mr \in Mrs, NEW sha \in Shas, NEW t \in Triggers,
             InsertsReconcile(mr, sha, t)
      PROVE  j < i /\ review_run'[j].status \in Terminal
  <2>1. i # last_id'
    BY <1>6 DEF InsertsReconcile, Inserts
  <2>2. i \in RunIds
    BY <1>6, <2>1, NewIds DEF InsertsReconcile, Inserts
  <2>3. review_run[i].mr # mr
    BY <1>2, <1>3, <1>6, <2>2
       DEF InsertsReconcile, PendingFull, FullRuns, ActiveRuns, RunsOf, KeepsRow, SameSubject
  <2>4. j # last_id'
    BY <1>2, <1>6, <2>2, <2>3 DEF InsertsReconcile, Inserts, SameSubject, KeepsRow
  <2> QED
    BY <1>4, <1>6, <2>2, <2>4, NewIds DEF InsertsReconcile, Inserts
<1>7. ASSUME MovesStatus
      PROVE  j < i /\ review_run'[j].status \in Terminal
  BY <1>4, <1>7, NewIds DEF MovesStatus
<1> QED
  BY <1>5, <1>6, <1>7, StepCases

\* PendingFullIsAlone, for any number of runs.
THEOREM PendingFullAlone == Spec => []PendingFullIsAlone
<1>1. Init => PendingFullIsAlone
  BY DEF Init, PendingFullIsAlone, RunIds
<1> QED
  BY <1>1, AloneStep, TypeCorrect, PTL DEF Spec
-----------------------------------------------------------------------------
LEMMA OneFullStep ==
  TypeOK /\ OneFullReviewPerCommit /\ [Next]_storeVars => OneFullReviewPerCommit'
<1> DEFINE Over == {"failed", "superseded"}
<1> SUFFICES ASSUME TypeOK, OneFullReviewPerCommit, [Next]_storeVars,
                    NEW i \in RunIds', NEW j \in RunIds',
                    review_run'[i].kind = "full_review", review_run'[i].status \notin Over,
                    review_run'[j].kind = "full_review", review_run'[j].status \notin Over,
                    review_run'[i].mr = review_run'[j].mr,
                    review_run'[i].source_sha = review_run'[j].source_sha
             PROVE  i = j
  BY DEF OneFullReviewPerCommit, FullRuns, RunsOf
<1>1. ASSUME NEW k \in RunIds, NEW l \in RunIds,
             review_run[k].kind = "full_review", review_run[k].status \notin Over,
             review_run[l].kind = "full_review", review_run[l].status \notin Over,
             review_run[k].mr = review_run[l].mr,
             review_run[k].source_sha = review_run[l].source_sha
      PROVE  k = l
  <2>1. review_run[k].mr \in Mrs
    BY DEF TypeOK, Row
  <2> QED
    BY <1>1, <2>1 DEF OneFullReviewPerCommit, FullRuns, RunsOf
<1>2. \A k \in RunIds : review_run[k] \in Row /\ KeepsRow(k)
  BY OldRows DEF TypeOK
<1>3. \A k \in RunIds : review_run'[k].status \notin Over => review_run[k].status \notin Over
  BY <1>2 DEF Row, KeepsRow, Active, Terminal
<1>4. ASSUME i \in RunIds, j \in RunIds
      PROVE  i = j
  BY <1>1, <1>2, <1>3, <1>4 DEF KeepsRow, SameSubject
<1>5. ASSUME NEW mr \in Mrs, NEW sha \in Shas, InsertsFull(mr, sha)
      PROVE  i = j
  <2>1. ASSUME NEW k \in RunIds, review_run'[k].kind = "full_review",
               review_run'[k].status \notin Over, review_run'[k].mr = mr
        PROVE  review_run'[k].source_sha # sha
    BY <1>2, <1>3, <1>5, <2>1
       DEF InsertsFull, DuplicateFull, FullRuns, RunsOf, KeepsRow, SameSubject,
           Row, Active, Terminal
  <2>2. review_run'[last_id'].mr = mr /\ review_run'[last_id'].source_sha = sha
    BY <1>5 DEF InsertsFull, Inserts
  <2>3. (i \in RunIds \/ i = last_id') /\ (j \in RunIds \/ j = last_id')
    BY <1>5, NewIds DEF InsertsFull, Inserts
  <2> QED
    BY <1>4, <2>1, <2>2, <2>3
<1>6. ASSUME NEW mr \in Mrs, NEW sha \in Shas, NEW t \in Triggers,
             InsertsReconcile(mr, sha, t)
      PROVE  i = j
  <2>1. i # last_id' /\ j # last_id'
    BY <1>6 DEF InsertsReconcile, Inserts
  <2> QED
    BY <1>4, <1>6, <2>1, NewIds DEF InsertsReconcile, Inserts
<1>7. ASSUME MovesStatus PROVE i = j
  BY <1>4, <1>7, NewIds DEF MovesStatus
<1> QED
  BY <1>5, <1>6, <1>7, StepCases

\* OneFullReviewPerCommit, for any number of runs.
THEOREM OneFullReview == Spec => []OneFullReviewPerCommit
<1>1. Init => OneFullReviewPerCommit
  BY DEF Init, OneFullReviewPerCommit, FullRuns, RunsOf, RunIds
<1> QED
  BY <1>1, OneFullStep, TypeCorrect, PTL DEF Spec
-----------------------------------------------------------------------------
LEMMA OneReconcileStep ==
  TypeOK /\ OnePendingReconcilePerDiscussion /\ [Next]_storeVars
    => OnePendingReconcilePerDiscussion'
<1> SUFFICES ASSUME TypeOK, OnePendingReconcilePerDiscussion, [Next]_storeVars,
                    NEW i \in RunIds', NEW j \in RunIds',
                    review_run'[i].status \in Active, review_run'[j].status \in Active,
                    review_run'[i].mr = review_run'[j].mr,
                    review_run'[i].trigger.discussion # None,
                    review_run'[j].trigger.discussion = review_run'[i].trigger.discussion
             PROVE  i = j
  BY DEF OnePendingReconcilePerDiscussion, ActiveRuns, RunsOf
<1>1. ASSUME NEW k \in RunIds, NEW l \in RunIds,
             review_run[k].status \in Active, review_run[l].status \in Active,
             review_run[k].mr = review_run[l].mr,
             review_run[k].trigger.discussion # None,
             review_run[l].trigger.discussion = review_run[k].trigger.discussion
      PROVE  k = l
  <2>1. review_run[k].mr \in Mrs
    BY DEF TypeOK, Row
  <2> QED
    BY <1>1, <2>1 DEF OnePendingReconcilePerDiscussion, ActiveRuns, RunsOf
<1>2. \A k \in RunIds : review_run[k] \in Row /\ KeepsRow(k)
  BY OldRows DEF TypeOK
<1>3. \A k \in RunIds : review_run'[k].status \in Active => review_run[k].status \in Active
  BY <1>2 DEF Row, KeepsRow, Active, Terminal
<1>4. ASSUME i \in RunIds, j \in RunIds
      PROVE  i = j
  BY <1>1, <1>2, <1>3, <1>4 DEF KeepsRow, SameSubject
<1>5. ASSUME NEW mr \in Mrs, NEW sha \in Shas, InsertsFull(mr, sha)
      PROVE  i = j
  <2>1. i # last_id' /\ j # last_id'
    BY <1>5 DEF InsertsFull, Inserts, NoTrigger
  <2> QED
    BY <1>4, <1>5, <2>1, NewIds DEF InsertsFull, Inserts
<1>6. ASSUME NEW mr \in Mrs, NEW sha \in Shas, NEW t \in Triggers,
             InsertsReconcile(mr, sha, t)
      PROVE  i = j
  <2>1. ASSUME NEW k \in RunIds, review_run'[k].status \in Active,
               review_run'[k].mr = mr, t.discussion # None
        PROVE  review_run'[k].trigger.discussion # t.discussion
    <3> SUFFICES ASSUME review_run'[k].trigger.discussion = t.discussion PROVE FALSE
      OBVIOUS
    <3>1. k \in ActiveRuns(mr) /\ review_run[k].trigger.discussion = t.discussion
      BY <1>2, <1>3, <2>1 DEF ActiveRuns, RunsOf, KeepsRow, SameSubject
    <3>2. review_run[k].kind = "discussion_reconcile"
      BY <1>2, <1>6, <3>1 DEF InsertsReconcile, PendingFull, FullRuns, ActiveRuns, Row, Kinds
    <3>3. k \in ReconcilesReplacedBy(mr, t)
      BY <2>1, <3>1, <3>2 DEF ReconcilesReplacedBy, SameThread
    <3> QED
      BY <1>6, <2>1, <3>3 DEF InsertsReconcile, Inserts, Active
  <2>2. review_run'[last_id'].mr = mr /\ review_run'[last_id'].trigger = t
    BY <1>6 DEF InsertsReconcile, Inserts
  <2>3. (i \in RunIds \/ i = last_id') /\ (j \in RunIds \/ j = last_id')
    BY <1>6, NewIds DEF InsertsReconcile, Inserts
  <2> QED
    BY <1>4, <2>1, <2>2, <2>3
<1>7. ASSUME MovesStatus PROVE i = j
  BY <1>4, <1>7, NewIds DEF MovesStatus
<1> QED
  BY <1>5, <1>6, <1>7, StepCases

\* OnePendingReconcilePerDiscussion, for any number of runs and discussions.
THEOREM OnePendingReconcile == Spec => []OnePendingReconcilePerDiscussion
<1>1. Init => OnePendingReconcilePerDiscussion
  BY DEF Init, OnePendingReconcilePerDiscussion, ActiveRuns, RunsOf, RunIds
<1> QED
  BY <1>1, OneReconcileStep, TypeCorrect, PTL DEF Spec
-----------------------------------------------------------------------------
LEMMA SupersededStep ==
  TypeOK /\ SupersededByLaterRun /\ [Next]_storeVars => SupersededByLaterRun'
<1> SUFFICES ASSUME TypeOK, SupersededByLaterRun, [Next]_storeVars,
                    NEW i \in RunIds', NEW by, by = review_run'[i].superseded_by, by # None
             PROVE  /\ review_run'[i].status = "superseded"
                    /\ by \in RunIds'
                    /\ review_run'[by].mr = review_run'[i].mr
                    /\ i < by
                    /\ review_run'[i].kind = "full_review"
                         => review_run'[by].kind = "full_review"
  BY DEF SupersededByLaterRun, RunsOf
<1> DEFINE Goal ==
      /\ review_run'[i].status = "superseded"
      /\ by \in RunIds'
      /\ review_run'[by].mr = review_run'[i].mr
      /\ i < by
      /\ review_run'[i].kind = "full_review" => review_run'[by].kind = "full_review"
<1>2. \A k \in RunIds : review_run[k] \in Row /\ KeepsRow(k)
  BY OldRows DEF TypeOK
<1>3. ASSUME i \in RunIds, review_run[i].superseded_by = by
      PROVE  Goal
  <2>1. /\ review_run[i].status = "superseded"
        /\ by \in RunIds
        /\ review_run[by].mr = review_run[i].mr
        /\ i < by
        /\ review_run[i].kind = "full_review" => review_run[by].kind = "full_review"
    BY <1>3 DEF SupersededByLaterRun, RunsOf
  <2> QED
    BY <1>2, <1>3, <2>1 DEF KeepsRow, SameSubject, Terminal
<1>4. ASSUME NEW mr, NEW kind, NEW sha, NEW t, NEW S, Inserts(mr, kind, sha, t, S),
             S \subseteq ActiveRuns(mr),
             \A k \in S : review_run[k].kind = "full_review" => kind = "full_review"
      PROVE  Goal
  <2>1. i # last_id' /\ i \in RunIds
    BY <1>4, NewIds DEF Inserts
  <2>2. CASE i \in S
    <3>1. by = last_id' /\ review_run'[i].status = "superseded" /\ SameSubject(i)
      BY <1>4, <2>2 DEF Inserts
    <3>2. last_id' \in RunIds' /\ i < last_id'
      BY <1>4, <2>1 DEF Inserts, TypeOK, RunIds
    <3>3. review_run[i].mr = mr
      BY <1>4, <2>2 DEF ActiveRuns, RunsOf
    <3> QED
      BY <1>4, <2>2, <3>1, <3>2, <3>3 DEF Inserts, SameSubject
  <2>3. CASE i \notin S
    BY <1>3, <1>4, <2>1, <2>3 DEF Inserts
  <2> QED
    BY <2>2, <2>3
<1>5. ASSUME NEW mr \in Mrs, NEW sha \in Shas, InsertsFull(mr, sha)
      PROVE  Goal
  BY <1>4, <1>5 DEF InsertsFull
<1>6. ASSUME NEW mr \in Mrs, NEW sha \in Shas, NEW t \in Triggers,
             InsertsReconcile(mr, sha, t)
      PROVE  Goal
  BY <1>4, <1>6 DEF InsertsReconcile, ReconcilesReplacedBy
<1>7. ASSUME MovesStatus PROVE Goal
  BY <1>3, <1>7, NewIds DEF MovesStatus
<1> QED
  BY <1>5, <1>6, <1>7, StepCases

\* SupersededByLaterRun, for any number of runs.
THEOREM SupersededLater == Spec => []SupersededByLaterRun
<1>1. Init => SupersededByLaterRun
  BY DEF Init, SupersededByLaterRun, RunIds
<1> QED
  BY <1>1, SupersededStep, TypeCorrect, PTL DEF Spec
-----------------------------------------------------------------------------
\* FullReviewsFinishInOrder: a full review completes after every older one,
\* because no row of its merge request is newer while it is pending.
THEOREM FinishInOrder == Spec => FullReviewsFinishInOrder
<1>1. TypeOK /\ PendingFullIsAlone /\ [Next]_storeVars =>
        [\A i \in RunIds :
           review_run[i].status = "running" /\ review_run'[i].status = "done"
             /\ review_run[i].kind = "full_review"
           => \A j \in FullRuns(review_run[i].mr) :
                review_run[j].status = "done" => j < i]_storeVars
  BY DEF PendingFullIsAlone, PendingFull, FullRuns, ActiveRuns, RunsOf, Active
<1> QED
  BY <1>1, TypeCorrect, PendingFullAlone, PTL DEF Spec, FullReviewsFinishInOrder
-----------------------------------------------------------------------------
(***************************************************************************)
(* The table implements ReviewQueue.  Each operation of the store touches  *)
(* the rows of one merge request; what changes there is one action of the  *)
(* queue.  The refinement mapping picks a pending row with CHOOSE: it is   *)
(* the only one, by PendingFullIsAlone and OneReplyPerTrigger.             *)
(***************************************************************************)

OneReplyPerTrigger ==
  \A mr \in Mrs, t \in Triggers : \A i, j \in PendingReply(mr, t) : i = j

QueueInv == TypeOK /\ PendingFullIsAlone /\ OneReplyPerTrigger

LEMMA OnlyElement ==
  ASSUME NEW S, NEW x \in S, \A y \in S : y = x
  PROVE  (CHOOSE y \in S : TRUE) = x
  OBVIOUS

\* A pending full review is all there is to do, and it is the one in the queue.
LEMMA QueuedIs ==
  ASSUME QueueInv, NEW mr \in Mrs, NEW i \in PendingFull(mr)
  PROVE  /\ QueuedReview(mr) = [sha |-> review_run[i].source_sha, phase |-> review_run[i].status]
         /\ QueuedReview(mr) # NothingToReview
         /\ \A j \in RunsOf(mr) : j # i => review_run[j].status \in Terminal
<1>1. i \in RunIds /\ review_run[i].mr = mr /\ review_run[i].status \in Active
  BY DEF PendingFull, FullRuns, ActiveRuns, RunsOf
<1>2. \A j \in RunsOf(mr) : j # i => review_run[j].status \in Terminal
  BY <1>1 DEF QueueInv, PendingFullIsAlone
<1>3. \A j \in PendingFull(mr) : j = i
  BY <1>2 DEF PendingFull, FullRuns, ActiveRuns, RunsOf, Active, Terminal
<1>4. (CHOOSE j \in PendingFull(mr) : TRUE) = i
  BY <1>3, OnlyElement
<1>5. QueuedReview(mr) = [sha |-> review_run[i].source_sha, phase |-> review_run[i].status]
  BY <1>4 DEF QueuedReview
<1> QED
  BY <1>1, <1>2, <1>5 DEF NothingToReview, Active

LEMMA PhaseIs ==
  ASSUME QueueInv, NEW mr \in Mrs, NEW t \in Triggers, NEW i \in PendingReply(mr, t)
  PROVE  ReplyPhase(mr, t) = review_run[i].status
<1>1. (CHOOSE j \in PendingReply(mr, t) : TRUE) = i
  BY OnlyElement DEF QueueInv, OneReplyPerTrigger
<1> QED
  BY <1>1 DEF ReplyPhase

\* The same facts of the next state.
LEMMA QueuedBecomes ==
  ASSUME NEW mr \in Mrs, NEW i, PendingFull(mr)' = {i}
  PROVE  QueuedReview(mr)' = [sha |-> review_run'[i].source_sha, phase |-> review_run'[i].status]
<1>1. (CHOOSE j \in PendingFull(mr)' : TRUE) = i
  BY OnlyElement
<1> QED
  BY <1>1 DEF QueuedReview

LEMMA PhaseBecomes ==
  ASSUME NEW mr \in Mrs, NEW t \in Triggers, NEW i, PendingReply(mr, t)' = {i}
  PROVE  ReplyPhase(mr, t)' = review_run'[i].status
<1>1. (CHOOSE j \in PendingReply(mr, t)' : TRUE) = i
  BY OnlyElement
<1> QED
  BY <1>1 DEF ReplyPhase

\* Rows that stay mean the same to the queue.
LEMMA SameQueued ==
  ASSUME NEW mr \in Mrs, PendingFull(mr)' = PendingFull(mr),
         \A i \in PendingFull(mr) : review_run'[i] = review_run[i]
  PROVE  QueuedReview(mr)' = QueuedReview(mr)
<1>1. CASE PendingFull(mr) = {}
  BY <1>1 DEF QueuedReview, NothingToReview
<1>2. CASE PendingFull(mr) # {}
  <2>1. (CHOOSE i \in PendingFull(mr) : TRUE) \in PendingFull(mr)
    BY <1>2
  <2> QED
    BY <1>2, <2>1 DEF QueuedReview
<1> QED
  BY <1>1, <1>2

LEMMA SamePhase ==
  ASSUME NEW mr \in Mrs, NEW t \in Triggers, PendingReply(mr, t)' = PendingReply(mr, t),
         \A i \in PendingReply(mr, t) : review_run'[i] = review_run[i]
  PROVE  ReplyPhase(mr, t)' = ReplyPhase(mr, t)
<1>1. CASE PendingReply(mr, t) = {}
  BY <1>1 DEF ReplyPhase
<1>2. CASE PendingReply(mr, t) # {}
  <2>1. (CHOOSE i \in PendingReply(mr, t) : TRUE) \in PendingReply(mr, t)
    BY <1>2
  <2> QED
    BY <1>2, <2>1 DEF ReplyPhase
<1> QED
  BY <1>1, <1>2

\* Nothing a step does is seen by a merge request whose rows stay.
RowsStay(mr) ==
  RunsOf(mr)' = RunsOf(mr) /\ \A i \in RunsOf(mr) : review_run'[i] = review_run[i]

LEMMA QueueStays ==
  ASSUME NEW mr \in Mrs, RowsStay(mr)
  PROVE  /\ QueuedReview(mr)' = QueuedReview(mr)
         /\ ReviewedCommits(mr)' = ReviewedCommits(mr)
         /\ \A t \in Triggers : ReplyPhase(mr, t)' = ReplyPhase(mr, t)
<1>1. FullRuns(mr)' = FullRuns(mr) /\ ActiveRuns(mr)' = ActiveRuns(mr)
  BY DEF RowsStay, FullRuns, ActiveRuns
<1>2. /\ PendingFull(mr)' = PendingFull(mr) /\ PendingFull(mr) \subseteq RunsOf(mr)
      /\ FullRuns(mr) \subseteq RunsOf(mr) /\ ActiveRuns(mr) \subseteq RunsOf(mr)
  BY <1>1 DEF PendingFull, FullRuns, ActiveRuns
<1>3. \A t \in Triggers : PendingReply(mr, t)' = PendingReply(mr, t)
                          /\ PendingReply(mr, t) \subseteq RunsOf(mr)
  BY <1>1, <1>2 DEF PendingReply, RowsStay
<1>4. QueuedReview(mr)' = QueuedReview(mr)
  BY <1>2, SameQueued DEF RowsStay
<1>5. ReviewedCommits(mr)' = ReviewedCommits(mr)
  BY <1>1, <1>2 DEF ReviewedCommits, RowsStay
<1>6. \A t \in Triggers : ReplyPhase(mr, t)' = ReplyPhase(mr, t)
  BY <1>3, SamePhase DEF RowsStay
<1> QED
  BY <1>4, <1>5, <1>6

\* One row takes another status.
SetsStatus(i, s) ==
  /\ RunIds' = RunIds
  /\ SameSubject(i)
  /\ review_run'[i].status = s
  /\ \A j \in RunIds : j # i => review_run'[j] = review_run[j]

LEMMA OneRowMoves ==
  ASSUME TypeOK, NEW i \in RunIds, NEW s, last_id' = last_id,
         review_run' = [review_run EXCEPT ![i].status = s]
  PROVE  SetsStatus(i, s)
<1>1. review_run[i] \in Row
  BY DEF TypeOK
<1>2. review_run'[i] = [review_run[i] EXCEPT !.status = s]
  BY DEF TypeOK
<1>3. \A j \in RunIds : j # i => review_run'[j] = review_run[j]
  BY DEF TypeOK
<1> QED
  BY <1>1, <1>2, <1>3 DEF SetsStatus, SameSubject, Row, RunIds

\* What the operations of the store do to the rows, one by one.
LEMMA StepKinds ==
  ASSUME TypeOK, [Next]_storeVars
  PROVE  \/ \E mr \in Mrs, sha \in Shas : InsertsFull(mr, sha)
         \/ \E mr \in Mrs, sha \in Shas, t \in Triggers : InsertsReconcile(mr, sha, t)
         \/ \E i \in RunIds : ClaimNextRun(i) /\ SetsStatus(i, "running")
         \/ \E i \in RunIds, s \in Terminal : IsRunning(i) /\ SetsStatus(i, s)
         \/ UNCHANGED <<last_id, review_run>>
<1>1. ASSUME NEW mr \in Mrs, NEW sha \in Shas, EnqueueFullReview(mr, sha)
      PROVE  InsertsFull(mr, sha) \/ UNCHANGED <<last_id, review_run>>
  BY <1>1, FullInserts
<1>2. ASSUME NEW mr \in Mrs, NEW sha \in Shas, NEW t \in Triggers,
             EnqueueReconcile(mr, sha, t)
      PROVE  InsertsReconcile(mr, sha, t) \/ UNCHANGED <<last_id, review_run>>
  BY <1>2, ReconcileInserts DEF storeVars
<1>3. ASSUME NEW i \in RunIds, ClaimNextRun(i) PROVE SetsStatus(i, "running")
  BY <1>3, OneRowMoves DEF ClaimNextRun
<1>4. ASSUME NEW i \in RunIds, NEW sha, MarkDone(i, sha)
      PROVE  (IsRunning(i) /\ SetsStatus(i, "done")) \/ UNCHANGED <<last_id, review_run>>
  BY <1>4, OneRowMoves DEF MarkDone, storeVars
<1>5. ASSUME NEW i \in RunIds, NEW sha, MarkFailed(i, sha)
      PROVE  (IsRunning(i) /\ SetsStatus(i, "failed")) \/ UNCHANGED <<last_id, review_run>>
  BY <1>5, OneRowMoves DEF MarkFailed, storeVars
<1>6. ASSUME NEW i \in RunIds, MarkSupersededIfRunning(i)
      PROVE  (IsRunning(i) /\ SetsStatus(i, "superseded")) \/ UNCHANGED <<last_id, review_run>>
  BY <1>6, OneRowMoves DEF MarkSupersededIfRunning, storeVars
<1>7. {"done", "failed", "superseded"} \subseteq Terminal
  BY DEF Terminal
<1>8. CASE UNCHANGED storeVars
  BY <1>8 DEF storeVars
<1> QED
  BY <1>1, <1>2, <1>3, <1>4, <1>5, <1>6, <1>7, <1>8 DEF Next

\* A merge request that is not the one of the step keeps its rows.
LEMMA InsertStays ==
  ASSUME TypeOK, NEW mr \in Mrs, NEW kind, NEW sha, NEW t, NEW S,
         S \subseteq ActiveRuns(mr), Inserts(mr, kind, sha, t, S),
         NEW m \in Mrs, m # mr
  PROVE  RowsStay(m)
<1>1. RunIds' = RunIds \cup {last_id'} /\ last_id' \notin RunIds
  BY DEF Inserts, RunIds, TypeOK
<1>2. \A i \in S : review_run[i].mr = mr /\ review_run'[i].mr = mr
  BY DEF ActiveRuns, RunsOf, Inserts, SameSubject
<1>3. review_run'[last_id'].mr = mr /\ \A i \in RunIds \ S : review_run'[i] = review_run[i]
  BY DEF Inserts
<1>4. RunsOf(m)' = RunsOf(m)
  BY <1>1, <1>2, <1>3 DEF RunsOf
<1> QED
  BY <1>2, <1>3, <1>4 DEF RowsStay, RunsOf

LEMMA MoveStays ==
  ASSUME NEW i \in RunIds, NEW s, SetsStatus(i, s), NEW m \in Mrs, m # review_run[i].mr
  PROVE  RowsStay(m)
<1>1. RunsOf(m)' = RunsOf(m)
  BY DEF SetsStatus, SameSubject, RunsOf
<1> QED
  BY <1>1 DEF RowsStay, RunsOf, SetsStatus
-----------------------------------------------------------------------------
LEMMA OneReplyStep == QueueInv /\ [Next]_storeVars => OneReplyPerTrigger'
<1> SUFFICES ASSUME QueueInv, [Next]_storeVars, NEW mr \in Mrs, NEW t \in Triggers,
                    NEW i \in PendingReply(mr, t)', NEW j \in PendingReply(mr, t)'
             PROVE  i = j
  BY DEF OneReplyPerTrigger
<1>1. /\ i \in RunIds' /\ review_run'[i].mr = mr /\ review_run'[i].kind # "full_review"
      /\ review_run'[i].status \in Active /\ review_run'[i].trigger = t
  BY DEF PendingReply, ActiveRuns, FullRuns, RunsOf
<1>2. /\ j \in RunIds' /\ review_run'[j].mr = mr /\ review_run'[j].kind # "full_review"
      /\ review_run'[j].status \in Active /\ review_run'[j].trigger = t
  BY DEF PendingReply, ActiveRuns, FullRuns, RunsOf
<1>3. \A k \in RunIds : review_run[k] \in Row /\ KeepsRow(k)
  BY OldRows DEF QueueInv, TypeOK
<1>4. \A k \in RunIds : review_run'[k].status \in Active => review_run[k].status \in Active
  BY <1>3 DEF Row, KeepsRow, Active, Terminal
<1>5. \A k \in RunIds : k \in PendingReply(mr, t)' => k \in PendingReply(mr, t)
  BY <1>3, <1>4 DEF PendingReply, ActiveRuns, FullRuns, RunsOf, KeepsRow, SameSubject
<1>6. ASSUME i \in RunIds, j \in RunIds PROVE i = j
  BY <1>5, <1>6 DEF QueueInv, OneReplyPerTrigger
<1>7. ASSUME NEW m \in Mrs, NEW sha \in Shas, InsertsFull(m, sha) PROVE i = j
  <2>1. review_run'[last_id'].kind = "full_review"
    BY <1>7 DEF InsertsFull, Inserts
  <2> QED
    BY <1>1, <1>2, <1>6, <1>7, <2>1, NewIds DEF InsertsFull, Inserts, QueueInv
<1>8. ASSUME NEW m \in Mrs, NEW sha \in Shas, NEW u \in Triggers, InsertsReconcile(m, sha, u)
      PROVE  i = j
  <2>1. ASSUME NEW k \in RunIds, k \in PendingReply(mr, t)', m = mr, u = t PROVE FALSE
    <3>1. k \in PendingReply(mr, t)
      BY <1>5, <2>1
    <3>2. review_run[k] \in Row /\ k \in ReconcilesReplacedBy(m, u)
      BY <1>3, <2>1, <3>1
         DEF PendingReply, ReconcilesReplacedBy, SameThread, FullRuns, ActiveRuns, Row, Kinds
    <3>3. review_run'[k].status = "superseded"
      BY <1>8, <3>2 DEF InsertsReconcile, Inserts
    <3> QED
      BY <2>1, <3>3 DEF PendingReply, ActiveRuns, Active
  <2>2. review_run'[last_id'].mr = m /\ review_run'[last_id'].trigger = u
    BY <1>8 DEF InsertsReconcile, Inserts
  <2>3. (i \in RunIds \/ i = last_id') /\ (j \in RunIds \/ j = last_id')
    BY <1>1, <1>2, <1>8, NewIds DEF InsertsReconcile, Inserts, QueueInv
  <2> QED
    BY <1>1, <1>2, <1>6, <2>1, <2>2, <2>3
<1>9. ASSUME MovesStatus PROVE i = j
  BY <1>1, <1>2, <1>6, <1>9, NewIds DEF MovesStatus, QueueInv
<1> QED
  BY <1>7, <1>8, <1>9, StepCases DEF QueueInv

\* A new full review: the queue drops what was pending for the merge request.
LEMMA InsertsFullIsRequest ==
  ASSUME QueueInv, NEW mr \in Mrs, NEW sha \in Shas, InsertsFull(mr, sha)
  PROVE  Queue!RequestReview(mr, sha)
<1>1. /\ TypeOK /\ DuplicateFull(mr, sha) = {} /\ last_id' = last_id + 1
      /\ Inserts(mr, "full_review", sha, NoTrigger, ActiveRuns(mr))
  BY DEF InsertsFull, Inserts, QueueInv
<1>2. \A m \in Mrs : m # mr => RowsStay(m)
  BY <1>1, InsertStays
<1>3. RunIds' = RunIds \cup {last_id'} /\ last_id' \notin RunIds
  BY <1>1 DEF RunIds, TypeOK
<1>4. ActiveRuns(mr)' = {last_id'}
  <2>1. \A i \in RunIds : i \in ActiveRuns(mr)' => FALSE
    <3>1. \A i \in ActiveRuns(mr) : review_run'[i].status = "superseded"
      BY <1>1 DEF Inserts
    <3>2. \A i \in RunIds \ ActiveRuns(mr) : review_run'[i] = review_run[i]
      BY <1>1 DEF Inserts
    <3> QED
      BY <3>1, <3>2 DEF ActiveRuns, RunsOf, Active
  <2>2. last_id' \in ActiveRuns(mr)'
    BY <1>1, <1>3 DEF ActiveRuns, RunsOf, Inserts, Active
  <2> QED
    BY <1>3, <2>1, <2>2 DEF ActiveRuns, RunsOf
<1>5. last_id' \in FullRuns(mr)' /\ PendingFull(mr)' = {last_id'}
  BY <1>1, <1>3, <1>4 DEF FullRuns, RunsOf, PendingFull, Inserts
<1>6. QueuedReview(mr)' = [sha |-> sha, phase |-> "queued"]
  BY <1>1, <1>5, QueuedBecomes DEF Inserts
<1>7. \A t \in Triggers : ReplyPhase(mr, t)' = "idle"
  BY <1>4, <1>5 DEF ReplyPhase, PendingReply
<1>8. ReviewedCommits(mr)' = ReviewedCommits(mr)
  <2>1. \A i \in RunIds : review_run'[i].status = "done" \/ review_run[i].status = "done"
                          => review_run'[i] = review_run[i]
    BY <1>1 DEF Inserts, ActiveRuns, RunsOf, Active
  <2>2. review_run'[last_id'].status # "done"
    BY <1>1 DEF Inserts
  <2>3. {j \in FullRuns(mr)' : review_run'[j].status = "done"}
          = {j \in FullRuns(mr) : review_run[j].status = "done"}
    BY <1>3, <2>1, <2>2 DEF FullRuns, RunsOf
  <2> QED
    BY <2>1, <2>3 DEF ReviewedCommits, FullRuns, RunsOf
<1>9. sha \notin ReviewedCommits(mr)
  BY <1>1 DEF DuplicateFull, ReviewedCommits
<1>10. QueuedReview(mr) # NothingToReview => QueuedReview(mr).sha # sha
  <2> SUFFICES ASSUME NEW i \in PendingFull(mr) PROVE QueuedReview(mr).sha # sha
    BY DEF QueuedReview
  <2>1. review_run[i].source_sha # sha
    BY <1>1 DEF DuplicateFull, PendingFull, ActiveRuns, Active
  <2> QED
    BY <2>1, QueuedIs
<1>11. \A m \in Mrs : m # mr => /\ QueuedReview(m)' = QueuedReview(m)
                                /\ ReviewedCommits(m)' = ReviewedCommits(m)
                                /\ \A t \in Triggers : ReplyPhase(m, t)' = ReplyPhase(m, t)
  BY <1>2, QueueStays
<1> QED
  BY <1>6, <1>7, <1>8, <1>9, <1>10, <1>11 DEF Queue!RequestReview, Queue!NoReplies

\* A new reconcile run: the queue drops the replies of the same thread.
LEMMA InsertsReconcileIsRequest ==
  ASSUME QueueInv, NEW mr \in Mrs, NEW sha \in Shas, NEW t \in Triggers,
         InsertsReconcile(mr, sha, t)
  PROVE  Queue!RequestReply(mr, t)
<1> DEFINE S == ReconcilesReplacedBy(mr, t)
<1>1. /\ TypeOK /\ PendingFull(mr) = {} /\ last_id' = last_id + 1 /\ S \subseteq ActiveRuns(mr)
      /\ Inserts(mr, "discussion_reconcile", sha, t, S)
      /\ ActiveRuns(mr) \subseteq RunIds
  BY DEF InsertsReconcile, Inserts, QueueInv, ReconcilesReplacedBy, ActiveRuns, RunsOf
<1>2. \A i \in ActiveRuns(mr) : /\ review_run[i].kind = "discussion_reconcile"
                                /\ i \in S <=> SameThread(t, review_run[i].trigger)
  BY <1>1 DEF PendingFull, FullRuns, ActiveRuns, RunsOf, TypeOK, Row, Kinds, ReconcilesReplacedBy
<1> HIDE DEF S
<1>3. \A m \in Mrs : m # mr => RowsStay(m)
  BY <1>1, InsertStays
<1>4. RunIds' = RunIds \cup {last_id'} /\ last_id' \notin RunIds
  BY <1>1 DEF RunIds, TypeOK
<1>5. \A i \in RunIds : i \in S \/ review_run'[i] = review_run[i]
  BY <1>1 DEF Inserts
<1>6. \A i \in S : SameSubject(i) /\ review_run'[i].status = "superseded"
  BY <1>1 DEF Inserts
<1>7. ActiveRuns(mr)' = (ActiveRuns(mr) \ S) \cup {last_id'}
  <2>1. last_id' \in ActiveRuns(mr)'
    BY <1>1, <1>4 DEF ActiveRuns, RunsOf, Inserts, Active
  <2>2. \A i \in RunIds : i \in ActiveRuns(mr)' <=> i \in ActiveRuns(mr) \ S
    BY <1>4, <1>5, <1>6 DEF ActiveRuns, RunsOf, Active
  <2> QED
    BY <1>1, <1>4, <2>1, <2>2 DEF ActiveRuns, RunsOf
<1>8. FullRuns(mr)' = FullRuns(mr) /\ \A i \in FullRuns(mr) : i \notin S
  <2>1. last_id' \notin FullRuns(mr)'
    BY <1>1 DEF FullRuns, Inserts
  <2>2. \A i \in RunIds : i \in FullRuns(mr)' <=> i \in FullRuns(mr)
    BY <1>4, <1>5, <1>6 DEF FullRuns, RunsOf, SameSubject
  <2>3. \A i \in FullRuns(mr) : i \notin S
    BY <1>1, <1>2 DEF FullRuns
  <2> QED
    BY <1>4, <2>1, <2>2, <2>3 DEF FullRuns, RunsOf
<1>9. PendingFull(mr)' = {}
  <2>1. last_id' \notin FullRuns(mr)
    BY <1>4 DEF FullRuns, RunsOf
  <2> QED
    BY <1>1, <1>7, <1>8, <2>1 DEF PendingFull
<1>10. QueuedReview(mr)' = NothingToReview /\ QueuedReview(mr) = NothingToReview
  BY <1>1, <1>9 DEF QueuedReview, NothingToReview
<1>11. ReviewedCommits(mr)' = ReviewedCommits(mr)
  BY <1>5, <1>8 DEF ReviewedCommits, FullRuns, RunsOf
<1>12. PendingReply(mr, t)' = {last_id'} /\ review_run'[last_id'].status = "queued"
  <2>1. \A i \in PendingReply(mr, t)' : i = last_id'
    <3>1. SameThread(t, t)
      BY DEF SameThread
    <3>2. \A i \in ActiveRuns(mr) \ S : review_run'[i].trigger # t
      BY <1>1, <1>2, <1>5, <3>1
    <3> QED
      BY <1>7, <3>2 DEF PendingReply
  <2> QED
    BY <1>1, <1>4, <1>7, <1>8, <2>1 DEF PendingReply, Inserts, FullRuns, RunsOf
<1>13. ReplyPhase(mr, t)' = "queued"
  BY <1>12, PhaseBecomes
<1>14. ASSUME NEW u \in Triggers, u # t
       PROVE  ReplyPhase(mr, u)' = IF SameThread(t, u) THEN "idle" ELSE ReplyPhase(mr, u)
  <2>1. last_id' \notin PendingReply(mr, u)'
    BY <1>1, <1>14 DEF PendingReply, Inserts
  <2>2. CASE SameThread(t, u)
    <3>1. \A i \in ActiveRuns(mr) \ S : review_run'[i].trigger # u
      BY <1>1, <1>2, <1>5, <2>2
    <3>2. PendingReply(mr, u)' = {}
      BY <1>7, <2>1, <3>1 DEF PendingReply
    <3> QED
      BY <2>2, <3>2 DEF ReplyPhase
  <2>3. CASE ~SameThread(t, u)
    <3>1. \A i \in PendingReply(mr, u) : i \notin S /\ review_run'[i] = review_run[i]
      BY <1>1, <1>2, <1>5, <2>3 DEF PendingReply
    <3>2. \A i \in PendingReply(mr, u)' : i \in ActiveRuns(mr) \ S /\ review_run'[i] = review_run[i]
      BY <1>1, <1>5, <1>7, <2>1 DEF PendingReply
    <3>3. PendingReply(mr, u)' = PendingReply(mr, u)
      BY <1>7, <1>8, <3>1, <3>2 DEF PendingReply
    <3> QED
      BY <2>3, <3>1, <3>3, SamePhase
  <2> QED
    BY <2>2, <2>3
<1>15. \A m \in Mrs : m # mr => /\ QueuedReview(m)' = QueuedReview(m)
                                /\ ReviewedCommits(m)' = ReviewedCommits(m)
                                /\ \A u \in Triggers : ReplyPhase(m, u)' = ReplyPhase(m, u)
  BY <1>3, QueueStays
<1> QED
  BY <1>10, <1>11, <1>13, <1>14, <1>15 DEF Queue!RequestReply

\* A status change of one pending run, as its merge request and the others see it.
LEMMA MoveOthers ==
  ASSUME NEW i \in RunIds, NEW s, SetsStatus(i, s)
  PROVE  \A m \in Mrs : m # review_run[i].mr =>
           /\ QueuedReview(m)' = QueuedReview(m)
           /\ ReviewedCommits(m)' = ReviewedCommits(m)
           /\ \A t \in Triggers : ReplyPhase(m, t)' = ReplyPhase(m, t)
  BY MoveStays, QueueStays

LEMMA FullMoves ==
  ASSUME QueueInv, NEW i \in RunIds, NEW s, SetsStatus(i, s), s \in Terminal \cup {"running"},
         review_run[i].kind = "full_review", review_run[i].status \in Active,
         NEW mr \in Mrs, review_run[i].mr = mr
  PROVE  /\ QueuedReview(mr) = [sha |-> review_run[i].source_sha, phase |-> review_run[i].status]
         /\ QueuedReview(mr) # NothingToReview
         /\ QueuedReview(mr)' = IF s = "running"
                                THEN [sha |-> review_run[i].source_sha, phase |-> "running"]
                                ELSE NothingToReview
         /\ ReviewedCommits(mr)' = IF s = "done"
                                   THEN ReviewedCommits(mr) \cup {review_run[i].source_sha}
                                   ELSE ReviewedCommits(mr)
         /\ \A t \in Triggers : ReplyPhase(mr, t)' = ReplyPhase(mr, t)
<1>1. i \in PendingFull(mr) /\ i \in FullRuns(mr) /\ i \in RunsOf(mr)
  BY DEF PendingFull, FullRuns, ActiveRuns, RunsOf
<1>2. /\ RunIds' = RunIds /\ SameSubject(i) /\ review_run'[i].status = s
      /\ \A j \in RunIds : j # i => review_run'[j] = review_run[j]
  BY DEF SetsStatus
<1>3. \A j \in RunsOf(mr) : j # i => review_run[j].status \in Terminal
  BY <1>1, QueuedIs
<1>4. FullRuns(mr)' = FullRuns(mr) /\ RunsOf(mr)' = RunsOf(mr)
  BY <1>2 DEF FullRuns, RunsOf, SameSubject
<1>5. ActiveRuns(mr)' \subseteq {i} /\ (i \in ActiveRuns(mr)' <=> s = "running")
  BY <1>1, <1>2, <1>3, <1>4 DEF ActiveRuns, RunsOf, Active, Terminal
<1>6. QueuedReview(mr)' = IF s = "running"
                          THEN [sha |-> review_run[i].source_sha, phase |-> "running"]
                          ELSE NothingToReview
  <2>1. CASE s = "running"
    <3>1. PendingFull(mr)' = {i}
      BY <1>1, <1>4, <1>5, <2>1 DEF PendingFull
    <3> QED
      BY <1>2, <2>1, <3>1, QueuedBecomes DEF SameSubject
  <2>2. CASE s # "running"
    <3>1. PendingFull(mr)' = {}
      BY <1>5, <2>2 DEF PendingFull
    <3> QED
      BY <2>2, <3>1 DEF QueuedReview, NothingToReview
  <2> QED
    BY <2>1, <2>2
<1>7. ReviewedCommits(mr)' = IF s = "done"
                             THEN ReviewedCommits(mr) \cup {review_run[i].source_sha}
                             ELSE ReviewedCommits(mr)
  <2> DEFINE Done == {j \in FullRuns(mr) : review_run[j].status = "done"}
  <2>1. i \notin Done /\ Done \subseteq RunIds
    BY DEF Active, FullRuns, RunsOf
  <2>2. {j \in FullRuns(mr)' : review_run'[j].status = "done"}
          = IF s = "done" THEN Done \cup {i} ELSE Done
    BY <1>1, <1>2, <1>4, <2>1 DEF FullRuns, RunsOf
  <2>3. ReviewedCommits(mr) = {review_run[j].source_sha : j \in Done}
    BY DEF ReviewedCommits
  <2> HIDE DEF Done
  <2>4. ReviewedCommits(mr)' = {review_run'[j].source_sha :
                                  j \in IF s = "done" THEN Done \cup {i} ELSE Done}
    BY <2>2 DEF ReviewedCommits
  <2>5. /\ \A j \in Done : review_run'[j].source_sha = review_run[j].source_sha
        /\ review_run'[i].source_sha = review_run[i].source_sha
    BY <1>2, <2>1 DEF SameSubject
  <2> QED
    BY <2>3, <2>4, <2>5
<1>8. ASSUME NEW t \in Triggers PROVE ReplyPhase(mr, t)' = ReplyPhase(mr, t)
  <2>1. ActiveRuns(mr) \subseteq {i}
    BY <1>3 DEF ActiveRuns, RunsOf, Active, Terminal
  <2>2. PendingReply(mr, t) = {} /\ PendingReply(mr, t)' = {}
    BY <1>1, <1>4, <1>5, <2>1 DEF PendingReply
  <2> QED
    BY <2>2 DEF ReplyPhase
<1> QED
  BY <1>1, <1>6, <1>7, <1>8, QueuedIs

LEMMA ReplyMoves ==
  ASSUME QueueInv, NEW i \in RunIds, NEW s, SetsStatus(i, s), s \in Terminal \cup {"running"},
         review_run[i].kind # "full_review", review_run[i].status \in Active,
         NEW mr \in Mrs, review_run[i].mr = mr, NEW t \in Triggers, review_run[i].trigger = t
  PROVE  /\ QueuedReview(mr)' = QueuedReview(mr)
         /\ ReviewedCommits(mr)' = ReviewedCommits(mr)
         /\ ReplyPhase(mr, t) = review_run[i].status
         /\ ReplyPhase(mr, t)' = IF s = "running" THEN "running" ELSE "idle"
         /\ \A u \in Triggers : u # t => ReplyPhase(mr, u)' = ReplyPhase(mr, u)
<1>1. i \in PendingReply(mr, t) /\ i \notin FullRuns(mr) /\ i \in RunsOf(mr)
  BY DEF PendingReply, FullRuns, ActiveRuns, RunsOf
<1>2. /\ RunIds' = RunIds /\ SameSubject(i) /\ review_run'[i].status = s
      /\ \A j \in RunIds : j # i => review_run'[j] = review_run[j]
  BY DEF SetsStatus
<1>3. FullRuns(mr)' = FullRuns(mr) /\ RunsOf(mr)' = RunsOf(mr) /\ FullRuns(mr) \subseteq RunIds
  BY <1>2 DEF FullRuns, RunsOf, SameSubject
<1>4. /\ \A j \in RunIds : j # i => (j \in ActiveRuns(mr)' <=> j \in ActiveRuns(mr))
      /\ i \in ActiveRuns(mr)' <=> s = "running"
      /\ ActiveRuns(mr) \subseteq RunIds /\ ActiveRuns(mr)' \subseteq RunIds
  BY <1>1, <1>2, <1>3 DEF ActiveRuns, RunsOf, Active, Terminal
<1>5. QueuedReview(mr)' = QueuedReview(mr)
  <2>1. PendingFull(mr)' = PendingFull(mr) /\ i \notin PendingFull(mr)
        /\ PendingFull(mr) \subseteq RunIds
    BY <1>1, <1>3, <1>4 DEF PendingFull
  <2> QED
    BY <1>2, <2>1, SameQueued
<1>6. ReviewedCommits(mr)' = ReviewedCommits(mr)
  <2>1. \A j \in FullRuns(mr) : review_run'[j] = review_run[j]
    BY <1>1, <1>2, <1>3
  <2> QED
    BY <1>3, <2>1 DEF ReviewedCommits
<1>7. ReplyPhase(mr, t)' = IF s = "running" THEN "running" ELSE "idle"
  <2>1. \A j \in PendingReply(mr, t) : j = i
    BY <1>1 DEF QueueInv, OneReplyPerTrigger
  <2>2. \A j \in PendingReply(mr, t)' : j = i
    BY <1>2, <1>3, <1>4, <2>1 DEF PendingReply
  <2>3. CASE s = "running"
    <3>1. i \in PendingReply(mr, t)'
      BY <1>1, <1>2, <1>3, <1>4, <2>3 DEF PendingReply, SameSubject
    <3>2. PendingReply(mr, t)' = {i}
      BY <2>2, <3>1
    <3> QED
      BY <1>2, <2>3, <3>2, PhaseBecomes
  <2>4. CASE s # "running"
    <3>1. i \notin PendingReply(mr, t)'
      BY <1>4, <2>4 DEF PendingReply
    <3>2. PendingReply(mr, t)' = {}
      BY <2>2, <3>1
    <3> QED
      BY <2>4, <3>2 DEF ReplyPhase
  <2> QED
    BY <2>3, <2>4
<1>8. ASSUME NEW u \in Triggers, u # t PROVE ReplyPhase(mr, u)' = ReplyPhase(mr, u)
  <2>1. i \notin PendingReply(mr, u) /\ i \notin PendingReply(mr, u)'
    BY <1>2, <1>8 DEF PendingReply, SameSubject
  <2>2. PendingReply(mr, u)' = PendingReply(mr, u)
    BY <1>2, <1>3, <1>4, <2>1 DEF PendingReply
  <2>3. \A j \in PendingReply(mr, u) : review_run'[j] = review_run[j]
    BY <1>2, <1>4, <2>1 DEF PendingReply
  <2> QED
    BY <2>2, <2>3, SamePhase
<1> QED
  BY <1>1, <1>5, <1>6, <1>7, <1>8, PhaseIs

\* A claim starts the review or the reply; it takes a reply only when no full
\* review of any merge request waits.
LEMMA ClaimIsStart ==
  ASSUME QueueInv, NEW i \in RunIds, ClaimNextRun(i), SetsStatus(i, "running")
  PROVE  Queue!Next
<1>1. /\ review_run[i] \in Row
      /\ review_run[i].status = "queued" /\ review_run[i].status \in Active
      /\ i \in Queued
  BY DEF QueueInv, TypeOK, Row, ClaimNextRun, Queued, Active
<1>2. PICK mr \in Mrs, t \in Triggers : mr = review_run[i].mr /\ t = review_run[i].trigger
  BY <1>1 DEF Row
<1>3. \A m \in Mrs : m # mr => /\ QueuedReview(m)' = QueuedReview(m)
                               /\ ReviewedCommits(m)' = ReviewedCommits(m)
                               /\ \A u \in Triggers : ReplyPhase(m, u)' = ReplyPhase(m, u)
  BY <1>2, MoveOthers
<1>4. CASE review_run[i].kind = "full_review"
  <2>1. /\ QueuedReview(mr) = [sha |-> review_run[i].source_sha, phase |-> "queued"]
        /\ QueuedReview(mr) # NothingToReview
        /\ QueuedReview(mr)' = [sha |-> review_run[i].source_sha, phase |-> "running"]
        /\ ReviewedCommits(mr)' = ReviewedCommits(mr)
        /\ \A u \in Triggers : ReplyPhase(mr, u)' = ReplyPhase(mr, u)
    BY <1>1, <1>2, <1>4, FullMoves
  <2>2. /\ QueuedReview(mr).phase = "queued"
        /\ QueuedReview(mr)' = [QueuedReview(mr) EXCEPT !.phase = "running"]
    BY <2>1
  <2>3. [m \in Mrs |-> QueuedReview(m)]'
          = [[m \in Mrs |-> QueuedReview(m)] EXCEPT ![mr].phase = "running"]
    BY <1>3, <2>2
  <2>4. Queue!StartReview(mr)
    BY <1>3, <2>1, <2>2, <2>3 DEF Queue!StartReview
  <2> QED
    BY <2>4 DEF Queue!Next
<1>5. CASE review_run[i].kind # "full_review"
  <2>1. /\ QueuedReview(mr)' = QueuedReview(mr)
        /\ ReviewedCommits(mr)' = ReviewedCommits(mr)
        /\ ReplyPhase(mr, t) = "queued" /\ ReplyPhase(mr, t)' = "running"
        /\ \A u \in Triggers : u # t => ReplyPhase(mr, u)' = ReplyPhase(mr, u)
    BY <1>1, <1>2, <1>5, ReplyMoves
  <2>2. ASSUME NEW m \in Mrs, QueuedReview(m) # NothingToReview
        PROVE  QueuedReview(m).phase = "running"
    <3>1. PICK k \in PendingFull(m) : TRUE
      BY <2>2 DEF QueuedReview
    <3>2. k \in RunIds /\ review_run[k].kind = "full_review" /\ review_run[k].status \in Active
      BY DEF PendingFull, FullRuns, ActiveRuns, RunsOf
    <3>3. k \notin Queued
      BY <1>5, <3>2 DEF ClaimNextRun, Precedes
    <3>4. review_run[k].status = "running"
      BY <3>2, <3>3 DEF Queued, Active
    <3> QED
      BY <3>4, QueuedIs
  <2>3. Queue!StartReply(mr, t)
    BY <1>1, <1>3, <2>1, <2>2 DEF Queue!StartReply
  <2> QED
    BY <1>1, <2>3 DEF Queue!Next
<1> QED
  BY <1>4, <1>5

LEMMA EndIsEnd ==
  ASSUME QueueInv, NEW i \in RunIds, NEW s \in Terminal, IsRunning(i), SetsStatus(i, s)
  PROVE  Queue!Next
<1>1. /\ review_run[i] \in Row
      /\ review_run[i].status = "running" /\ review_run[i].status \in Active
      /\ s \in Terminal \cup {"running"} /\ s # "running"
  BY DEF QueueInv, TypeOK, Row, IsRunning, Active, Terminal
<1>2. PICK mr \in Mrs, t \in Triggers, sha \in Shas :
        mr = review_run[i].mr /\ t = review_run[i].trigger /\ sha = review_run[i].source_sha
  BY <1>1 DEF Row
<1>3. \A m \in Mrs : m # mr => /\ QueuedReview(m)' = QueuedReview(m)
                               /\ ReviewedCommits(m)' = ReviewedCommits(m)
                               /\ \A u \in Triggers : ReplyPhase(m, u)' = ReplyPhase(m, u)
  BY <1>2, MoveOthers
<1>4. CASE review_run[i].kind = "full_review"
  <2>1. /\ QueuedReview(mr) = [sha |-> sha, phase |-> "running"]
        /\ QueuedReview(mr) # NothingToReview
        /\ QueuedReview(mr)' = NothingToReview
        /\ ReviewedCommits(mr)' = IF s = "done" THEN ReviewedCommits(mr) \cup {sha}
                                                ELSE ReviewedCommits(mr)
        /\ \A u \in Triggers : ReplyPhase(mr, u)' = ReplyPhase(mr, u)
    BY <1>1, <1>2, <1>4, FullMoves
  <2>2. QueuedReview(mr).phase = "running" /\ QueuedReview(mr).sha = sha
    BY <2>1
  <2>3. CASE s = "done"
    <3>1. Queue!EndReview(mr, TRUE)
      BY <1>3, <2>1, <2>2, <2>3 DEF Queue!EndReview
    <3> QED
      BY <3>1 DEF Queue!Next
  <2>4. CASE s # "done"
    <3>1. Queue!EndReview(mr, FALSE)
      BY <1>3, <2>1, <2>2, <2>4 DEF Queue!EndReview
    <3> QED
      BY <3>1 DEF Queue!Next
  <2> QED
    BY <2>3, <2>4
<1>5. CASE review_run[i].kind # "full_review"
  <2>1. /\ QueuedReview(mr)' = QueuedReview(mr)
        /\ ReviewedCommits(mr)' = ReviewedCommits(mr)
        /\ ReplyPhase(mr, t) = "running" /\ ReplyPhase(mr, t)' = "idle"
        /\ \A u \in Triggers : u # t => ReplyPhase(mr, u)' = ReplyPhase(mr, u)
    BY <1>1, <1>2, <1>5, ReplyMoves
  <2>2. Queue!EndReply(mr, t)
    BY <1>1, <1>3, <2>1 DEF Queue!EndReply
  <2> QED
    BY <1>1, <2>2 DEF Queue!Next
<1> QED
  BY <1>4, <1>5

LEMMA QueueStep == QueueInv /\ [Next]_storeVars => [Queue!Next]_(Queue!queueVars)
<1> SUFFICES ASSUME QueueInv, [Next]_storeVars PROVE [Queue!Next]_(Queue!queueVars)
  OBVIOUS
<1>1. ASSUME UNCHANGED <<last_id, review_run>> PROVE UNCHANGED Queue!queueVars
  <2>1. \A m \in Mrs : RowsStay(m)
    BY <1>1 DEF RowsStay, RunsOf, RunIds
  <2>2. \A m \in Mrs : /\ QueuedReview(m)' = QueuedReview(m)
                       /\ ReviewedCommits(m)' = ReviewedCommits(m)
                       /\ \A u \in Triggers : ReplyPhase(m, u)' = ReplyPhase(m, u)
    BY <2>1, QueueStays
  <2> QED
    BY <2>2 DEF Queue!queueVars
<1>2. ASSUME NEW mr \in Mrs, NEW sha \in Shas, InsertsFull(mr, sha) PROVE Queue!Next
  BY <1>2, InsertsFullIsRequest DEF Queue!Next
<1>3. ASSUME NEW mr \in Mrs, NEW sha \in Shas, NEW t \in Triggers, InsertsReconcile(mr, sha, t)
      PROVE  Queue!Next
  BY <1>3, InsertsReconcileIsRequest DEF Queue!Next
<1> QED
  BY <1>1, <1>2, <1>3, ClaimIsStart, EndIsEnd, StepKinds DEF QueueInv

\* The table implements the abstract queue of ReviewQueue: every operation of
\* the store is one request, start or end of a review or a reply, or is not
\* seen by the queue.
THEOREM StoreImplementsQueue == Spec => ImplementsReviewQueue
<1>1. Init => QueueInv
  BY DEF Init, QueueInv, TypeOK, RunIds, MrRow, MrStatuses, ShaOrNull, PendingFullIsAlone,
         OneReplyPerTrigger, PendingReply, ActiveRuns, RunsOf
<1>2. QueueInv /\ [Next]_storeVars => QueueInv'
  BY TypeStep, AloneStep, OneReplyStep DEF QueueInv
<1>3. Init => Queue!Init
  <2> SUFFICES ASSUME Init PROVE Queue!Init
    OBVIOUS
  <2>1. RunIds = {}
    BY DEF Init, RunIds
  <2>2. \A mr \in Mrs : RunsOf(mr) = {}
    BY <2>1 DEF RunsOf
  <2>3. \A mr \in Mrs : /\ QueuedReview(mr) = NothingToReview
                        /\ ReviewedCommits(mr) = {}
                        /\ \A t \in Triggers : ReplyPhase(mr, t) = "idle"
    BY <2>2 DEF QueuedReview, ReviewedCommits, ReplyPhase, PendingReply, PendingFull, FullRuns,
       ActiveRuns
  <2> QED
    BY <2>3 DEF Queue!Init, Queue!NoReplies
<1> QED
  BY <1>1, <1>2, <1>3, QueueStep, PTL DEF Spec, ImplementsReviewQueue, Queue!Spec
=============================================================================
