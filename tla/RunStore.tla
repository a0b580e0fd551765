------------------------------ MODULE RunStore ------------------------------
(***************************************************************************)
(* The work queue of the service: tables review_run and                    *)
(* merge_request_state of store.py.  Every public method of Store runs in  *)
(* one SQLite write transaction, so it is one action here.  Rows are never *)
(* deleted.  created_at and id increase together (SQLite row ids, one      *)
(* clock), so "ORDER BY created_at, id" is the order of the ids.           *)
(***************************************************************************)
EXTENDS Naturals, FiniteSets

CONSTANTS
  Mrs,          \* merge requests: pairs (project_id, mr_iid)
  Shas,         \* commits, as the webhook parser names them (never NULL)
  Discussions,  \* discussion ids of GitLab
  Notes,        \* note ids of GitLab
  None,         \* SQL NULL
  MaxRuns       \* bound: rows the environment may insert

ASSUME NoneAssumption == None \notin Nat /\ None \notin Shas \cup Discussions \cup Notes
ASSUME MaxRunsAssumption == MaxRuns \in Nat

VARIABLES
  last_id,      \* cursor.lastrowid of the newest row
  review_run,   \* row id -> row
  mr_state      \* merge request -> row of merge_request_state

storeVars == <<last_id, review_run, mr_state>>
-----------------------------------------------------------------------------
Kinds    == {"full_review", "discussion_reconcile"}
Active   == {"queued", "running"}
Terminal == {"done", "failed", "superseded"}

ShaOrNull == Shas \cup {None}
Triggers  == [discussion: Discussions \cup {None}, note: Notes \cup {None}]
NoTrigger == [discussion |-> None, note |-> None]

Row == [mr: Mrs, kind: Kinds, source_sha: Shas, trigger: Triggers,
        status: Active \cup Terminal, superseded_by: Nat \cup {None}]

MrStatuses == {"none", "queued", "duplicate", "done", "failed"}
MrRow == [last_seen_sha: ShaOrNull, last_reviewed_sha: ShaOrNull,
          status: MrStatuses]

RunIds == 1..last_id
RunsOf(mr) == {i \in RunIds : review_run[i].mr = mr}
FullRuns(mr) == {i \in RunsOf(mr) : review_run[i].kind = "full_review"}
ActiveRuns(mr) == {i \in RunsOf(mr) : review_run[i].status \in Active}
PendingFull(mr) == FullRuns(mr) \cap ActiveRuns(mr)

\* The run whose id is i is still the one its worker believes it to be.
IsRunning(i) == review_run[i].status = "running"
-----------------------------------------------------------------------------
Init ==
  /\ last_id = 0
  /\ review_run = [i \in {} |-> None]
  /\ mr_state = [mr \in Mrs |-> [last_seen_sha |-> None,
                                 last_reviewed_sha |-> None,
                                 status |-> "none"]]

\* Definitions whose name has a part after an underscore are wrong variants of
\* the definition before that underscore.  No specification uses them; the
\* properties are checked to fail when one takes its place.

UpsertMrState_SwappedColumns(mr, seen, reviewed, status) ==
  mr_state' = [mr_state EXCEPT ![mr] =
    [last_seen_sha |-> seen, last_reviewed_sha |-> status, status |-> reviewed]]

\* INSERT ... ON CONFLICT DO UPDATE: last_seen_sha is overwritten,
\* last_reviewed_sha is COALESCE(excluded, stored).
UpsertMrState(mr, seen, reviewed, status) ==
  mr_state' = [mr_state EXCEPT ![mr] =
    [last_seen_sha |-> seen,
     last_reviewed_sha |-> IF reviewed = None THEN @.last_reviewed_sha
                                              ELSE reviewed,
     status |-> status]]

\* One INSERT of a queued row and the UPDATE that supersedes others by it.
InsertRun(row, superseded) ==
  LET id == last_id + 1 IN
  /\ id <= MaxRuns
  /\ last_id' = id
  /\ review_run' = [i \in 1..id |->
       IF i = id THEN row
       ELSE IF i \in superseded
         THEN [review_run[i] EXCEPT !.status = "superseded",
                                    !.superseded_by = id]
         ELSE review_run[i]]

QueuedRow(mr, kind, sha, trigger) ==
  [mr |-> mr, kind |-> kind, source_sha |-> sha, trigger |-> trigger,
   status |-> "queued", superseded_by |-> None]

\* Any earlier run of the commit counts, a superseded one too.
DuplicateFull_AnyStatus(mr, sha) ==
  {i \in FullRuns(mr) : review_run[i].source_sha = sha}

\* A commit whose review is done may be queued again.
DuplicateFull_PendingOnly(mr, sha) ==
  {i \in PendingFull(mr) : review_run[i].source_sha = sha}

\* Full reviews of this commit that make another one a duplicate.
DuplicateFull(mr, sha) ==
  {i \in FullRuns(mr) : /\ review_run[i].source_sha = sha
                        /\ review_run[i].status \in {"queued", "running", "done"}}

\* Runs that a worker already has are left to finish.
EnqueueFullReview_KeepsRunning(mr, sha) ==
  /\ DuplicateFull(mr, sha) = {}
  /\ InsertRun(QueuedRow(mr, "full_review", sha, NoTrigger),
               {i \in ActiveRuns(mr) : ~IsRunning(i)})
  /\ UpsertMrState(mr, sha, None, "queued")

EnqueueFullReview(mr, sha) ==
  IF DuplicateFull(mr, sha) # {}
  THEN /\ UpsertMrState(mr, sha, None, "duplicate")
       /\ UNCHANGED <<last_id, review_run>>
  ELSE /\ InsertRun(QueuedRow(mr, "full_review", sha, NoTrigger), ActiveRuns(mr))
       /\ UpsertMrState(mr, sha, None, "queued")

\* A request with trigger t replaces one with trigger u: the discussion
\* decides, without one the note, without either every reconcile run matches.
SameThread(t, u) ==
  /\ t.discussion # None => u.discussion = t.discussion
  /\ t.discussion = None /\ t.note # None => u.note = t.note

\* A run that a worker already has is left to finish.
ReconcilesReplacedBy_QueuedOnly(mr, trigger) ==
  {i \in ActiveRuns(mr) : /\ review_run[i].kind = "discussion_reconcile"
                          /\ review_run[i].status = "queued"
                          /\ SameThread(trigger, review_run[i].trigger)}

\* Scoped by merge request instead of by discussion.
ReconcilesReplacedBy_AnyThread(mr, trigger) ==
  {i \in ActiveRuns(mr) : review_run[i].kind = "discussion_reconcile"}

ReconcilesReplacedBy(mr, trigger) ==
  {i \in ActiveRuns(mr) : /\ review_run[i].kind = "discussion_reconcile"
                          /\ SameThread(trigger, review_run[i].trigger)}

\* Only a running full review blocks.
EnqueueReconcile_IgnoresQueuedFull(mr, sha, trigger) ==
  /\ \A i \in PendingFull(mr) : ~IsRunning(i)
  /\ InsertRun(QueuedRow(mr, "discussion_reconcile", sha, trigger),
               ReconcilesReplacedBy(mr, trigger))
  /\ UpsertMrState(mr, sha, None, "queued")

\* Nothing blocks, and everything pending gives way as for a full review.
EnqueueReconcile_SupersedesAll(mr, sha, trigger) ==
  /\ InsertRun(QueuedRow(mr, "discussion_reconcile", sha, trigger), ActiveRuns(mr))
  /\ UpsertMrState(mr, sha, None, "queued")

EnqueueReconcile(mr, sha, trigger) ==
  IF PendingFull(mr) # {}
  THEN UNCHANGED storeVars
  ELSE /\ InsertRun(QueuedRow(mr, "discussion_reconcile", sha, trigger),
                    ReconcilesReplacedBy(mr, trigger))
       /\ UpsertMrState(mr, sha, None, "queued")

Precedes_OldestFirst(i, j) == i <= j

\* Full reviews first, over all merge requests, then the oldest row.
Precedes(i, j) ==
  IF review_run[i].kind = review_run[j].kind THEN i <= j
                                             ELSE review_run[i].kind = "full_review"

\* Runs a crash left running are claimed again.
Queued_WithRunning == {i \in RunIds : review_run[i].status \in Active}

Queued == {i \in RunIds : review_run[i].status = "queued"}

ClaimNextRun(i) ==
  /\ i \in Queued
  /\ \A j \in Queued : Precedes(i, j)
  /\ review_run' = [review_run EXCEPT ![i].status = "running"]
  /\ UNCHANGED <<last_id, mr_state>>

MarkDone_AnyStatus(i, reviewed_sha) ==
  /\ review_run' = [review_run EXCEPT ![i].status = "done"]
  /\ UpsertMrState(review_run[i].mr, reviewed_sha, reviewed_sha, "done")
  /\ UNCHANGED last_id

\* UPDATE ... WHERE status = 'running'; the caller may find it superseded.
MarkDone(i, reviewed_sha) ==
  IF IsRunning(i)
  THEN /\ review_run' = [review_run EXCEPT ![i].status = "done"]
       /\ UpsertMrState(review_run[i].mr, reviewed_sha, reviewed_sha, "done")
       /\ UNCHANGED last_id
  ELSE UNCHANGED storeVars

\* The state row is written even if the run was superseded.
MarkFailed_AlwaysUpserts(i, source_sha) ==
  /\ review_run' = IF IsRunning(i) THEN [review_run EXCEPT ![i].status = "failed"]
                                   ELSE review_run
  /\ UpsertMrState(review_run[i].mr, source_sha, None, "failed")
  /\ UNCHANGED last_id

MarkFailed(i, source_sha) ==
  IF IsRunning(i)
  THEN /\ review_run' = [review_run EXCEPT ![i].status = "failed"]
       /\ UpsertMrState(review_run[i].mr, source_sha, None, "failed")
       /\ UNCHANGED last_id
  ELSE UNCHANGED storeVars

\* superseded_by stays NULL: the head moved, no other run is named.
MarkSupersededIfRunning(i) ==
  IF IsRunning(i)
  THEN /\ review_run' = [review_run EXCEPT ![i].status = "superseded"]
       /\ UNCHANGED <<last_id, mr_state>>
  ELSE UNCHANGED storeVars

\* The commit a worker reports: a full review goes on only while the head is
\* the commit it was queued for, a reconcile run works on whatever head it finds.
ReviewedShas(i) ==
  IF review_run[i].kind = "full_review" THEN {review_run[i].source_sha} ELSE Shas

Next ==
  \/ \E mr \in Mrs, sha \in Shas :
       \/ EnqueueFullReview(mr, sha)
       \/ \E trigger \in Triggers : EnqueueReconcile(mr, sha, trigger)
  \/ \E i \in RunIds :
       \/ ClaimNextRun(i)
       \/ \E sha \in ReviewedShas(i) : MarkDone(i, sha)
       \/ MarkFailed(i, review_run[i].source_sha)
       \/ MarkSupersededIfRunning(i)

Spec == Init /\ [][Next]_storeVars
-----------------------------------------------------------------------------
(***************************************************************************)
(* Properties                                                              *)
(***************************************************************************)

\* Every row and every state row has the columns and values of the schema.
TypeOK ==
  /\ last_id \in Nat
  /\ review_run \in [RunIds -> Row]
  /\ mr_state \in [Mrs -> MrRow]

\* While a full review of a merge request is queued or running, it is the
\* newest run of that merge request and every other one is over: nothing
\* else may be reviewing or answering there (store.py:75-102, 134-156).
PendingFullIsAlone ==
  \A i \in RunIds :
    i \in PendingFull(review_run[i].mr) =>
      \A j \in RunsOf(review_run[i].mr) \ {i} :
        j < i /\ review_run[j].status \in Terminal

\* A commit of a merge request has at most one full review that is queued,
\* running or done; only a failed or superseded one is repeated.
OneFullReviewPerCommit ==
  \A mr \in Mrs : \A i, j \in FullRuns(mr) :
    /\ review_run[i].source_sha = review_run[j].source_sha
    /\ {review_run[i].status, review_run[j].status} \cap {"failed", "superseded"} = {}
    => i = j

\* Two replies in one discussion are never answered by two pending runs.
OnePendingReconcilePerDiscussion ==
  \A mr \in Mrs : \A i, j \in ActiveRuns(mr) :
    /\ review_run[i].trigger.discussion # None
    /\ review_run[j].trigger.discussion = review_run[i].trigger.discussion
    => i = j

\* superseded_by leads forward to a later run of the same merge request, and
\* a full review gives way to a full review only: whatever the superseded
\* run was to examine is examined by the run that replaced it.
SupersededByLaterRun ==
  \A i \in RunIds :
    LET by == review_run[i].superseded_by IN
    by # None =>
      /\ review_run[i].status = "superseded"
      /\ by \in RunsOf(review_run[i].mr)
      /\ i < by
      /\ review_run[i].kind = "full_review" => review_run[by].kind = "full_review"

\* What a step may never do: change a run that is over.  The worker of a
\* superseded run still calls mark_done or mark_failed when it gets there.
TerminalRunIsFinal ==
  [][\A i \in RunIds : review_run[i].status \in Terminal
                         => review_run'[i] = review_run[i]]_storeVars

\* A full review that completes is newer than every full review that
\* completed before it, so get_latest_done_run (newest finished_at) is the
\* done run with the largest id.
FullReviewsFinishInOrder ==
  [][\A i \in RunIds :
       review_run[i].status = "running" /\ review_run'[i].status = "done"
         /\ review_run[i].kind = "full_review"
       => \A j \in FullRuns(review_run[i].mr) : review_run[j].status = "done" => j < i
    ]_storeVars

\* The rows of a merge request, seen as the queue of ReviewQueue.
NothingToReview == [sha |-> None, phase |-> "idle"]

QueuedReview(mr) ==
  IF PendingFull(mr) = {} THEN NothingToReview
  ELSE LET i == CHOOSE i \in PendingFull(mr) : TRUE
       IN  [sha |-> review_run[i].source_sha, phase |-> review_run[i].status]

PendingReply(mr, t) ==
  {i \in ActiveRuns(mr) \ FullRuns(mr) : review_run[i].trigger = t}

ReplyPhase(mr, t) ==
  IF PendingReply(mr, t) = {} THEN "idle"
  ELSE review_run[CHOOSE i \in PendingReply(mr, t) : TRUE].status

ReviewedCommits(mr) ==
  {review_run[i].source_sha : i \in {j \in FullRuns(mr) : review_run[j].status = "done"}}

Queue == INSTANCE ReviewQueue WITH
  Threads  <- Triggers,
  NoReview <- NothingToReview,
  full     <- [mr \in Mrs |-> QueuedReview(mr)],
  replies  <- [mr \in Mrs |-> [t \in Triggers |-> ReplyPhase(mr, t)]],
  reviewed <- [mr \in Mrs |-> ReviewedCommits(mr)]

\* The table implements the abstract queue: whatever the order of webhooks
\* and workers, a merge request has one review or some replies to do, never
\* both, and a reviewed commit is never queued again.
ImplementsReviewQueue == Queue!Spec
=============================================================================
