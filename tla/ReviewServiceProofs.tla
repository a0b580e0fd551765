------------------------- MODULE ReviewServiceProofs -------------------------
(***************************************************************************)
(* The service uses the work queue as RunStore specifies, for any number   *)
(* of workers, pushes, replies, failures and restarts; so the invariants   *)
(* proved in RunStoreProofs hold while reviews are in progress.  And what  *)
(* the workers themselves promise about the runs in their hands.           *)
(***************************************************************************)
EXTENDS ReviewService, RunStoreProofs

\* Where a worker has read the head of the merge request.
KnowsHead == {"list_discussions", "run_agent", "check_status", "check_head",
              "publish", "mark_done"}

HeadsExist ==
  /\ \A mr \in Mrs : hooks[mr] # <<>> => commits[mr] # <<>>
  /\ \A i \in RunIds : commits[review_run[i].mr] # <<>>

\* A worker holds a row of the table and, once it knows the head, reports a
\* commit that MarkDone accepts.
WorkerKnowledge ==
  \A w \in Workers :
    /\ ~At(w, "idle") => worker[w].run \in RunIds
    /\ worker[w].pc \in KnowsHead => worker[w].sha \in ReviewedShas(worker[w].run)

ServiceInv == TypeOK /\ ServiceTypeOK /\ HeadsExist /\ WorkerKnowledge

LEMMA HeadType ==
  ASSUME ServiceInv, NEW mr \in Mrs, commits[mr] # <<>>
  PROVE  HeadOf(mr) \in Shas
<1>1. commits[mr] \in Seq(Shas)
  BY DEF ServiceInv, ServiceTypeOK
<1> QED
  BY <1>1 DEF HeadOf

\* The row a worker holds is well formed.
LEMMA HeldRow ==
  ASSUME ServiceInv, NEW w \in Workers, ~At(w, "idle")
  PROVE  worker[w].run \in RunIds /\ RunOf(w) \in Row
  BY DEF ServiceInv, WorkerKnowledge, TypeOK, RunOf
-----------------------------------------------------------------------------
(***************************************************************************)
(* Every step of the service is a step of the store or leaves it alone.    *)
(***************************************************************************)
LEMMA ServiceUsesStore == ServiceInv /\ [ServiceNext]_vars => [Next]_storeVars
<1> SUFFICES ASSUME ServiceInv, [ServiceNext]_vars PROVE [Next]_storeVars
  OBVIOUS
<1>1. ASSUME NEW mr \in Mrs, DeliverHook(mr)
      PROVE  Next
  <2> DEFINE hook == hooks[mr][1]
  <2>1. hook \in Hooks
    BY <1>1 DEF DeliverHook, ServiceInv, ServiceTypeOK
  <2>2. hook.sha \in Shas /\ hook.trigger \in Triggers
    BY <2>1 DEF Hooks
  <2>3. EnqueueFullReview(mr, hook.sha) \/ EnqueueReconcile(mr, hook.sha, hook.trigger)
    BY <1>1 DEF DeliverHook
  <2> HIDE DEF hook
  <2> QED
    BY <2>2, <2>3 DEF Next
<1>2. ASSUME NEW w \in Workers, Claim(w)
      PROVE  Next
  BY <1>2 DEF Claim, Next
<1>3. ASSUME NEW w \in Workers, Complete(w)
      PROVE  Next
  <2>1. worker[w].run \in RunIds /\ worker[w].sha \in ReviewedShas(worker[w].run)
    BY <1>3 DEF Complete, At, KnowsHead, ServiceInv, WorkerKnowledge
  <2> QED
    BY <1>3, <2>1 DEF Complete, Next
<1>4. ASSUME NEW w \in Workers, Abandon(w)
      PROVE  Next
  <2>1. worker[w].run \in RunIds
    BY <1>4 DEF Abandon, At, ServiceInv, WorkerKnowledge
  <2> QED
    BY <1>4, <2>1 DEF Abandon, Next
<1>5. ASSUME NEW w \in Workers, HandleFailure(w)
      PROVE  Next
  <2>1. worker[w].run \in RunIds
    BY <1>5 DEF HandleFailure, At, ServiceInv, WorkerKnowledge
  <2> QED
    BY <1>5, <2>1 DEF HandleFailure, Next, RunOf
<1>6. ASSUME NEW w \in Workers,
             ProcessRun(w) \/ CreateTrace(w) \/ GetMergeRequestInfo(w) \/ ListDiscussions(w)
               \/ RunAgent(w) \/ CheckStatus(w) \/ CheckHead(w) \/ Publish(w) \/ Raise(w)
               \/ Escape(w) \/ ClaimRaises(w)
      PROVE  UNCHANGED storeVars
  BY <1>6 DEF ProcessRun, CreateTrace, GetMergeRequestInfo, ListDiscussions, RunAgent,
              CheckStatus, CheckHead, Publish, Raise, Escape, ClaimRaises, Unshared
<1>7. ASSUME NEW mr \in Mrs, (\E sha \in Shas : Push(mr, sha)) \/ BecomeReady(mr)
                              \/ (\E reply \in Replies : PostReply(mr, reply))
      PROVE  UNCHANGED storeVars
  BY <1>7 DEF Push, BecomeReady, PostReply
<1>8. ASSUME Restart PROVE UNCHANGED storeVars
  BY <1>8 DEF Restart
<1>9. ASSUME UNCHANGED vars PROVE UNCHANGED storeVars
  BY <1>9 DEF vars
<1> QED
  BY <1>1, <1>2, <1>3, <1>4, <1>5, <1>6, <1>7, <1>8, <1>9 DEF ServiceNext, WorkerStep
-----------------------------------------------------------------------------
(***************************************************************************)
(* What a step does to the worker that takes it.                           *)
(***************************************************************************)

\* Worker w is now in state rec; no other worker moved.
Becomes(w, rec) ==
  /\ worker'[w] = rec
  /\ \A v \in Workers \ {w} : worker'[v] = worker[v]
  /\ worker' \in [Workers -> WorkerState]

LEMMA GoToBecomes ==
  ASSUME ServiceTypeOK, NEW w \in Workers, NEW pc \in Pcs, GoTo(w, pc)
  PROVE  /\ Becomes(w, [worker[w] EXCEPT !.pc = pc])
         /\ worker'[w].pc = pc
         /\ worker'[w].run = worker[w].run
         /\ worker'[w].sha = worker[w].sha
<1>1. worker[w] \in WorkerState
  BY DEF ServiceTypeOK
<1>2. [worker[w] EXCEPT !.pc = pc] \in WorkerState
  BY <1>1 DEF WorkerState
<1>3. worker' = [worker EXCEPT ![w] = [worker[w] EXCEPT !.pc = pc]]
  BY DEF GoTo
<1>4. Becomes(w, [worker[w] EXCEPT !.pc = pc])
  BY <1>2, <1>3 DEF Becomes, ServiceTypeOK
<1> QED
  BY <1>1, <1>4 DEF Becomes, WorkerState

LEMMA ReleaseBecomes ==
  ASSUME ServiceTypeOK, NEW w \in Workers, Release(w)
  PROVE  Becomes(w, IdleWorker) /\ worker'[w].pc = "idle"
<1>1. IdleWorker \in WorkerState
  BY DEF IdleWorker, WorkerState, Pcs, ShaOrNull
<1> QED
  BY <1>1 DEF Release, Becomes, ServiceTypeOK, IdleWorker

\* The worker's state is well formed, it keeps its run, and the commit it
\* knows is one that MarkDone accepts for that run.
GoodMove(w) ==
  /\ \A v \in Workers \ {w} : worker'[v] = worker[v]
  /\ worker' \in [Workers -> WorkerState]
  /\ worker'[w].pc # "idle" => worker'[w].run \in RunIds
  /\ worker'[w].pc \in KnowsHead => worker'[w].sha \in ReviewedShas(worker'[w].run)

LEMMA GoToGood ==
  ASSUME ServiceInv, NEW w \in Workers, ~At(w, "idle"), NEW pc \in Pcs, GoTo(w, pc),
         pc \in KnowsHead => worker[w].pc \in KnowsHead
  PROVE  GoodMove(w)
<1>1. worker[w].run \in RunIds
  BY HeldRow
<1>2. worker[w].pc \in KnowsHead => worker[w].sha \in ReviewedShas(worker[w].run)
  BY DEF ServiceInv, WorkerKnowledge
<1> QED
  BY <1>1, <1>2, GoToBecomes DEF ServiceInv, GoodMove, Becomes

LEMMA ReleaseGood ==
  ASSUME ServiceInv, NEW w \in Workers, Release(w)
  PROVE  GoodMove(w)
  BY ReleaseBecomes DEF ServiceInv, GoodMove, Becomes, KnowsHead

LEMMA WorkerMoves ==
  ASSUME ServiceInv, NEW w \in Workers, WorkerStep(w)
  PROVE  GoodMove(w)
<1> USE DEF At
<1>1. CASE Claim(w)
  <2>1. PICK i \in RunIds : worker' = [worker EXCEPT ![w].pc = "process_run", ![w].run = i]
    BY <1>1 DEF Claim
  <2>2. worker[w] \in WorkerState /\ worker \in [Workers -> WorkerState]
    BY DEF ServiceInv, ServiceTypeOK
  <2>3. i \in Nat
    BY DEF ServiceInv, TypeOK, RunIds
  <2>4. worker' = [worker EXCEPT ![w] = [worker[w] EXCEPT !.pc = "process_run", !.run = i]]
    BY <2>1, <2>2 DEF WorkerState
  <2>5. [worker[w] EXCEPT !.pc = "process_run", !.run = i] \in WorkerState
    BY <2>2, <2>3 DEF WorkerState, Pcs
  <2>6. /\ [worker[w] EXCEPT !.pc = "process_run", !.run = i].pc = "process_run"
        /\ [worker[w] EXCEPT !.pc = "process_run", !.run = i].run = i
    BY <2>2 DEF WorkerState
  <2> QED
    BY <2>2, <2>4, <2>5, <2>6 DEF GoodMove, KnowsHead
<1>2. CASE ProcessRun(w)
  BY <1>2, GoToGood, ReleaseGood DEF ProcessRun, Pcs, KnowsHead
<1>3. CASE CreateTrace(w)
  BY <1>3, GoToGood, ReleaseGood DEF CreateTrace, Pcs, KnowsHead
<1>4. CASE GetMergeRequestInfo(w)
  <2> DEFINE head == HeadOf(RunOf(w).mr)
             pc == IF IsFull(w) /\ head # RunOf(w).source_sha
                   THEN "mark_superseded" ELSE "list_discussions"
  <2>1. worker[w].run \in RunIds /\ RunOf(w) \in Row
    BY <1>4, HeldRow DEF GetMergeRequestInfo
  <2>2. RunOf(w).mr \in Mrs /\ commits[RunOf(w).mr] # <<>>
    BY <2>1 DEF Row, ServiceInv, HeadsExist, RunOf
  <2>3. head \in Shas
    BY <2>2, HeadType
  <2>4. worker[w] \in WorkerState /\ worker \in [Workers -> WorkerState]
    BY DEF ServiceInv, ServiceTypeOK
  <2>5. worker' = [worker EXCEPT ![w].sha = head, ![w].pc = pc]
    BY <1>4 DEF GetMergeRequestInfo
  <2>6. pc \in Pcs /\ (pc \in KnowsHead => ~IsFull(w) \/ head = RunOf(w).source_sha)
    BY DEF Pcs, KnowsHead
  <2> HIDE DEF head, pc
  <2>7. worker' = [worker EXCEPT ![w] = [worker[w] EXCEPT !.sha = head, !.pc = pc]]
    BY <2>4, <2>5 DEF WorkerState
  <2>8. [worker[w] EXCEPT !.sha = head, !.pc = pc] \in WorkerState
    BY <2>3, <2>4, <2>6 DEF WorkerState, ShaOrNull
  <2>9. /\ [worker[w] EXCEPT !.sha = head, !.pc = pc].pc = pc
        /\ [worker[w] EXCEPT !.sha = head, !.pc = pc].sha = head
        /\ [worker[w] EXCEPT !.sha = head, !.pc = pc].run = worker[w].run
    BY <2>4 DEF WorkerState
  <2>10. ~IsFull(w) \/ head = RunOf(w).source_sha => head \in ReviewedShas(worker[w].run)
    BY <2>3 DEF ReviewedShas, IsFull, RunOf
  <2> QED
    BY <2>1, <2>4, <2>6, <2>7, <2>8, <2>9, <2>10 DEF GoodMove
<1>5. CASE ListDiscussions(w)
  <2>1. PICK next \in {"run_agent", "mark_done"}, seen \in SUBSET Replies :
          worker' = [worker EXCEPT ![w].seen = seen, ![w].pc = next]
    <3>1. worker[w].run \in RunIds /\ RunOf(w) \in Row
      BY <1>5, HeldRow DEF ListDiscussions
    <3>2. replies[RunOf(w).mr] \in SUBSET Replies
      BY <3>1 DEF Row, ServiceInv, ServiceTypeOK
    <3> QED
      BY <1>5, <3>2 DEF ListDiscussions
  <2>2. worker[w] \in WorkerState /\ worker \in [Workers -> WorkerState]
    BY DEF ServiceInv, ServiceTypeOK
  <2>3. worker' = [worker EXCEPT ![w] = [worker[w] EXCEPT !.seen = seen, !.pc = next]]
    BY <2>1, <2>2 DEF WorkerState
  <2>4. [worker[w] EXCEPT !.seen = seen, !.pc = next] \in WorkerState
    BY <2>1, <2>2 DEF WorkerState, Pcs
  <2>5. /\ [worker[w] EXCEPT !.seen = seen, !.pc = next].sha = worker[w].sha
        /\ [worker[w] EXCEPT !.seen = seen, !.pc = next].run = worker[w].run
    BY <2>2 DEF WorkerState
  <2>6. worker[w].run \in RunIds /\ worker[w].sha \in ReviewedShas(worker[w].run)
    BY <1>5 DEF ListDiscussions, ServiceInv, WorkerKnowledge, KnowsHead
  <2> QED
    BY <2>2, <2>3, <2>4, <2>5, <2>6 DEF GoodMove
<1>6. CASE RunAgent(w)
  BY <1>6, GoToGood DEF RunAgent, Pcs, KnowsHead
<1>7. CASE CheckStatus(w)
  BY <1>7, GoToGood, ReleaseGood DEF CheckStatus, Pcs, KnowsHead
<1>8. CASE CheckHead(w)
  <2>1. PICK head \in Shas : worker' = [worker EXCEPT ![w].pc = "publish", ![w].head = head]
    <3>1. RunOf(w).mr \in Mrs /\ commits[RunOf(w).mr] # <<>>
      BY <1>8, HeldRow DEF CheckHead, ServiceInv, HeadsExist, RunOf, Row
    <3> QED
      BY <1>8, <3>1, HeadType DEF CheckHead
  <2>2. worker[w] \in WorkerState /\ worker \in [Workers -> WorkerState]
    BY DEF ServiceInv, ServiceTypeOK
  <2>3. worker' = [worker EXCEPT ![w] = [worker[w] EXCEPT !.pc = "publish", !.head = head]]
    BY <2>1, <2>2 DEF WorkerState
  <2>4. [worker[w] EXCEPT !.pc = "publish", !.head = head] \in WorkerState
    BY <2>1, <2>2 DEF WorkerState, Pcs, ShaOrNull
  <2>5. /\ [worker[w] EXCEPT !.pc = "publish", !.head = head].sha = worker[w].sha
        /\ [worker[w] EXCEPT !.pc = "publish", !.head = head].run = worker[w].run
    BY <2>2 DEF WorkerState
  <2>6. worker[w].run \in RunIds /\ worker[w].sha \in ReviewedShas(worker[w].run)
    BY <1>8 DEF CheckHead, ServiceInv, WorkerKnowledge, KnowsHead
  <2> QED
    BY <2>2, <2>3, <2>4, <2>5, <2>6 DEF GoodMove
<1>9. CASE Publish(w)
  BY <1>9, GoToGood DEF Publish, FinishPublication, InlineIsRefused, Pcs, KnowsHead
<1>10. CASE Raise(w)
  BY <1>10, GoToGood DEF Raise, Fallible, Pcs, KnowsHead
<1>11. CASE Complete(w)
  BY <1>11, ReleaseGood DEF Complete
<1>12. CASE Abandon(w)
  BY <1>12, ReleaseGood DEF Abandon
<1>13. CASE HandleFailure(w)
  BY <1>13, ReleaseGood DEF HandleFailure
<1>14. CASE Escape(w)
  BY <1>14, ReleaseGood DEF Escape
<1> QED
  BY <1>1, <1>2, <1>3, <1>4, <1>5, <1>6, <1>7, <1>8, <1>9, <1>10, <1>11, <1>12, <1>13, <1>14
     DEF WorkerStep
-----------------------------------------------------------------------------
(***************************************************************************)
(* ServiceInv is inductive.                                                *)
(***************************************************************************)

\* A row that an enqueue adds is about the merge request it was asked for.
LEMMA EnqueuedRow ==
  ASSUME TypeOK, NEW mr \in Mrs, NEW sha \in Shas, NEW t \in Triggers,
         EnqueueFullReview(mr, sha) \/ EnqueueReconcile(mr, sha, t),
         NEW i \in RunIds', i \notin RunIds
  PROVE  review_run'[i].mr = mr
<1>1. ASSUME NEW kind, NEW u, NEW S, InsertRun(QueuedRow(mr, kind, sha, u), S)
      PROVE  review_run'[i].mr = mr
  <2>1. last_id' = last_id + 1
    BY <1>1 DEF InsertRun
  <2>2. i = last_id + 1
    BY <2>1, NewIds
  <2>3. i \in 1..(last_id + 1)
    BY <2>2 DEF TypeOK
  <2>4. review_run'[i] = QueuedRow(mr, kind, sha, u)
    BY <1>1, <2>2, <2>3 DEF InsertRun
  <2> QED
    BY <2>4 DEF QueuedRow
<1>2. last_id' # last_id
  BY DEF RunIds
<1>3. CASE EnqueueFullReview(mr, sha)
  BY <1>1, <1>2, <1>3 DEF EnqueueFullReview
<1>4. CASE EnqueueReconcile(mr, sha, t)
  BY <1>1, <1>2, <1>4 DEF EnqueueReconcile, storeVars
<1> QED
  BY <1>3, <1>4

\* Sending a webhook for a commit of the merge request.
LEMMA SendType ==
  ASSUME ServiceTypeOK, NEW mr \in Mrs, NEW kind \in Kinds, NEW sha \in Shas,
         NEW t \in Triggers, Send(mr, Hook(kind, sha, t))
  PROVE  /\ hooks' \in [Mrs -> Seq(Hooks)]
         /\ \A m \in Mrs \ {mr} : hooks'[m] = hooks[m]
<1>1. Hook(kind, sha, t) \in Hooks
  BY DEF Hook, Hooks
<1>2. Append(hooks[mr], Hook(kind, sha, t)) \in Seq(Hooks)
  BY <1>1 DEF ServiceTypeOK
<1> QED
  BY <1>2 DEF Send, ServiceTypeOK

\* The budget stays a record of natural numbers.
BudgetType == budget \in [{"pushes", "ready", "crashes", "faults"} -> Nat]

LEMMA SpendType ==
  ASSUME BudgetType, NEW what \in {"pushes", "ready", "crashes", "faults"}, Spend(what)
  PROVE  BudgetType'
<1>1. budget[what] \in Nat /\ budget[what] - 1 \in Nat
  BY DEF Spend, BudgetType
<1> QED
  BY <1>1 DEF Spend, BudgetType

GitlabStep(mr) ==
  \/ \E sha \in Shas : Push(mr, sha)
  \/ BecomeReady(mr)
  \/ \E reply \in Replies : PostReply(mr, reply)

\* What the steps of GitLab keep.
LEMMA GitlabMoves ==
  ASSUME ServiceInv, NEW mr \in Mrs, GitlabStep(mr)
  PROVE  /\ ServiceTypeOK'
         /\ \A m \in Mrs : hooks'[m] # <<>> => commits'[m] # <<>>
         /\ \A m \in Mrs : commits[m] # <<>> => commits'[m] # <<>>
<1>1. /\ ServiceTypeOK
      /\ \A m \in Mrs : hooks[m] # <<>> => commits[m] # <<>>
      /\ NoTrigger \in Triggers
      /\ Replies \subseteq Triggers
      /\ Kinds = {"full_review", "discussion_reconcile"}
  BY DEF ServiceInv, HeadsExist, NoTrigger, Triggers, Replies, Kinds
<1>2. ASSUME NEW sha \in Shas, Push(mr, sha)
      PROVE  /\ ServiceTypeOK'
             /\ \A m \in Mrs : hooks'[m] # <<>> => commits'[m] # <<>>
             /\ \A m \in Mrs : commits[m] # <<>> => commits'[m] # <<>>
  <2>1. hooks' \in [Mrs -> Seq(Hooks)] /\ \A m \in Mrs \ {mr} : hooks'[m] = hooks[m]
    BY <1>1, <1>2, SendType DEF Push
  <2>2. Append(commits[mr], sha) \in Seq(Shas) /\ Append(commits[mr], sha) # <<>>
    <3>1. commits[mr] \in Seq(Shas)
      BY <1>1 DEF ServiceTypeOK
    <3>2. Append(commits[mr], sha) \in Seq(Shas)
      BY <3>1
    <3>3. Len(Append(commits[mr], sha)) = Len(commits[mr]) + 1 /\ Len(commits[mr]) \in Nat
      BY <3>1
    <3>4. Len(<<>>) = 0
      OBVIOUS
    <3> QED
      BY <3>2, <3>3, <3>4
  <2>3. /\ commits' \in [Mrs -> Seq(Shas)]
        /\ commits'[mr] # <<>>
        /\ \A m \in Mrs \ {mr} : commits'[m] = commits[m]
    BY <1>1, <1>2, <2>2 DEF Push, ServiceTypeOK
  <2>4. BudgetType'
    BY <1>1, <1>2, SpendType DEF Push, ServiceTypeOK, BudgetType
  <2> QED
    BY <1>1, <1>2, <2>1, <2>3, <2>4 DEF Push, ServiceTypeOK, BudgetType, historyVars
<1>3. ASSUME BecomeReady(mr)
      PROVE  /\ ServiceTypeOK'
             /\ \A m \in Mrs : hooks'[m] # <<>> => commits'[m] # <<>>
             /\ \A m \in Mrs : commits[m] # <<>> => commits'[m] # <<>>
  <2>1. commits[mr] # <<>> /\ HeadOf(mr) \in Shas
    BY <1>3, HeadType DEF BecomeReady
  <2>2. hooks' \in [Mrs -> Seq(Hooks)] /\ \A m \in Mrs \ {mr} : hooks'[m] = hooks[m]
    BY <1>1, <1>3, <2>1, SendType DEF BecomeReady
  <2>3. BudgetType'
    BY <1>1, <1>3, SpendType DEF BecomeReady, ServiceTypeOK, BudgetType
  <2> QED
    BY <1>1, <1>3, <2>1, <2>2, <2>3 DEF BecomeReady, ServiceTypeOK, BudgetType, historyVars
<1>4. ASSUME NEW reply \in Replies, PostReply(mr, reply)
      PROVE  /\ ServiceTypeOK'
             /\ \A m \in Mrs : hooks'[m] # <<>> => commits'[m] # <<>>
             /\ \A m \in Mrs : commits[m] # <<>> => commits'[m] # <<>>
  <2>1. commits[mr] # <<>> /\ HeadOf(mr) \in Shas
    BY <1>4, HeadType DEF PostReply
  <2>2. hooks' \in [Mrs -> Seq(Hooks)] /\ \A m \in Mrs \ {mr} : hooks'[m] = hooks[m]
    BY <1>1, <1>4, <2>1, SendType DEF PostReply
  <2>3. replies' \in [Mrs -> SUBSET Replies]
    BY <1>1, <1>4 DEF PostReply, ServiceTypeOK
  <2> QED
    BY <1>1, <1>4, <2>1, <2>2, <2>3 DEF PostReply, ServiceTypeOK, processVars, historyVars
<1> QED
  BY <1>2, <1>3, <1>4 DEF GitlabStep

\* A worker's step leaves GitLab alone and changes only its own state, the
\* store, the history and, when something fails, the budget.
LEMMA WorkerKeeps ==
  ASSUME ServiceInv, NEW w \in Workers, WorkerStep(w)
  PROVE  ServiceTypeOK' /\ UNCHANGED <<gitlabVars, alive>>
<1> USE DEF historyVars, processVars
<1>1. UNCHANGED <<gitlabVars, alive>>
  BY DEF WorkerStep, Claim, ProcessRun, CreateTrace, GetMergeRequestInfo, ListDiscussions,
         RunAgent, CheckStatus, CheckHead, Publish, Raise, Complete, Abandon, HandleFailure,
         Escape, Unshared
<1>2. worker[w] \in WorkerState
  BY DEF ServiceInv, ServiceTypeOK
<1>3. \/ published' = published
      \/ published' = published \cup {[run |-> worker[w].run, head |-> worker[w].head]}
  BY DEF WorkerStep, Claim, ProcessRun, CreateTrace, GetMergeRequestInfo, ListDiscussions,
         RunAgent, CheckStatus, CheckHead, Publish, Raise, Complete, Abandon, HandleFailure,
         Escape, Unshared, FinishPublication, InlineIsRefused, historyVars
<1>4. considered' = considered \/ considered' = considered \cup worker[w].seen
  BY DEF WorkerStep, Claim, ProcessRun, CreateTrace, GetMergeRequestInfo, ListDiscussions,
         RunAgent, CheckStatus, CheckHead, Publish, Raise, Complete, Abandon, HandleFailure,
         Escape, Unshared
<1>5. worker' \in [Workers -> WorkerState]
  BY WorkerMoves DEF GoodMove
<1>6. BudgetType'
  <2>1. BudgetType
    BY DEF ServiceInv, ServiceTypeOK, BudgetType
  <2>2. UNCHANGED budget \/ Spend("faults")
    BY DEF WorkerStep, Claim, ProcessRun, CreateTrace, GetMergeRequestInfo, ListDiscussions,
           RunAgent, CheckStatus, CheckHead, Publish, Raise, Complete, Abandon, HandleFailure,
           Escape, Unshared
  <2> QED
    BY <2>1, <2>2, SpendType DEF BudgetType
<1> QED
  BY <1>1, <1>2, <1>3, <1>4, <1>5, <1>6
     DEF ServiceInv, ServiceTypeOK, BudgetType, gitlabVars, WorkerState, Publications

LEMMA ServiceStep == ServiceInv /\ [ServiceNext]_vars => ServiceInv'
<1> SUFFICES ASSUME ServiceInv, [ServiceNext]_vars PROVE ServiceInv'
  OBVIOUS
<1>1. TypeOK /\ TypeOK' /\ [Next]_storeVars
  BY ServiceUsesStore, TypeStep DEF ServiceInv
<1>2. \A i \in RunIds : KeepsRow(i) /\ ReviewedShas(i)' = ReviewedShas(i)
  <2> SUFFICES ASSUME NEW i \in RunIds PROVE KeepsRow(i) /\ ReviewedShas(i)' = ReviewedShas(i)
    OBVIOUS
  <2>1. KeepsRow(i)
    BY <1>1, OldRows
  <2> QED
    BY <2>1 DEF KeepsRow, SameSubject, ReviewedShas
\* The table has the same ids, and commits and hooks only change as GitLab does.
<1>3. ASSUME UNCHANGED last_id, ServiceTypeOK',
             \A m \in Mrs : hooks'[m] # <<>> => commits'[m] # <<>>,
             \A m \in Mrs : commits[m] # <<>> => commits'[m] # <<>>
      PROVE  ServiceTypeOK' /\ HeadsExist'
  <2>1. \A i \in RunIds : review_run[i].mr \in Mrs
    BY <1>1 DEF TypeOK, Row
  <2> QED
    BY <1>2, <1>3, <2>1 DEF HeadsExist, ServiceInv, RunIds, KeepsRow, SameSubject
<1>4. ASSUME UNCHANGED worker PROVE WorkerKnowledge'
  BY <1>2, <1>4 DEF WorkerKnowledge, ServiceInv, At, KeepsRow, KnowsHead
<1>5. ASSUME NEW mr \in Mrs, GitlabStep(mr) PROVE ServiceInv'
  <2>1. UNCHANGED <<storeVars, worker>>
    BY <1>5 DEF GitlabStep, Push, BecomeReady, PostReply
  <2> QED
    BY <1>1, <1>3, <1>4, <1>5, <2>1, GitlabMoves DEF ServiceInv, storeVars
<1>6. ASSUME NEW mr \in Mrs, DeliverHook(mr)
      PROVE  ServiceInv'
  <2> DEFINE hook == hooks[mr][1]
  <2>1. /\ hooks[mr] # <<>> /\ hooks[mr] \in Seq(Hooks) /\ hook \in Hooks
        /\ UNCHANGED <<commits, replies, worker, alive, budget, published, considered>>
        /\ hooks' = [hooks EXCEPT ![mr] = Tail(@)]
    BY <1>6 DEF DeliverHook, ServiceInv, ServiceTypeOK, processVars, historyVars
  <2>2. hook.sha \in Shas /\ hook.trigger \in Triggers
    BY <2>1 DEF Hooks
  <2>3. EnqueueFullReview(mr, hook.sha) \/ EnqueueReconcile(mr, hook.sha, hook.trigger)
    BY <1>6 DEF DeliverHook
  <2> HIDE DEF hook
  <2>4. Tail(hooks[mr]) \in Seq(Hooks)
    BY <2>1
  <2>5. ServiceTypeOK'
    BY <2>1, <2>4 DEF ServiceInv, ServiceTypeOK
  <2>6. commits[mr] # <<>> /\ \A m \in Mrs : hooks'[m] # <<>> => commits[m] # <<>>
    BY <2>1 DEF ServiceInv, HeadsExist, ServiceTypeOK
  <2>7. ASSUME NEW i \in RunIds' PROVE commits[review_run'[i].mr] # <<>>
    <3>1. CASE i \in RunIds
      BY <1>2, <3>1 DEF ServiceInv, HeadsExist, KeepsRow, SameSubject
    <3>2. CASE i \notin RunIds
      BY <1>1, <2>2, <2>3, <2>6, <3>2, EnqueuedRow
    <3> QED
      BY <3>1, <3>2
  <2> QED
    BY <1>1, <1>4, <2>1, <2>5, <2>6, <2>7 DEF ServiceInv, HeadsExist
<1>7. ASSUME NEW w \in Workers, WorkerStep(w)
      PROVE  ServiceInv'
  <2>1. UNCHANGED last_id
    BY <1>7 DEF WorkerStep, Claim, ProcessRun, CreateTrace, GetMergeRequestInfo,
         ListDiscussions, RunAgent, CheckStatus, CheckHead, Publish, Raise, Complete,
         Abandon, HandleFailure, Escape, Unshared, ClaimNextRun, MarkDone, MarkFailed,
         MarkSupersededIfRunning, storeVars
  <2>2. ServiceTypeOK' /\ UNCHANGED gitlabVars
    BY <1>7, WorkerKeeps
  <2>3. HeadsExist'
    BY <1>3, <2>1, <2>2 DEF gitlabVars, ServiceInv, HeadsExist
  <2>4. GoodMove(w)
    BY <1>7, WorkerMoves
  <2>5. WorkerKnowledge'
    BY <1>2, <2>1, <2>4 DEF GoodMove, WorkerKnowledge, ServiceInv, At, RunIds, KnowsHead
  <2> QED
    BY <1>1, <2>2, <2>3, <2>5 DEF ServiceInv
<1>8. ASSUME Restart PROVE ServiceInv'
  <2>1. UNCHANGED <<storeVars, gitlabVars, historyVars>> /\ worker' = [w \in Workers |-> IdleWorker]
    BY <1>8 DEF Restart
  <2>2. IdleWorker \in WorkerState
    BY DEF IdleWorker, WorkerState, Pcs, ShaOrNull
  <2>3. BudgetType' /\ alive' = Workers
    BY <1>8, SpendType DEF Restart, ServiceInv, ServiceTypeOK, BudgetType
  <2>4. ServiceTypeOK'
    BY <2>1, <2>2, <2>3 DEF ServiceInv, ServiceTypeOK, BudgetType, gitlabVars, historyVars
  <2>5. HeadsExist'
    BY <1>3, <2>1, <2>4 DEF gitlabVars, storeVars, ServiceInv, HeadsExist
  <2>6. WorkerKnowledge'
    BY <2>1 DEF WorkerKnowledge, IdleWorker, At, KnowsHead
  <2> QED
    BY <1>1, <2>4, <2>5, <2>6 DEF ServiceInv
<1>9. ASSUME UNCHANGED vars PROVE ServiceInv'
  <2>1. UNCHANGED <<storeVars, gitlabVars, worker, alive, budget, historyVars>>
    BY <1>9 DEF vars, processVars
  <2>2. ServiceTypeOK'
    BY <2>1 DEF ServiceInv, ServiceTypeOK, gitlabVars, historyVars
  <2>3. HeadsExist'
    BY <2>1 DEF ServiceInv, HeadsExist, RunIds, storeVars, gitlabVars
  <2>4. WorkerKnowledge'
    BY <1>4, <2>1
  <2> QED
    BY <1>1, <2>2, <2>3, <2>4 DEF ServiceInv
<1>10. ASSUME NEW w \in Workers, ClaimRaises(w) PROVE ServiceInv'
  <2>1. UNCHANGED <<storeVars, gitlabVars, worker, historyVars>> /\ alive' \subseteq Workers
    BY <1>10 DEF ClaimRaises, ServiceInv, ServiceTypeOK
  <2>2. BudgetType'
    BY <1>10, SpendType DEF ClaimRaises, ServiceInv, ServiceTypeOK, BudgetType
  <2>3. ServiceTypeOK'
    BY <2>1, <2>2 DEF ServiceInv, ServiceTypeOK, BudgetType, gitlabVars, historyVars
  <2>4. HeadsExist'
    BY <2>1 DEF ServiceInv, HeadsExist, RunIds, storeVars, gitlabVars
  <2> QED
    BY <1>1, <1>4, <2>1, <2>3, <2>4 DEF ServiceInv
<1>11. ASSUME ServiceNext PROVE ServiceInv'
  <2>1. CASE \E mr \in Mrs : GitlabStep(mr) \/ DeliverHook(mr)
    BY <1>5, <1>6, <2>1
  <2>2. CASE \E w \in Workers : WorkerStep(w) \/ ClaimRaises(w)
    BY <1>7, <1>10, <2>2
  <2>3. CASE Restart
    BY <1>8, <2>3
  <2> QED
    BY <1>11, <2>1, <2>2, <2>3 DEF ServiceNext, GitlabStep
<1> QED
  BY <1>9, <1>11

LEMMA ServiceStart == ServiceInit => ServiceInv
<1> SUFFICES ASSUME ServiceInit PROVE ServiceInv
  OBVIOUS
<1>1. TypeOK
  BY DEF ServiceInit, Init, TypeOK, RunIds, MrRow, MrStatuses, ShaOrNull
<1>2. IdleWorker \in WorkerState
  BY DEF IdleWorker, WorkerState, Pcs, ShaOrNull
<1>3. ServiceTypeOK
  BY <1>2, ServiceAssumption DEF ServiceInit, ServiceTypeOK
<1>4. HeadsExist
  BY DEF ServiceInit, Init, HeadsExist, RunIds
<1>5. WorkerKnowledge
  BY DEF ServiceInit, WorkerKnowledge, IdleWorker, At, KnowsHead
<1> QED
  BY <1>1, <1>3, <1>4, <1>5 DEF ServiceInv

\* Every state of the service is well formed, whatever the workers, webhooks and
\* restarts do.
THEOREM ServiceTypeCorrect == ServiceSpec => []ServiceTypeOK
<1>1. ServiceInv => ServiceTypeOK
  BY DEF ServiceInv
<1> QED
  BY <1>1, ServiceStart, ServiceStep, PTL DEF ServiceSpec

\* The service implements the work queue: webhooks, workers and restarts
\* change review_run and merge_request_state only by the store's operations.
THEOREM ServiceImplementsStore == ServiceSpec => UsesRunStore
<1>1. ServiceInit => Init
  BY DEF ServiceInit
<1> QED
  BY <1>1, ServiceStart, ServiceStep, ServiceUsesStore, PTL DEF ServiceSpec, UsesRunStore, Spec

\* Hence the service works through the abstract queue of ReviewQueue, whatever
\* workers, webhooks, errors and restarts come in between.
THEOREM ServiceImplementsQueue == ServiceSpec => ImplementsReviewQueue
  BY ServiceImplementsStore, StoreImplementsQueue, PTL DEF UsesRunStore

\* While the service runs, a pending full review is alone on its merge request.
THEOREM ServicePendingFullAlone == ServiceSpec => []PendingFullIsAlone
  BY ServiceImplementsStore, PendingFullAlone, PTL DEF UsesRunStore
-----------------------------------------------------------------------------
(***************************************************************************)
(* What the workers do to runs: no run is processed twice, and a full      *)
(* review is recorded as done only after its publication.                  *)
(***************************************************************************)

\* A run that a worker holds is claimed: nobody can claim it again.
HeldRunsAreClaimed ==
  \A w \in Workers : ~At(w, "idle") => review_run[worker[w].run].status # "queued"

HeldInv == ServiceInv /\ HeldRunsAreClaimed /\ NoRunIsHeldTwice

\* What a worker does that is not a claim: it keeps its run or drops it.
LEMMA KeepsOrDrops ==
  ASSUME ServiceInv, NEW w \in Workers, WorkerStep(w), ~Claim(w)
  PROVE  /\ ~At(w, "idle")
         /\ worker'[w].pc = "idle" \/ worker'[w].run = worker[w].run
<1>1. worker \in [Workers -> WorkerState]
  BY DEF ServiceInv, ServiceTypeOK
<1>2. worker[w] \in WorkerState
  BY <1>1
<1>3. ASSUME NEW pc \in Pcs, GoTo(w, pc) PROVE worker'[w].run = worker[w].run
  BY <1>3, GoToBecomes DEF ServiceInv
<1>4. ASSUME Release(w) PROVE worker'[w].pc = "idle"
  BY <1>4, ReleaseBecomes DEF ServiceInv
<1>5. ~At(w, "idle")
  BY DEF WorkerStep, ProcessRun, CreateTrace, GetMergeRequestInfo, ListDiscussions, RunAgent,
         CheckStatus, CheckHead, Publish, Raise, Complete, Abandon, HandleFailure, Escape, At,
         Fallible
<1>6. CASE ProcessRun(w) \/ CreateTrace(w) \/ RunAgent(w) \/ CheckStatus(w) \/ Publish(w) \/ Raise(w)
  BY <1>3, <1>4, <1>5, <1>6 DEF ProcessRun, CreateTrace, RunAgent, CheckStatus, Publish,
     FinishPublication, InlineIsRefused, Raise, Pcs
<1>7. CASE GetMergeRequestInfo(w) \/ ListDiscussions(w) \/ CheckHead(w)
  BY <1>1, <1>2, <1>5, <1>7 DEF GetMergeRequestInfo, ListDiscussions, CheckHead, WorkerState
<1>8. CASE Complete(w) \/ Abandon(w) \/ HandleFailure(w) \/ Escape(w)
  BY <1>4, <1>5, <1>8 DEF Complete, Abandon, HandleFailure, Escape
<1> QED
  BY <1>6, <1>7, <1>8 DEF WorkerStep

LEMMA HeldStep == HeldInv /\ [ServiceNext]_vars => HeldInv'
<1> SUFFICES ASSUME HeldInv, [ServiceNext]_vars PROVE HeldInv'
  OBVIOUS
<1>1. ServiceInv /\ ServiceInv'
  BY ServiceStep DEF HeldInv
<1>2. \A i \in RunIds : KeepsRow(i)
  BY <1>1, ServiceUsesStore, OldRows DEF ServiceInv
<1>3. \A w \in Workers : ~At(w, "idle") =>
        /\ worker[w].run \in RunIds
        /\ review_run'[worker[w].run].status # "queued"
  BY <1>1, <1>2 DEF HeldInv, HeldRunsAreClaimed, ServiceInv, WorkerKnowledge, KeepsRow
\* No worker takes a run it did not hold.
<1>4. ASSUME \A w \in Workers : worker'[w].pc = "idle" \/ (~At(w, "idle") /\ worker'[w].run = worker[w].run)
      PROVE  HeldInv'
  BY <1>1, <1>3, <1>4 DEF HeldInv, HeldRunsAreClaimed, NoRunIsHeldTwice, At
<1>5. ASSUME UNCHANGED worker PROVE HeldInv'
  BY <1>4, <1>5 DEF At
<1>6. ASSUME NEW mr \in Mrs, GitlabStep(mr) \/ DeliverHook(mr)
      PROVE  HeldInv'
  BY <1>5, <1>6 DEF GitlabStep, Push, BecomeReady, PostReply, DeliverHook
<1>7. ASSUME NEW w \in Workers, WorkerStep(w)
      PROVE  HeldInv'
  <2>1. \A v \in Workers \ {w} : worker'[v] = worker[v]
    BY <1>1, <1>7, WorkerMoves DEF GoodMove
  <2>2. CASE ~Claim(w)
    BY <1>1, <1>4, <1>7, <2>1, <2>2, KeepsOrDrops DEF At
  <2>3. CASE Claim(w)
    <3>1. PICK i \in RunIds : /\ ClaimNextRun(i)
                              /\ worker' = [worker EXCEPT ![w].pc = "process_run", ![w].run = i]
      BY <2>3 DEF Claim
    <3>2. worker'[w].run = i
      BY <1>1, <3>1 DEF ServiceInv, ServiceTypeOK, WorkerState
    <3>3. review_run[i].status = "queued"
      BY <3>1 DEF ClaimNextRun, Queued
    <3>4. review_run'[i].status = "running"
      BY <1>1, <3>1 DEF ClaimNextRun, ServiceInv, TypeOK, Row
    <3>5. \A v \in Workers \ {w} : ~At(v, "idle") => worker[v].run # i
      BY <3>3 DEF HeldInv, HeldRunsAreClaimed
    <3> QED
      BY <1>1, <1>3, <2>1, <3>2, <3>4, <3>5 DEF HeldInv, HeldRunsAreClaimed, NoRunIsHeldTwice, At
  <2> QED
    BY <2>2, <2>3
<1>8. ASSUME Restart PROVE HeldInv'
  BY <1>4, <1>8 DEF Restart, IdleWorker
<1>9. ASSUME UNCHANGED vars PROVE HeldInv'
  BY <1>5, <1>9 DEF vars
<1>10. ASSUME NEW w \in Workers, ClaimRaises(w) PROVE HeldInv'
  BY <1>5, <1>10 DEF ClaimRaises
<1>11. ASSUME ServiceNext PROVE HeldInv'
  BY <1>6, <1>7, <1>8, <1>10, <1>11 DEF ServiceNext, GitlabStep
<1> QED
  BY <1>9, <1>11

\* However many workers there are and however often the process restarts, no
\* run is in the hands of two workers.
THEOREM RunsAreHeldOnce == ServiceSpec => []NoRunIsHeldTwice
<1>1. ServiceInit => HeldInv
  BY ServiceStart DEF ServiceInit, HeldInv, HeldRunsAreClaimed, NoRunIsHeldTwice, At, IdleWorker
<1>2. HeldInv => NoRunIsHeldTwice
  BY DEF HeldInv
<1> QED
  BY <1>1, <1>2, HeldStep, PTL DEF ServiceSpec
-----------------------------------------------------------------------------
(***************************************************************************)
(* What the delivery of a webhook does to the tables.                      *)
(***************************************************************************)

\* The handler writes the state row of the merge request, and only this one.
SeesOnly(mr, sha) ==
  /\ mr_state'[mr].last_seen_sha = sha
  /\ \A m \in Mrs \ {mr} : mr_state'[m] = mr_state[m]

LEMMA UpsertSees ==
  ASSUME TypeOK, NEW mr \in Mrs, NEW sha, NEW reviewed, NEW status,
         UpsertMrState(mr, sha, reviewed, status)
  PROVE  SeesOnly(mr, sha)
<1> DEFINE row == [last_seen_sha |-> sha,
                   last_reviewed_sha |-> IF reviewed = None THEN mr_state[mr].last_reviewed_sha
                                                            ELSE reviewed,
                   status |-> status]
<1>1. mr_state' = [mr_state EXCEPT ![mr] = row]
  BY DEF UpsertMrState
<1>2. row.last_seen_sha = sha
  OBVIOUS
<1> HIDE DEF row
<1> QED
  BY <1>1, <1>2 DEF TypeOK, SeesOnly

LEMMA FullEnqueued ==
  ASSUME TypeOK, NEW mr \in Mrs, NEW sha \in Shas, EnqueueFullReview(mr, sha)
  PROVE  /\ SeesOnly(mr, sha)
         /\ \/ /\ UNCHANGED <<last_id, review_run>>
               /\ \E i \in FullRuns(mr) : review_run[i].source_sha = sha
            \/ InsertsFull(mr, sha)
<1>1. SeesOnly(mr, sha)
  BY UpsertSees DEF EnqueueFullReview
<1>2. CASE DuplicateFull(mr, sha) # {}
  BY <1>1, <1>2 DEF EnqueueFullReview, DuplicateFull
<1>3. CASE DuplicateFull(mr, sha) = {}
  <2>1. NoTrigger \in Triggers /\ "full_review" \in Kinds /\ ActiveRuns(mr) \subseteq RunIds
    BY DEF NoTrigger, Triggers, Kinds, ActiveRuns, RunsOf
  <2> QED
    BY <1>1, <1>3, <2>1, InsertRows DEF EnqueueFullReview, InsertsFull
<1> QED
  BY <1>2, <1>3

LEMMA ReconcileEnqueued ==
  ASSUME TypeOK, NEW mr \in Mrs, NEW sha \in Shas, NEW t \in Triggers,
         EnqueueReconcile(mr, sha, t)
  PROVE  \/ UNCHANGED storeVars
         \/ SeesOnly(mr, sha) /\ InsertsReconcile(mr, sha, t)
<1>1. "discussion_reconcile" \in Kinds /\ ReconcilesReplacedBy(mr, t) \subseteq RunIds
  BY DEF Kinds, ReconcilesReplacedBy, ActiveRuns, RunsOf
<1> QED
  BY <1>1, InsertRows, UpsertSees DEF EnqueueReconcile, InsertsReconcile

LEMMA Delivery ==
  ASSUME ServiceInv, NEW mr \in Mrs, DeliverHook(mr)
  PROVE  /\ hooks[mr] # <<>> /\ hooks[mr] \in Seq(Hooks) /\ hooks[mr][1].sha \in Shas
         /\ hooks[mr][1].trigger \in Triggers
         /\ hooks' = [hooks EXCEPT ![mr] = Tail(@)]
         /\ UNCHANGED <<commits, worker>>
         /\ \/ /\ hooks[mr][1].kind = "full_review"
               /\ SeesOnly(mr, hooks[mr][1].sha)
               /\ \/ /\ UNCHANGED <<last_id, review_run>>
                     /\ \E i \in FullRuns(mr) : review_run[i].source_sha = hooks[mr][1].sha
                  \/ InsertsFull(mr, hooks[mr][1].sha)
            \/ /\ hooks[mr][1].kind = "discussion_reconcile"
               /\ \/ UNCHANGED storeVars
                  \/ /\ SeesOnly(mr, hooks[mr][1].sha)
                     /\ InsertsReconcile(mr, hooks[mr][1].sha, hooks[mr][1].trigger)
<1> DEFINE hook == hooks[mr][1]
<1>1. /\ hooks[mr] # <<>> /\ hooks[mr] \in Seq(Hooks) /\ hook \in Hooks
      /\ hooks' = [hooks EXCEPT ![mr] = Tail(@)]
      /\ UNCHANGED <<commits, worker>>
  BY DEF DeliverHook, ServiceInv, ServiceTypeOK
<1>2. hook.sha \in Shas /\ hook.trigger \in Triggers /\ TypeOK
  BY <1>1 DEF Hooks, ServiceInv
<1>3. \/ hook.kind = "full_review" /\ EnqueueFullReview(mr, hook.sha)
      \/ hook.kind = "discussion_reconcile" /\ EnqueueReconcile(mr, hook.sha, hook.trigger)
  BY DEF DeliverHook
<1> HIDE DEF hook
<1>4. CASE hook.kind = "full_review" /\ EnqueueFullReview(mr, hook.sha)
  BY <1>1, <1>2, <1>4, FullEnqueued DEF hook
<1>5. CASE hook.kind = "discussion_reconcile" /\ EnqueueReconcile(mr, hook.sha, hook.trigger)
  BY <1>1, <1>2, <1>5, ReconcileEnqueued DEF hook
<1> QED
  BY <1>3, <1>4, <1>5

\* The first webhook is gone, the others follow in their order.
LEMMA TailOf ==
  ASSUME ServiceInv, NEW mr \in Mrs, DeliverHook(mr)
  PROVE  /\ 1 \in DOMAIN hooks[mr]
         /\ \A k \in DOMAIN hooks[mr]' :
              k + 1 \in DOMAIN hooks[mr] /\ 1 < k + 1 /\ hooks'[mr][k] = hooks[mr][k + 1]
         /\ \A k, l \in DOMAIN hooks[mr]' : k < l => k + 1 < l + 1
         /\ \A k \in DOMAIN hooks[mr] : k = 1 \/ \E l \in DOMAIN hooks[mr]' : k = l + 1
<1> DEFINE n == Len(hooks[mr])
<1>1. /\ hooks[mr] # <<>> /\ hooks[mr] \in Seq(Hooks)
      /\ hooks'[mr] = Tail(hooks[mr])
  BY Delivery DEF ServiceInv, ServiceTypeOK
<1>2. /\ n \in Nat /\ n # 0 /\ DOMAIN hooks[mr] = 1..n /\ DOMAIN hooks'[mr] = 1..(n - 1)
      /\ \A k \in 1..(n - 1) : hooks'[mr][k] = hooks[mr][k + 1]
  BY <1>1
<1> HIDE DEF n
<1>3. \A k \in 1..n : k = 1 \/ (k - 1 \in 1..(n - 1) /\ k = (k - 1) + 1)
  BY <1>2
<1>4. /\ 1 \in 1..n
      /\ \A k \in 1..(n - 1) : k + 1 \in 1..n /\ 1 < k + 1
      /\ \A k, l \in 1..(n - 1) : k < l => k + 1 < l + 1
  BY <1>2
<1> QED
  BY <1>2, <1>3, <1>4

\* A row that is neither queued nor superseded after a delivery was there before.
LEMMA DeliveryKeepsRow ==
  ASSUME ServiceInv, NEW mr \in Mrs, DeliverHook(mr), NEW i \in RunIds',
         review_run'[i].status \notin {"queued", "superseded"}
  PROVE  i \in RunIds /\ review_run'[i] = review_run[i]
<1>1. TypeOK
  BY DEF ServiceInv
<1>2. ASSUME NEW kind, NEW sha, NEW t, NEW S, Inserts(mr, kind, sha, t, S)
      PROVE  i \in RunIds /\ review_run'[i] = review_run[i]
  <2>1. i \in RunIds
    BY <1>1, <1>2, NewIds DEF Inserts
  <2> QED
    BY <1>2, <2>1 DEF Inserts
<1>3. ASSUME UNCHANGED <<last_id, review_run>>
      PROVE  i \in RunIds /\ review_run'[i] = review_run[i]
  BY <1>3 DEF RunIds
<1> QED
  BY <1>2, <1>3, Delivery DEF InsertsFull, InsertsReconcile, storeVars
-----------------------------------------------------------------------------
(***************************************************************************)
(* A done review was published to its end, and every commit GitLab has     *)
(* shown to a review is asked for.                                         *)
(***************************************************************************)
Pushed(mr) == {commits[mr][k] : k \in DOMAIN commits[mr]}

WasPublished(i) ==
  \E p \in published : p.run = i /\ p.head \in Pushed(review_run[i].mr)

\* Only the end of the publication leads a full review to mark_done.
HasShown(w) ==
  /\ At(w, "publish") => worker[w].head \in Pushed(RunOf(w).mr)
  /\ At(w, "mark_done") => WasPublished(worker[w].run)

PublishedBeforeDone == \A w \in Workers : IsFull(w) => HasShown(w)

DoneWasPublished ==
  \A i \in RunIds : review_run[i].kind = "full_review" /\ review_run[i].status = "done"
                    => WasPublished(i)

CommitsAreRequested == \A mr \in Mrs : \A sha \in Pushed(mr) : IsRequested(mr, sha)

PublishedInv == ServiceInv /\ PublishedBeforeDone /\ DoneWasPublished /\ CommitsAreRequested

\* A row becomes done by the completion of the worker that holds it.
LEMMA DoneByCompletion ==
  ASSUME ServiceInv, [ServiceNext]_vars, NEW i \in RunIds', review_run'[i].status = "done"
  PROVE  \/ i \in RunIds /\ review_run[i].status = "done"
         \/ \E w \in Workers : Complete(w) /\ worker[w].run = i
<1>1. TypeOK /\ [Next]_storeVars
  BY ServiceUsesStore DEF ServiceInv
<1>2. ASSUME UNCHANGED storeVars
      PROVE  i \in RunIds /\ review_run[i].status = "done"
  BY <1>2 DEF storeVars, RunIds
<1>3. ASSUME NEW w \in Workers, WorkerStep(w), ~Complete(w)
      PROVE  i \in RunIds /\ review_run[i].status = "done"
  <2>1. CASE Claim(w)
    BY <1>1, <2>1 DEF Claim, ClaimNextRun, TypeOK, RunIds, Row
  <2>2. CASE Abandon(w)
    BY <1>1, <1>2, <2>2 DEF Abandon, MarkSupersededIfRunning, TypeOK, RunIds, Row
  <2>3. CASE HandleFailure(w)
    BY <1>1, <1>2, <2>3 DEF HandleFailure, MarkFailed, TypeOK, RunIds, Row
  <2> QED
    BY <1>2, <1>3, <2>1, <2>2, <2>3 DEF WorkerStep, ProcessRun, CreateTrace, GetMergeRequestInfo,
       ListDiscussions, RunAgent, CheckStatus, CheckHead, Publish, Raise, Escape, Unshared
<1>4. ASSUME NEW w \in Workers, Complete(w), worker[w].run # i
      PROVE  i \in RunIds /\ review_run[i].status = "done"
  BY <1>1, <1>2, <1>4 DEF Complete, MarkDone, TypeOK, RunIds, Row
<1>5. ASSUME NEW mr \in Mrs, DeliverHook(mr)
      PROVE  i \in RunIds /\ review_run[i].status = "done"
  BY <1>5, DeliveryKeepsRow
<1>6. ASSUME NEW mr \in Mrs, GitlabStep(mr) PROVE UNCHANGED storeVars
  BY <1>6 DEF GitlabStep, Push, BecomeReady, PostReply
<1>7. ASSUME Restart \/ \E w \in Workers : ClaimRaises(w) PROVE UNCHANGED storeVars
  BY <1>7 DEF Restart, ClaimRaises
<1>8. CASE UNCHANGED vars
  BY <1>2, <1>8 DEF vars
<1>9. CASE ServiceNext
  <2>1. CASE \E w \in Workers : WorkerStep(w)
    BY <1>3, <1>4, <2>1
  <2>2. CASE \E mr \in Mrs : GitlabStep(mr) \/ DeliverHook(mr)
    BY <1>2, <1>5, <1>6, <2>2
  <2> QED
    BY <1>2, <1>7, <1>9, <2>1, <2>2 DEF ServiceNext, GitlabStep
<1> QED
  BY <1>8, <1>9

\* GitLab adds commits and takes none away.
LEMMA PushedStays ==
  ASSUME ServiceInv, [ServiceNext]_vars, NEW mr \in Mrs
  PROVE  /\ Pushed(mr) \subseteq Pushed(mr)'
         /\ \A sha \in Pushed(mr)' : sha \in Pushed(mr) \/ Push(mr, sha)
<1>1. commits \in [Mrs -> Seq(Shas)]
  BY DEF ServiceInv, ServiceTypeOK
<1>2. CASE UNCHANGED commits
  BY <1>2 DEF Pushed
<1>3. ASSUME NEW m \in Mrs, NEW sha \in Shas, Push(m, sha)
      PROVE  /\ Pushed(mr) \subseteq Pushed(mr)'
             /\ \A s \in Pushed(mr)' : s \in Pushed(mr) \/ Push(mr, s)
  <2>1. CASE m # mr
    BY <1>1, <1>3, <2>1 DEF Push, Pushed
  <2>2. CASE m = mr
    <3>1. commits'[mr] = Append(commits[mr], sha) /\ commits[mr] \in Seq(Shas)
      BY <1>1, <1>3, <2>2 DEF Push
    <3>2. /\ DOMAIN commits'[mr] = 1..(Len(commits[mr]) + 1)
          /\ DOMAIN commits[mr] = 1..Len(commits[mr]) /\ Len(commits[mr]) \in Nat
          /\ \A k \in DOMAIN commits[mr] : commits'[mr][k] = commits[mr][k]
          /\ commits'[mr][Len(commits[mr]) + 1] = sha
      BY <3>1
    <3>3. \A k \in DOMAIN commits'[mr] : k \in DOMAIN commits[mr] \/ commits'[mr][k] = sha
      BY <3>2
    <3>4. DOMAIN commits[mr] \subseteq DOMAIN commits'[mr]
      BY <3>2
    <3> QED
      BY <1>3, <2>2, <3>2, <3>3, <3>4 DEF Pushed
  <2> QED
    BY <2>1, <2>2
<1>4. ASSUME NEW w \in Workers, WorkerStep(w) PROVE UNCHANGED commits
  BY <1>4, WorkerKeeps DEF gitlabVars
<1>5. CASE UNCHANGED vars
  BY <1>2, <1>5 DEF vars, gitlabVars
<1>6. CASE ServiceNext
  BY <1>2, <1>3, <1>4, <1>6
     DEF ServiceNext, BecomeReady, PostReply, DeliverHook, ClaimRaises, Restart, gitlabVars
<1> QED
  BY <1>5, <1>6

\* GitLab keeps what it has to deliver, in its order, and adds to the end.
LEMMA HooksStay ==
  ASSUME ServiceInv, NEW mr \in Mrs, NEW m \in Mrs, NEW hook, Send(m, hook)
  PROVE  /\ \A k \in DOMAIN hooks[mr] : k \in DOMAIN hooks'[mr] /\ hooks'[mr][k] = hooks[mr][k]
         /\ m = mr => \E k \in DOMAIN hooks'[mr] : hooks'[mr][k] = hook
<1>1. hooks \in [Mrs -> Seq(Hooks)]
  BY DEF ServiceInv, ServiceTypeOK
<1>2. CASE m # mr
  BY <1>1, <1>2 DEF Send
<1>3. CASE m = mr
  <2>1. hooks'[mr] = Append(hooks[mr], hook) /\ hooks[mr] \in Seq(Hooks)
    BY <1>1, <1>3 DEF Send
  <2>2. /\ DOMAIN hooks'[mr] = 1..(Len(hooks[mr]) + 1)
        /\ DOMAIN hooks[mr] = 1..Len(hooks[mr]) /\ Len(hooks[mr]) \in Nat
        /\ \A k \in DOMAIN hooks[mr] : hooks'[mr][k] = hooks[mr][k]
        /\ hooks'[mr][Len(hooks[mr]) + 1] = hook
    BY <2>1
  <2>3. /\ DOMAIN hooks[mr] \subseteq DOMAIN hooks'[mr]
        /\ Len(hooks[mr]) + 1 \in DOMAIN hooks'[mr]
    BY <2>2
  <2> QED
    BY <2>2, <2>3
<1> QED
  BY <1>2, <1>3

\* What was asked for stays asked for: a webhook that is handled leaves a full
\* review of its commit in the table, or finds one there.
LEMMA RequestStays ==
  ASSUME ServiceInv, [ServiceNext]_vars, NEW mr \in Mrs, NEW sha, IsRequested(mr, sha)
  PROVE  IsRequested(mr, sha)'
<1>1. \A i \in RunIds : KeepsRow(i)
  BY ServiceUsesStore, OldRows DEF ServiceInv
<1>2. CASE \E i \in FullRuns(mr) : review_run[i].source_sha = sha
  BY <1>1, <1>2 DEF IsRequested, FullRuns, RunsOf, KeepsRow, SameSubject
<1>3. ASSUME NEW k \in DOMAIN hooks[mr],
             hooks[mr][k].kind = "full_review", hooks[mr][k].sha = sha
      PROVE  IsRequested(mr, sha)'
  <2>1. CASE UNCHANGED hooks
    BY <1>3, <2>1 DEF IsRequested
  <2>2. ASSUME NEW m \in Mrs, GitlabStep(m) PROVE IsRequested(mr, sha)'
    <3>1. PICK hook : Send(m, hook)
      BY <2>2 DEF GitlabStep, Push, BecomeReady, PostReply
    <3>2. k \in DOMAIN hooks'[mr] /\ hooks'[mr][k] = hooks[mr][k]
      BY <1>3, <3>1, HooksStay
    <3> QED
      BY <1>3, <3>2 DEF IsRequested
  <2>3. ASSUME NEW m \in Mrs, m # mr, DeliverHook(m) PROVE IsRequested(mr, sha)'
    <3>1. hooks'[mr] = hooks[mr]
      BY <2>3, Delivery DEF ServiceInv, ServiceTypeOK
    <3> QED
      BY <1>3, <3>1 DEF IsRequested
  <2>4. ASSUME DeliverHook(mr) PROVE IsRequested(mr, sha)'
    <3>1. CASE k = 1
      <4>1. ASSUME InsertsFull(mr, sha) PROVE IsRequested(mr, sha)'
        <5>1. /\ last_id' \in RunIds' /\ review_run'[last_id'].mr = mr
              /\ review_run'[last_id'].kind = "full_review"
              /\ review_run'[last_id'].source_sha = sha
          BY <4>1 DEF InsertsFull, Inserts, ServiceInv, TypeOK, RunIds
        <5> QED
          BY <5>1 DEF IsRequested, FullRuns, RunsOf
      <4>2. InsertsFull(mr, sha) \/ \E i \in FullRuns(mr) : review_run[i].source_sha = sha
        BY <1>3, <2>4, <3>1, Delivery
      <4> QED
        BY <1>1, <4>1, <4>2 DEF IsRequested, FullRuns, RunsOf, KeepsRow, SameSubject
    <3>2. ASSUME NEW l \in DOMAIN hooks[mr]', k = l + 1 PROVE IsRequested(mr, sha)'
      <4>1. hooks'[mr][l] = hooks[mr][k]
        BY <2>4, <3>2, TailOf
      <4> QED
        BY <1>3, <3>2, <4>1 DEF IsRequested
    <3> QED
      BY <2>4, <3>1, <3>2, TailOf
  <2>5. ASSUME NEW w \in Workers, WorkerStep(w) PROVE UNCHANGED hooks
    BY <2>5, WorkerKeeps DEF gitlabVars
  <2>6. CASE UNCHANGED vars
    BY <2>1, <2>6 DEF vars, gitlabVars
  <2>7. CASE ServiceNext
    BY <2>1, <2>2, <2>3, <2>4, <2>5, <2>7 DEF ServiceNext, GitlabStep, ClaimRaises, Restart, gitlabVars
  <2> QED
    BY <2>6, <2>7
<1> QED
  BY <1>2, <1>3 DEF IsRequested

\* A push is announced in the same step.
LEMMA PushIsRequested ==
  ASSUME ServiceInv, NEW mr \in Mrs, NEW sha, Push(mr, sha)
  PROVE  IsRequested(mr, sha)'
<1>1. Send(mr, Hook("full_review", sha, NoTrigger))
  BY DEF Push
<1>2. PICK k \in DOMAIN hooks'[mr] : hooks'[mr][k] = Hook("full_review", sha, NoTrigger)
  BY <1>1, HooksStay
<1> QED
  BY <1>2 DEF IsRequested, Hook

LEMMA RequestsStep == ServiceInv /\ CommitsAreRequested /\ [ServiceNext]_vars => CommitsAreRequested'
  BY PushedStays, RequestStays, PushIsRequested DEF CommitsAreRequested

\* What a worker has to show when it arrives at the publication and after it.
LEMMA ArrivesPublished ==
  ASSUME PublishedInv, NEW w \in Workers, WorkerStep(w), IsFull(w)
  PROVE  /\ worker'[w].pc = "publish" => worker'[w].head \in Pushed(RunOf(w).mr)
         /\ worker'[w].pc = "mark_done" =>
              \E p \in published' : p.run = worker[w].run /\ p.head \in Pushed(RunOf(w).mr)
<1>1. ServiceInv /\ ServiceTypeOK /\ worker[w] \in WorkerState /\ worker \in [Workers -> WorkerState]
  BY DEF PublishedInv, ServiceInv, ServiceTypeOK
<1>2. ASSUME NEW pc \in Pcs, GoTo(w, pc) PROVE worker'[w].pc = pc
  BY <1>1, <1>2, GoToBecomes
<1>3. ASSUME Release(w) PROVE worker'[w].pc = "idle"
  BY <1>1, <1>3, ReleaseBecomes
<1>4. ~Claim(w) \/ worker'[w].pc = "process_run"
  BY <1>1 DEF Claim, WorkerState
<1>5. ASSUME ~CheckHead(w), ~Publish(w) PROVE worker'[w].pc \notin {"publish", "mark_done"}
  <2>1. CASE ProcessRun(w) \/ CreateTrace(w) \/ CheckStatus(w) \/ Raise(w)
    BY <1>2, <1>3, <2>1 DEF ProcessRun, CreateTrace, CheckStatus, Raise, Pcs
  <2>2. CASE RunAgent(w)
    BY <1>2, <2>2 DEF RunAgent, Pcs
  <2>3. CASE Complete(w) \/ Abandon(w) \/ HandleFailure(w) \/ Escape(w)
    BY <1>3, <2>3 DEF Complete, Abandon, HandleFailure, Escape
  <2>4. CASE GetMergeRequestInfo(w) \/ ListDiscussions(w)
    BY <1>1, <2>4 DEF GetMergeRequestInfo, ListDiscussions, WorkerState
  <2> QED
    BY <1>4, <1>5, <2>1, <2>2, <2>3, <2>4 DEF WorkerStep
<1>6. CASE CheckHead(w)
  <2>1. worker'[w].pc = "publish" /\ worker'[w].head = HeadOf(RunOf(w).mr)
    BY <1>1, <1>6 DEF CheckHead, WorkerState
  <2>2. RunOf(w).mr \in Mrs /\ commits[RunOf(w).mr] # <<>>
    BY <1>1, <1>6, HeldRow DEF CheckHead, At, ServiceInv, HeadsExist, RunOf, Row
  <2>3. commits[RunOf(w).mr] \in Seq(Shas)
    BY <1>1, <2>2 DEF ServiceTypeOK
  <2>4. Len(commits[RunOf(w).mr]) \in DOMAIN commits[RunOf(w).mr]
    BY <2>2, <2>3
  <2> QED
    BY <2>1, <2>4 DEF HeadOf, Pushed
<1>7. CASE Publish(w)
  <2>1. worker[w].head \in Pushed(RunOf(w).mr)
    BY <1>7 DEF Publish, PublishedInv, PublishedBeforeDone, HasShown
  <2>2. worker'[w].pc # "publish"
    BY <1>2, <1>7 DEF Publish, FinishPublication, InlineIsRefused, Pcs
  <2>3. worker'[w].pc = "mark_done" => FinishPublication(w)
    BY <1>2, <1>7 DEF Publish, Pcs
  <2>4. ASSUME FinishPublication(w)
        PROVE  \E p \in published' : p.run = worker[w].run /\ p.head = worker[w].head
    <3> DEFINE p == [run |-> worker[w].run, head |-> worker[w].head]
    <3>1. p \in published'
      BY <2>4 DEF FinishPublication
    <3>2. p.run = worker[w].run /\ p.head = worker[w].head
      OBVIOUS
    <3> QED
      BY <3>1, <3>2
  <2> QED
    BY <2>1, <2>2, <2>3, <2>4
<1> QED
  BY <1>5, <1>6, <1>7

LEMMA PublishedStep == PublishedInv /\ [ServiceNext]_vars => PublishedInv'
<1> SUFFICES ASSUME PublishedInv, [ServiceNext]_vars PROVE PublishedInv'
  OBVIOUS
<1>1. ServiceInv /\ ServiceInv' /\ CommitsAreRequested'
  BY ServiceStep, RequestsStep DEF PublishedInv
<1>2. \A i \in RunIds : KeepsRow(i)
  BY <1>1, ServiceUsesStore, OldRows DEF ServiceInv
<1>3. published \subseteq published'
  BY DEF ServiceNext, WorkerStep, Push, BecomeReady, PostReply, DeliverHook, Restart, Claim,
         ProcessRun, CreateTrace, GetMergeRequestInfo, ListDiscussions, RunAgent, CheckStatus,
         CheckHead, Publish, Raise, Complete, Abandon, HandleFailure, Escape, ClaimRaises,
         Unshared, FinishPublication, InlineIsRefused, historyVars, vars
<1>4. ASSUME NEW i \in RunIds
      PROVE  /\ Pushed(review_run[i].mr) \subseteq Pushed(review_run[i].mr)'
             /\ WasPublished(i) => WasPublished(i)'
  <2>1. review_run[i].mr \in Mrs /\ review_run'[i].mr = review_run[i].mr
    BY <1>1, <1>2, <1>4 DEF KeepsRow, SameSubject, ServiceInv, TypeOK, Row
  <2>2. Pushed(review_run[i].mr) \subseteq Pushed(review_run[i].mr)'
    BY <1>1, <2>1, PushedStays
  <2> QED
    BY <1>3, <2>2 DEF WasPublished
<1>5. DoneWasPublished'
  <2> SUFFICES ASSUME NEW i \in RunIds', review_run'[i].status = "done",
                      review_run'[i].kind = "full_review"
               PROVE  WasPublished(i)'
    BY DEF DoneWasPublished
  <2>1. CASE i \in RunIds /\ review_run[i].status = "done"
    BY <1>2, <1>4, <2>1 DEF KeepsRow, SameSubject, PublishedInv, DoneWasPublished
  <2>2. ASSUME NEW w \in Workers, Complete(w), worker[w].run = i
        PROVE  WasPublished(i)'
    <3>1. At(w, "mark_done") /\ i \in RunIds
      BY <1>1, <2>2, HeldRow DEF Complete, At
    <3>2. IsFull(w)
      BY <1>2, <2>2, <3>1 DEF IsFull, RunOf, KeepsRow, SameSubject
    <3> QED
      BY <1>4, <2>2, <3>1, <3>2 DEF PublishedInv, PublishedBeforeDone, HasShown
  <2> QED
    BY <1>1, <2>1, <2>2, DoneByCompletion
<1>6. ASSUME NEW w \in Workers, ~At(w, "idle"), worker'[w].run = worker[w].run, IsFull(w)'
      PROVE  /\ IsFull(w) /\ worker[w].run \in RunIds
             /\ Pushed(RunOf(w).mr) \subseteq Pushed(RunOf(w).mr)'
  <2>1. worker[w].run \in RunIds
    BY <1>1, <1>6, HeldRow
  <2>2. KeepsRow(worker[w].run) /\ RunOf(w) = review_run[worker[w].run]
        /\ RunOf(w)' = review_run'[worker[w].run]
    BY <1>2, <1>6, <2>1 DEF RunOf
  <2>3. Pushed(review_run[worker[w].run].mr) \subseteq Pushed(RunOf(w).mr)'
    BY <1>4, <1>6, <2>1, <2>2 DEF Pushed
  <2> QED
    BY <1>6, <2>1, <2>2, <2>3 DEF IsFull, KeepsRow, SameSubject
<1>7. ASSUME NEW w \in Workers, worker'[w] = worker[w], IsFull(w)'
      PROVE  HasShown(w)'
  <2>1. CASE worker[w].pc \notin {"publish", "mark_done"}
    BY <1>7, <2>1 DEF HasShown, At
  <2>2. CASE worker[w].pc \in {"publish", "mark_done"}
    <3>1. /\ IsFull(w) /\ worker[w].run \in RunIds
          /\ Pushed(RunOf(w).mr) \subseteq Pushed(RunOf(w).mr)'
      BY <1>6, <1>7, <2>2 DEF At
    <3>2. HasShown(w)
      BY <3>1 DEF PublishedInv, PublishedBeforeDone
    <3>3. WasPublished(worker[w].run) => WasPublished(worker[w].run)'
      BY <1>4, <1>7, <3>1 DEF WasPublished
    <3> QED
      BY <1>7, <3>1, <3>2, <3>3 DEF HasShown, At
  <2> QED
    BY <2>1, <2>2
<1>8. ASSUME NEW w \in Workers, WorkerStep(w), IsFull(w)'
      PROVE  HasShown(w)'
  <2> SUFFICES ASSUME worker'[w].pc \in {"publish", "mark_done"}
               PROVE  HasShown(w)'
    BY DEF HasShown, At
  <2>1. ~Claim(w)
    BY <1>1 DEF Claim, ServiceInv, ServiceTypeOK, WorkerState
  <2>2. ~At(w, "idle") /\ worker'[w].run = worker[w].run
    BY <1>1, <1>8, <2>1, KeepsOrDrops
  <2>3. IsFull(w) /\ Pushed(RunOf(w).mr) \subseteq Pushed(RunOf(w).mr)'
    BY <1>6, <1>8, <2>2
  <2>4. /\ worker'[w].pc = "publish" => worker'[w].head \in Pushed(RunOf(w).mr)
        /\ worker'[w].pc = "mark_done" =>
             \E p \in published' : p.run = worker[w].run /\ p.head \in Pushed(RunOf(w).mr)
    BY <1>8, <2>3, ArrivesPublished
  <2>5. (\E p \in published' : p.run = worker[w].run /\ p.head \in Pushed(RunOf(w).mr))
        => WasPublished(worker[w].run)'
    BY <2>2, <2>3 DEF WasPublished, RunOf
  <2> QED
    BY <2>2, <2>3, <2>4, <2>5 DEF HasShown, At
<1>9. PublishedBeforeDone'
  <2>1. ASSUME UNCHANGED worker PROVE PublishedBeforeDone'
    BY <1>7, <2>1 DEF PublishedBeforeDone
  <2>2. ASSUME \/ \E mr \in Mrs : GitlabStep(mr) \/ DeliverHook(mr)
               \/ \E w \in Workers : ClaimRaises(w)
        PROVE UNCHANGED worker
    BY <2>2 DEF GitlabStep, Push, BecomeReady, PostReply, DeliverHook, ClaimRaises
  <2>3. ASSUME NEW w \in Workers, WorkerStep(w) PROVE PublishedBeforeDone'
    <3>1. \A v \in Workers \ {w} : worker'[v] = worker[v]
      BY <1>1, <2>3, WorkerMoves DEF GoodMove
    <3> QED
      BY <1>7, <1>8, <2>3, <3>1 DEF PublishedBeforeDone
  <2>4. ASSUME Restart PROVE PublishedBeforeDone'
    BY <2>4 DEF Restart, IdleWorker, PublishedBeforeDone, HasShown, At
  <2>5. ASSUME UNCHANGED vars PROVE PublishedBeforeDone'
    BY <2>1, <2>5 DEF vars
  <2>6. ASSUME ServiceNext PROVE PublishedBeforeDone'
    BY <2>1, <2>2, <2>3, <2>4, <2>6 DEF ServiceNext, GitlabStep
  <2> QED
    BY <2>5, <2>6
<1> QED
  BY <1>1, <1>5, <1>9 DEF PublishedInv

\* A full review recorded as done was published to its end, and the head its
\* second check found is asked for, for any interleaving of workers with
\* pushes that supersede it, failures and restarts.
THEOREM DoneReviewsArePublished == ServiceSpec => []DoneReviewWasPublished
<1>1. ServiceInit => PublishedInv
  BY ServiceStart DEF ServiceInit, Init, PublishedInv, PublishedBeforeDone, HasShown, At, IdleWorker,
     DoneWasPublished, CommitsAreRequested, Pushed, RunIds
<1>2. PublishedInv => DoneReviewWasPublished
  BY DEF PublishedInv, DoneWasPublished, CommitsAreRequested, WasPublished,
     DoneReviewWasPublished, FullRuns, RunsOf
<1> QED
  BY <1>1, <1>2, PublishedStep, PTL DEF ServiceSpec
-----------------------------------------------------------------------------
(***************************************************************************)
(* No run is left behind: while nothing fails outside a try block, every   *)
(* running run has its worker.                                             *)
(***************************************************************************)

BudgetBounds == budget.crashes <= MaxCrashes /\ budget.faults <= MaxFaults

RunningRunIsHeld ==
  NothingFailedOutside =>
    \A i \in RunIds : IsRunning(i) => \E w \in Workers : Holds(w, i)

RunningInv == HeldInv /\ BudgetBounds /\ RunningRunIsHeld

\* What is spent is never given back.
LEMMA Spending ==
  ASSUME ServiceInv, BudgetBounds, [ServiceNext]_vars
  PROVE  /\ BudgetBounds'
         /\ NothingFailedOutside' =>
              NothingFailedOutside /\ ~Restart /\ \A w \in Workers : ~Escape(w) /\ ~ClaimRaises(w)
<1> DEFINE Keys == {"pushes", "ready", "crashes", "faults"}
<1>1. budget \in [Keys -> Nat] /\ MaxCrashes \in Nat /\ MaxFaults \in Nat
  BY ServiceAssumption DEF ServiceInv, ServiceTypeOK
<1>2. ASSUME NEW what \in Keys, Spend(what)
      PROVE  /\ budget'[what] = budget[what] - 1
             /\ \A k \in Keys : k # what => budget'[k] = budget[k]
             /\ budget'.crashes <= budget.crashes /\ budget'.faults <= budget.faults
  BY <1>1, <1>2 DEF Spend
<1>3. \/ UNCHANGED budget
      \/ \E what \in Keys : Spend(what)
  BY DEF ServiceNext, WorkerStep, Push, BecomeReady, PostReply, DeliverHook, Restart, Claim,
         ProcessRun, CreateTrace, GetMergeRequestInfo, ListDiscussions, RunAgent, CheckStatus,
         CheckHead, Publish, Raise, Complete, Abandon, HandleFailure, Escape, ClaimRaises,
         Unshared, processVars, vars
<1>4. budget'.crashes <= budget.crashes /\ budget'.faults <= budget.faults
  BY <1>1, <1>2, <1>3
<1>5. budget' \in [Keys -> Nat]
  BY ServiceStep DEF ServiceInv, ServiceTypeOK
<1>6. BudgetBounds'
  BY <1>1, <1>4, <1>5 DEF BudgetBounds
<1>7. ASSUME NothingFailedOutside'
      PROVE  /\ NothingFailedOutside
             /\ budget'.crashes = budget.crashes /\ budget'.faults = budget.faults
  BY <1>1, <1>4, <1>5, <1>7 DEF BudgetBounds, NothingFailedOutside
<1>8. ASSUME Spend("crashes") PROVE budget'.crashes # budget.crashes
  BY <1>1, <1>2, <1>8
<1>9. ASSUME Spend("faults") PROVE budget'.faults # budget.faults
  BY <1>1, <1>2, <1>9
<1>10. ASSUME NothingFailedOutside', NEW w \in Workers PROVE ~Escape(w) /\ ~ClaimRaises(w)
  BY <1>7, <1>9, <1>10 DEF Escape, ClaimRaises
<1> QED
  BY <1>6, <1>7, <1>8, <1>10 DEF Restart

\* A row becomes running by a claim.
LEMMA RunningByClaim ==
  ASSUME ServiceInv, [ServiceNext]_vars, NEW i \in RunIds', review_run'[i].status = "running"
  PROVE  \/ i \in RunIds /\ review_run[i].status = "running"
         \/ \E w \in Workers : /\ worker'[w].pc = "process_run" /\ worker'[w].run = i
                                /\ WorkerStep(w)
<1> DEFINE Was == i \in RunIds /\ review_run[i].status = "running"
<1>1. TypeOK /\ worker \in [Workers -> WorkerState]
  BY DEF ServiceInv, ServiceTypeOK
<1>2. ASSUME UNCHANGED storeVars PROVE Was
  BY <1>2 DEF storeVars, RunIds
<1>3. ASSUME NEW w \in Workers, WorkerStep(w), ~Claim(w) PROVE Was
  <2>1. CASE Complete(w)
    BY <1>1, <1>2, <2>1 DEF Complete, MarkDone, TypeOK, RunIds, Row
  <2>2. CASE Abandon(w)
    BY <1>1, <1>2, <2>2 DEF Abandon, MarkSupersededIfRunning, TypeOK, RunIds, Row
  <2>3. CASE HandleFailure(w)
    BY <1>1, <1>2, <2>3 DEF HandleFailure, MarkFailed, TypeOK, RunIds, Row
  <2> QED
    BY <1>2, <1>3, <2>1, <2>2, <2>3 DEF WorkerStep, ProcessRun, CreateTrace, GetMergeRequestInfo,
       ListDiscussions, RunAgent, CheckStatus, CheckHead, Publish, Raise, Escape, Unshared
<1>4. ASSUME NEW w \in Workers, Claim(w)
      PROVE  Was \/ (worker'[w].pc = "process_run" /\ worker'[w].run = i)
  <2>1. PICK j \in RunIds : /\ ClaimNextRun(j)
                            /\ worker' = [worker EXCEPT ![w].pc = "process_run", ![w].run = j]
    BY <1>4 DEF Claim
  <2>2. worker'[w].pc = "process_run" /\ worker'[w].run = j
    BY <1>1, <2>1 DEF WorkerState
  <2>3. CASE i # j
    BY <1>1, <2>1, <2>3 DEF ClaimNextRun, TypeOK, RunIds
  <2> QED
    BY <2>2, <2>3
<1>5. ASSUME NEW mr \in Mrs, DeliverHook(mr) PROVE Was
  BY <1>5, DeliveryKeepsRow
<1>6. ASSUME \/ \E mr \in Mrs : GitlabStep(mr)
             \/ Restart
             \/ \E w \in Workers : ClaimRaises(w)
             \/ UNCHANGED vars
      PROVE UNCHANGED storeVars
  BY <1>6 DEF GitlabStep, Push, BecomeReady, PostReply, Restart, ClaimRaises, vars
<1> QED
  BY <1>2, <1>3, <1>4, <1>5, <1>6 DEF ServiceNext, GitlabStep, WorkerStep

\* A worker drops a running run only by ending it, or by an error it does not handle.
LEMMA DropsEnded ==
  ASSUME ServiceInv, NEW w \in Workers, WorkerStep(w), ~At(w, "idle"), worker'[w].pc = "idle",
         ~Escape(w)
  PROVE  \/ ~IsRunning(worker[w].run)
         \/ review_run'[worker[w].run].status # "running"
<1>1. /\ TypeOK /\ worker \in [Workers -> WorkerState] /\ worker[w] \in WorkerState
      /\ worker[w].run \in RunIds
  BY HeldRow DEF ServiceInv, ServiceTypeOK
<1>2. ASSUME NEW pc \in Pcs, GoTo(w, pc) PROVE worker'[w].pc = pc
  BY <1>2, GoToBecomes DEF ServiceInv
<1>3. ~(CreateTrace(w) \/ RunAgent(w) \/ Publish(w) \/ Raise(w))
  BY <1>2 DEF CreateTrace, RunAgent, Publish, FinishPublication, InlineIsRefused, Raise, Pcs
<1>4. ~(GetMergeRequestInfo(w) \/ ListDiscussions(w) \/ CheckHead(w))
  BY <1>1 DEF GetMergeRequestInfo, ListDiscussions, CheckHead, WorkerState
<1>5. ~Claim(w)
  BY DEF Claim
<1>6. CASE ProcessRun(w) \/ CheckStatus(w)
  BY <1>2, <1>6 DEF ProcessRun, CheckStatus, Pcs
<1>7. CASE Complete(w)
  BY <1>1, <1>7 DEF Complete, MarkDone, TypeOK, Row
<1>8. CASE Abandon(w)
  BY <1>1, <1>8 DEF Abandon, MarkSupersededIfRunning, TypeOK, Row
<1>9. CASE HandleFailure(w)
  BY <1>1, <1>9 DEF HandleFailure, MarkFailed, TypeOK, Row
<1> QED
  BY <1>3, <1>4, <1>5, <1>6, <1>7, <1>8, <1>9 DEF WorkerStep

LEMMA RunningStep == RunningInv /\ [ServiceNext]_vars => RunningInv'
<1> SUFFICES ASSUME RunningInv, [ServiceNext]_vars PROVE RunningRunIsHeld'
  BY HeldStep, Spending DEF RunningInv, HeldInv
<1> SUFFICES ASSUME NothingFailedOutside', NEW i \in RunIds', review_run'[i].status = "running"
             PROVE  \E w \in Workers : worker'[w].pc # "idle" /\ worker'[w].run = i
  BY DEF RunningRunIsHeld, IsRunning, Holds, At
<1>1. ServiceInv /\ BudgetBounds
  BY DEF RunningInv, HeldInv
<1>2. NothingFailedOutside /\ ~Restart /\ \A w \in Workers : ~Escape(w) /\ ~ClaimRaises(w)
  BY <1>1, Spending
<1>3. ASSUME i \in RunIds, review_run[i].status = "running"
      PROVE  \E w \in Workers : worker'[w].pc # "idle" /\ worker'[w].run = i
  <2>1. PICK w \in Workers : worker[w].pc # "idle" /\ worker[w].run = i
    BY <1>2, <1>3 DEF RunningInv, RunningRunIsHeld, IsRunning, Holds, At
  <2>2. CASE WorkerStep(w)
    <3>1. ~Claim(w)
      BY <2>1 DEF Claim, At
    <3>2. worker'[w].pc = "idle" \/ worker'[w].run = i
      BY <1>1, <2>1, <2>2, <3>1, KeepsOrDrops
    <3>3. worker'[w].pc # "idle"
      BY <1>1, <1>2, <1>3, <2>1, <2>2, DropsEnded DEF IsRunning, At
    <3> QED
      BY <3>2, <3>3
  <2>3. ASSUME NEW v \in Workers, WorkerStep(v), v # w PROVE worker'[w] = worker[w]
    BY <1>1, <2>3, WorkerMoves DEF GoodMove
  <2>4. ASSUME (\E mr \in Mrs : GitlabStep(mr) \/ DeliverHook(mr)) \/ UNCHANGED vars
        PROVE  worker'[w] = worker[w]
    BY <2>4 DEF GitlabStep, Push, BecomeReady, PostReply, DeliverHook, vars
  <2>5. WorkerStep(w) \/ worker'[w] = worker[w]
    BY <1>2, <2>3, <2>4 DEF ServiceNext, GitlabStep
  <2> QED
    BY <2>1, <2>2, <2>5
<1>4. ASSUME NEW w \in Workers, worker'[w].pc = "process_run", worker'[w].run = i
      PROVE  \E v \in Workers : worker'[v].pc # "idle" /\ worker'[v].run = i
  BY <1>4
<1> QED
  BY <1>1, <1>3, <1>4, RunningByClaim

\* As long as nothing fails outside a try block, every run in the table as running is in
\* the hands of one worker, and of no other, for any number of workers and of errors inside.
THEOREM RunningRunsHeld == ServiceSpec => []RunningRunsAreHeld
<1>1. ServiceInit => RunningInv
  <2>1. ASSUME ServiceInit PROVE RunningInv
    <3>1. ServiceInv /\ HeldInv
      BY <2>1, ServiceStart DEF ServiceInit, HeldInv, HeldRunsAreClaimed, NoRunIsHeldTwice, At, IdleWorker
    <3>2. BudgetBounds
      BY <2>1, ServiceAssumption DEF ServiceInit, BudgetBounds
    <3>3. RunningRunIsHeld
      BY <2>1 DEF ServiceInit, Init, RunIds, RunningRunIsHeld
    <3> QED
      BY <3>1, <3>2, <3>3 DEF RunningInv
  <2> QED
    BY <2>1
<1>2. RunningInv => RunningRunsAreHeld
  BY DEF RunningInv, HeldInv, RunningRunIsHeld, RunningRunsAreHeld, NoRunIsHeldTwice, Holds
<1> QED
  BY <1>1, <1>2, RunningStep, PTL DEF ServiceSpec
-----------------------------------------------------------------------------
(***************************************************************************)
(* What merge_request_state says of the head: once the head was enqueued,  *)
(* everything that is queued, held or announced is about it.               *)
(***************************************************************************)

\* The rows, commits and webhooks of a merge request name pushed commits only,
\* and webhooks come in the order of the pushes.
HeadQueued(mr) == \E i \in FullRuns(mr) : review_run[i].source_sha = HeadOf(mr)

ShasKnown(mr) ==
  /\ \A i \in FullRuns(mr) : \E k \in DOMAIN commits[mr] : commits[mr][k] = review_run[i].source_sha
  /\ \A k \in DOMAIN hooks[mr] : \E l \in DOMAIN commits[mr] : commits[mr][l] = hooks[mr][k].sha

HooksInOrder(mr) ==
  \A k, l \in DOMAIN hooks[mr] :
    k < l /\ hooks[mr][k].sha = HeadOf(mr) => hooks[mr][l].sha = HeadOf(mr)

\* A head that was not enqueued has its webhook still to come.
HookWaits(mr) ==
  commits[mr] # <<>> /\ ~HeadQueued(mr) =>
    \E k \in DOMAIN hooks[mr] :
      hooks[mr][k].kind = "full_review" /\ hooks[mr][k].sha = HeadOf(mr)

Settled(mr) ==
  HeadQueued(mr) =>
    /\ mr_state[mr].last_seen_sha = HeadOf(mr)
    /\ \A k \in DOMAIN hooks[mr] : hooks[mr][k].sha = HeadOf(mr)
    /\ \A i \in ActiveRuns(mr) : review_run[i].source_sha = HeadOf(mr)
    /\ \A w \in Workers : worker[w].pc \in KnowsHead /\ worker[w].run \in ActiveRuns(mr)
                          => worker[w].sha = HeadOf(mr)

SeenFor(mr) == ShasKnown(mr) /\ HooksInOrder(mr) /\ HookWaits(mr) /\ Settled(mr)
SeenInv == ServiceInv /\ \A mr \in Mrs : SeenFor(mr)

\* Nothing happens to a merge request whose tables, commits and webhooks stay.
LEMMA SeenStays ==
  ASSUME SeenInv, [ServiceNext]_vars, NEW mr \in Mrs,
         commits'[mr] = commits[mr], hooks'[mr] = hooks[mr],
         FullRuns(mr)' = FullRuns(mr),
         ActiveRuns(mr)' \subseteq ActiveRuns(mr),
         HeadQueued(mr) => mr_state'[mr].last_seen_sha = HeadOf(mr),
         \A w \in Workers : worker'[w].pc \in KnowsHead /\ worker'[w].run \in ActiveRuns(mr)' =>
           \/ worker'[w].sha = HeadOf(mr)
           \/ /\ worker[w].pc \in KnowsHead
              /\ worker'[w].run = worker[w].run /\ worker'[w].sha = worker[w].sha
  PROVE  SeenFor(mr)'
<1>1. ServiceInv /\ SeenFor(mr)
  BY DEF SeenInv
<1>2. \A i \in RunIds : KeepsRow(i)
  BY <1>1, ServiceUsesStore, OldRows DEF ServiceInv
<1>3. \A i \in RunIds : review_run'[i].source_sha = review_run[i].source_sha
  BY <1>2 DEF KeepsRow, SameSubject
<1>4. FullRuns(mr) \subseteq RunIds /\ ActiveRuns(mr) \subseteq RunIds
  BY DEF FullRuns, ActiveRuns, RunsOf
<1>5. HeadOf(mr)' = HeadOf(mr)
  BY DEF HeadOf
<1>6. HeadQueued(mr)' <=> HeadQueued(mr)
  BY <1>3, <1>4, <1>5 DEF HeadQueued
<1>7. ShasKnown(mr)' /\ HooksInOrder(mr)'
  BY <1>1, <1>3, <1>4, <1>5 DEF SeenFor, ShasKnown, HooksInOrder
<1>8. HookWaits(mr)'
  BY <1>1, <1>5, <1>6 DEF SeenFor, HookWaits
<1>9. Settled(mr)'
  BY <1>1, <1>3, <1>4, <1>5, <1>6 DEF SeenFor, Settled
<1> QED
  BY <1>7, <1>8, <1>9 DEF SeenFor

\* Rows of the table are active only if they were, and about what they were.
LEMMA ActiveShrinks ==
  ASSUME ServiceInv, [ServiceNext]_vars, UNCHANGED last_id, NEW mr \in Mrs
  PROVE  FullRuns(mr)' = FullRuns(mr) /\ ActiveRuns(mr)' \subseteq ActiveRuns(mr)
<1>1. TypeOK /\ RunIds' = RunIds /\ \A i \in RunIds : KeepsRow(i) /\ review_run[i] \in Row
  BY ServiceUsesStore, OldRows DEF ServiceInv, TypeOK, RunIds
<1>2. \A i \in RunIds : review_run'[i].status \in Active => review_run[i].status \in Active
  BY <1>1 DEF KeepsRow, Row, Active, Terminal
<1> QED
  BY <1>1, <1>2 DEF FullRuns, ActiveRuns, RunsOf, KeepsRow, SameSubject

\* What a worker writes to merge_request_state is about the run it ends.
LEMMA WorkerWrites ==
  ASSUME SeenInv, NEW w \in Workers, WorkerStep(w), NEW mr \in Mrs, HeadQueued(mr)
  PROVE  mr_state'[mr].last_seen_sha = HeadOf(mr)
<1>1. ServiceInv /\ TypeOK /\ Settled(mr)
  BY DEF SeenInv, ServiceInv, SeenFor
<1>2. ASSUME UNCHANGED mr_state PROVE mr_state'[mr].last_seen_sha = HeadOf(mr)
  BY <1>1, <1>2 DEF Settled
<1>3. ASSUME NEW i \in RunIds, NEW sha, NEW reviewed, NEW status, IsRunning(i),
             UpsertMrState(review_run[i].mr, sha, reviewed, status),
             review_run[i].mr = mr => sha = HeadOf(mr)
      PROVE  mr_state'[mr].last_seen_sha = HeadOf(mr)
  <2>1. review_run[i].mr \in Mrs
    BY <1>1 DEF TypeOK, Row
  <2>2. SeesOnly(review_run[i].mr, sha)
    BY <1>1, <1>3, <2>1, UpsertSees
  <2>3. mr_state[mr].last_seen_sha = HeadOf(mr)
    BY <1>1 DEF Settled
  <2> QED
    BY <1>3, <2>2, <2>3 DEF SeesOnly
<1>4. ASSUME NEW i \in RunIds, IsRunning(i), review_run[i].mr = mr PROVE i \in ActiveRuns(mr)
  BY <1>4 DEF ActiveRuns, RunsOf, IsRunning, Active
<1>5. CASE Complete(w)
  <2>1. /\ worker[w].run \in RunIds /\ worker[w].pc \in KnowsHead
        /\ MarkDone(worker[w].run, worker[w].sha)
    BY <1>1, <1>5, HeldRow DEF Complete, At, KnowsHead
  <2>2. CASE IsRunning(worker[w].run)
    <3>1. review_run[worker[w].run].mr = mr => worker[w].sha = HeadOf(mr)
      BY <1>1, <1>4, <2>1, <2>2 DEF Settled
    <3> QED
      BY <1>3, <2>1, <2>2, <3>1 DEF MarkDone
  <2> QED
    BY <1>2, <2>1, <2>2 DEF MarkDone, storeVars
<1>6. CASE HandleFailure(w)
  <2>1. /\ worker[w].run \in RunIds
        /\ MarkFailed(worker[w].run, review_run[worker[w].run].source_sha)
    BY <1>1, <1>6, HeldRow DEF HandleFailure, At, RunOf
  <2>2. CASE IsRunning(worker[w].run)
    <3>1. review_run[worker[w].run].mr = mr => review_run[worker[w].run].source_sha = HeadOf(mr)
      BY <1>1, <1>4, <2>1, <2>2 DEF Settled
    <3> QED
      BY <1>3, <2>1, <2>2, <3>1 DEF MarkFailed
  <2> QED
    BY <1>2, <2>1, <2>2 DEF MarkFailed, storeVars
<1> QED
  BY <1>2, <1>5, <1>6 DEF WorkerStep, Claim, ProcessRun, CreateTrace, GetMergeRequestInfo,
     ListDiscussions, RunAgent, CheckStatus, CheckHead, Publish, Raise, Abandon, Escape, Unshared,
     ClaimNextRun, MarkSupersededIfRunning, storeVars

\* Where the commit of a worker comes from.
LEMMA WorkerReads ==
  ASSUME ServiceInv, NEW w \in Workers, WorkerStep(w), worker'[w].pc \in KnowsHead
  PROVE  \/ /\ worker'[w].run = worker[w].run
            /\ worker'[w].sha = HeadOf(RunOf(w).mr)
         \/ /\ worker[w].pc \in KnowsHead
            /\ worker'[w].run = worker[w].run /\ worker'[w].sha = worker[w].sha
<1>1. worker \in [Workers -> WorkerState] /\ worker[w] \in WorkerState /\ ServiceTypeOK
  BY DEF ServiceInv, ServiceTypeOK
<1>2. ASSUME NEW pc \in Pcs, GoTo(w, pc)
      PROVE  /\ worker'[w].pc = pc /\ worker'[w].run = worker[w].run
             /\ worker'[w].sha = worker[w].sha
  BY <1>1, <1>2, GoToBecomes
<1>3. ASSUME Release(w) PROVE FALSE
  BY <1>1, <1>3, ReleaseBecomes DEF KnowsHead
<1>4. ~(Complete(w) \/ Abandon(w) \/ HandleFailure(w) \/ Escape(w))
  BY <1>3 DEF Complete, Abandon, HandleFailure, Escape
<1>5. ~(Claim(w) \/ ProcessRun(w) \/ CreateTrace(w) \/ Raise(w))
  <2>1. ~Claim(w)
    BY <1>1 DEF Claim, WorkerState, KnowsHead
  <2> QED
    BY <1>2, <1>3, <2>1 DEF ProcessRun, CreateTrace, Raise, Pcs, KnowsHead
<1>6. CASE GetMergeRequestInfo(w)
  BY <1>1, <1>6 DEF GetMergeRequestInfo, WorkerState
<1>7. CASE ListDiscussions(w) \/ CheckHead(w)
  BY <1>1, <1>7 DEF ListDiscussions, CheckHead, WorkerState, At, KnowsHead
<1>8. CASE RunAgent(w) \/ CheckStatus(w) \/ Publish(w)
  BY <1>2, <1>3, <1>8 DEF RunAgent, CheckStatus, Publish, FinishPublication, InlineIsRefused, Pcs,
     At, KnowsHead
<1> QED
  BY <1>4, <1>5, <1>6, <1>7, <1>8 DEF WorkerStep

\* A webhook is sent for the head.
LEMMA SendSeen ==
  ASSUME SeenInv, [ServiceNext]_vars, NEW mr \in Mrs, NEW kind, NEW t,
         kind \in Kinds, t \in Triggers, commits[mr] # <<>>,
         UNCHANGED <<storeVars, worker, commits>>, Send(mr, Hook(kind, HeadOf(mr), t)),
         NEW m \in Mrs
  PROVE  SeenFor(m)'
<1>1. ServiceInv /\ SeenFor(m)
  BY DEF SeenInv
<1>2. /\ hooks \in [Mrs -> Seq(Hooks)] /\ commits[mr] \in Seq(Shas)
      /\ FullRuns(m)' = FullRuns(m) /\ ActiveRuns(m)' = ActiveRuns(m)
      /\ HeadOf(m)' = HeadOf(m) /\ commits' = commits /\ UNCHANGED <<review_run, mr_state, worker>>
  BY <1>1 DEF ServiceInv, ServiceTypeOK, storeVars, FullRuns, ActiveRuns, RunsOf, RunIds, HeadOf
<1>3. HeadQueued(m)' <=> HeadQueued(m)
  BY <1>2 DEF HeadQueued
<1>4. CASE m # mr
  <2>1. hooks'[m] = hooks[m]
    BY <1>2, <1>4 DEF Send
  <2> QED
    BY <1>1, <1>2, <1>3, <2>1 DEF SeenFor, ShasKnown, HooksInOrder, HookWaits, Settled
<1>5. CASE m = mr
  <2> DEFINE h == Hook(kind, HeadOf(mr), t)
             n == Len(hooks[mr])
  <2>1. h \in Hooks /\ h.sha = HeadOf(mr)
    BY <1>1, HeadType DEF Hook, Hooks
  <2> HIDE DEF h
  <2>2. hooks'[mr] = Append(hooks[mr], h) /\ hooks[mr] \in Seq(Hooks)
    BY <1>2 DEF Send, h
  <2>3. /\ n \in Nat /\ DOMAIN hooks[mr] = 1..n /\ DOMAIN hooks'[mr] = 1..(n + 1)
        /\ hooks'[mr][n + 1] = h
        /\ \A k \in 1..n : hooks'[mr][k] = hooks[mr][k]
    BY <2>1, <2>2
  <2> HIDE DEF n
  <2>4. \A k \in 1..(n + 1) : k \in 1..n \/ k = n + 1
    BY <2>3
  <2>5. Len(commits[mr]) \in DOMAIN commits[mr] /\ HeadOf(mr) = commits[mr][Len(commits[mr])]
    BY <1>2 DEF HeadOf
  <2>6. ShasKnown(mr)'
    BY <1>1, <1>2, <1>5, <2>1, <2>3, <2>4, <2>5 DEF SeenFor, ShasKnown
  <2>7. HooksInOrder(mr)'
    BY <1>1, <1>2, <1>5, <2>1, <2>3, <2>4 DEF SeenFor, HooksInOrder
  <2>8. HookWaits(mr)'
    BY <1>1, <1>2, <1>3, <1>5, <2>3 DEF SeenFor, HookWaits
  <2>9. Settled(mr)'
    BY <1>1, <1>2, <1>3, <1>5, <2>1, <2>3, <2>4 DEF SeenFor, Settled
  <2> QED
    BY <1>5, <2>6, <2>7, <2>8, <2>9 DEF SeenFor
<1> QED
  BY <1>4, <1>5

\* A new commit that was never pushed before is in no row yet, and in the last webhook.
LEMMA PushSeen ==
  ASSUME SeenInv, ~ForcePushBack, NEW mr \in Mrs, NEW sha \in Shas, Push(mr, sha),
         NEW m \in Mrs
  PROVE  SeenFor(m)'
<1>1. ServiceInv /\ SeenFor(m)
  BY DEF SeenInv
<1>2. /\ hooks \in [Mrs -> Seq(Hooks)] /\ commits \in [Mrs -> Seq(Shas)]
      /\ FullRuns(m)' = FullRuns(m) /\ ActiveRuns(m)' = ActiveRuns(m)
      /\ UNCHANGED <<review_run, mr_state, worker>>
  BY <1>1 DEF Push, ServiceInv, ServiceTypeOK, storeVars, FullRuns, ActiveRuns, RunsOf, RunIds
<1>3. CASE m # mr
  <2>1. hooks'[m] = hooks[m] /\ commits'[m] = commits[m]
    BY <1>2, <1>3 DEF Push, Send
  <2> QED
    BY <1>1, <1>2, <2>1 DEF SeenFor, ShasKnown, HooksInOrder, HookWaits, Settled, HeadQueued, HeadOf
<1>4. CASE m = mr
  <2> DEFINE h == Hook("full_review", sha, NoTrigger)
             n == Len(hooks[mr])
             c == Len(commits[mr])
  <2>1. h \in Hooks /\ h.sha = sha /\ h.kind = "full_review"
    BY DEF Hook, Hooks, Kinds, NoTrigger, Triggers
  <2> HIDE DEF h
  <2>2. /\ hooks'[mr] = Append(hooks[mr], h) /\ hooks[mr] \in Seq(Hooks)
        /\ commits'[mr] = Append(commits[mr], sha) /\ commits[mr] \in Seq(Shas)
        /\ \A k \in DOMAIN commits[mr] : commits[mr][k] # sha
    BY <1>2 DEF Push, Send, h
  <2>3. /\ n \in Nat /\ DOMAIN hooks[mr] = 1..n /\ DOMAIN hooks'[mr] = 1..(n + 1)
        /\ hooks'[mr][n + 1] = h
        /\ \A k \in 1..n : hooks'[mr][k] = hooks[mr][k]
    BY <2>1, <2>2
  <2>4. /\ c \in Nat /\ DOMAIN commits[mr] = 1..c /\ DOMAIN commits'[mr] = 1..(c + 1)
        /\ commits'[mr][c + 1] = sha /\ Len(commits'[mr]) = c + 1
        /\ \A k \in 1..c : commits'[mr][k] = commits[mr][k]
    BY <2>2
  <2>5. HeadOf(mr)' = sha
    BY <2>4 DEF HeadOf
  <2> HIDE DEF n, c
  <2>6. (\A k \in 1..(n + 1) : k \in 1..n \/ k = n + 1) /\ n + 1 \in 1..(n + 1)
        /\ c + 1 \in 1..(c + 1) /\ 1..c \subseteq 1..(c + 1)
    BY <2>3, <2>4
  <2>7. \A i \in FullRuns(mr) : review_run[i].source_sha # sha
    BY <1>1, <1>4, <2>2 DEF SeenFor, ShasKnown
  <2>8. \A k \in 1..n : hooks[mr][k].sha # sha
    BY <1>1, <1>4, <2>2, <2>3 DEF SeenFor, ShasKnown
  <2>9. ~HeadQueued(mr)'
    BY <1>2, <1>4, <2>5, <2>7 DEF HeadQueued
  <2>10. ShasKnown(mr)'
    <3>1. \A i \in FullRuns(mr)' : \E k \in 1..(c + 1) : commits'[mr][k] = review_run'[i].source_sha
      BY <1>1, <1>2, <1>4, <2>4, <2>6 DEF SeenFor, ShasKnown
    <3>2. \A k \in 1..n : \E l \in 1..c : commits[mr][l] = hooks[mr][k].sha
      BY <1>1, <1>4, <2>3, <2>4 DEF SeenFor, ShasKnown
    <3>3. \A k \in 1..n : \E l \in 1..(c + 1) : commits'[mr][l] = hooks'[mr][k].sha
      BY <2>3, <2>4, <2>6, <3>2
    <3>4. \A k \in 1..(n + 1) : \E l \in 1..(c + 1) : commits'[mr][l] = hooks'[mr][k].sha
      BY <2>1, <2>3, <2>4, <2>6, <3>3
    <3> QED
      BY <2>3, <2>4, <3>1, <3>4 DEF ShasKnown
  <2>11. HooksInOrder(mr)'
    <3>1. ASSUME NEW k \in 1..(n + 1), NEW l \in 1..(n + 1), k < l, hooks'[mr][k].sha = sha
          PROVE  FALSE
      <4>1. k \in 1..n
        BY <2>3, <3>1
      <4> QED
        BY <2>3, <2>8, <3>1, <4>1
    <3> QED
      BY <2>3, <2>5, <3>1 DEF HooksInOrder
  <2>12. HookWaits(mr)'
    BY <2>1, <2>3, <2>5, <2>6 DEF HookWaits
  <2>13. Settled(mr)'
    BY <2>9 DEF Settled
  <2> QED
    BY <1>4, <2>10, <2>11, <2>12, <2>13 DEF SeenFor
<1> QED
  BY <1>3, <1>4

\* A delivered webhook adds at most one row, about its commit.
LEMMA DeliveredRows ==
  ASSUME ServiceInv, [ServiceNext]_vars, NEW mr \in Mrs, DeliverHook(mr)
  PROVE  /\ \A i \in RunIds' \ RunIds :
              review_run'[i].mr = mr /\ review_run'[i].source_sha = hooks[mr][1].sha
         /\ \A m \in Mrs : /\ FullRuns(m)' \cap RunIds = FullRuns(m)
                           /\ ActiveRuns(m)' \cap RunIds \subseteq ActiveRuns(m)
<1>1. /\ TypeOK /\ RunIds \subseteq RunIds'
      /\ \A i \in RunIds : KeepsRow(i) /\ review_run[i] \in Row
  BY ServiceUsesStore, OldRows DEF ServiceInv, TypeOK, KeepsRow
<1>2. \A i \in RunIds : review_run'[i].status \in Active => review_run[i].status \in Active
  BY <1>1 DEF KeepsRow, Row, Active, Terminal
<1>3. ASSUME NEW i \in RunIds', i \notin RunIds
      PROVE  review_run'[i].mr = mr /\ review_run'[i].source_sha = hooks[mr][1].sha
  <2>1. ASSUME NEW kind, NEW t, NEW S, Inserts(mr, kind, hooks[mr][1].sha, t, S)
        PROVE  review_run'[i].mr = mr /\ review_run'[i].source_sha = hooks[mr][1].sha
    BY <1>1, <1>3, <2>1, NewIds DEF Inserts
  <2>2. ~UNCHANGED <<last_id, review_run>>
    BY <1>3 DEF RunIds
  <2> QED
    BY <2>1, <2>2, Delivery DEF InsertsFull, InsertsReconcile, storeVars
<1> QED
  BY <1>1, <1>2, <1>3 DEF FullRuns, ActiveRuns, RunsOf, KeepsRow, SameSubject

\* The other merge requests keep their rows, webhooks and state.
LEMMA DeliverSeenOther ==
  ASSUME SeenInv, [ServiceNext]_vars, NEW mr \in Mrs, DeliverHook(mr),
         NEW m \in Mrs, m # mr
  PROVE  SeenFor(m)'
<1>1. ServiceInv /\ TypeOK /\ SeenFor(m)
  BY DEF SeenInv, ServiceInv
<1>2. commits' = commits /\ worker' = worker /\ hooks'[m] = hooks[m]
  BY <1>1, Delivery DEF ServiceInv, ServiceTypeOK
<1>3. mr_state'[m] = mr_state[m]
  BY <1>1, Delivery DEF SeesOnly, storeVars
<1>4. \A i \in RunIds' \ RunIds : review_run'[i].mr # m
  BY <1>1, DeliveredRows
<1>5. FullRuns(m)' \subseteq RunIds /\ ActiveRuns(m)' \subseteq RunIds
  BY <1>4 DEF FullRuns, ActiveRuns, RunsOf
<1>6. FullRuns(m)' = FullRuns(m) /\ ActiveRuns(m)' \subseteq ActiveRuns(m)
  BY <1>1, <1>5, DeliveredRows
<1>7. HeadQueued(m) => mr_state'[m].last_seen_sha = HeadOf(m)
  BY <1>1, <1>3 DEF SeenFor, Settled
<1> QED
  BY <1>2, <1>6, <1>7, SeenStays

\* A worker that holds a run does not hold the row of this delivery.
LEMMA DeliverSeen ==
  ASSUME SeenInv, [ServiceNext]_vars, NEW mr \in Mrs, DeliverHook(mr)
  PROVE  SeenFor(mr)'
<1> DEFINE hook == hooks[mr][1]
<1>1. /\ ServiceInv /\ TypeOK
      /\ ShasKnown(mr) /\ HooksInOrder(mr) /\ HookWaits(mr) /\ Settled(mr)
  BY DEF SeenInv, ServiceInv, SeenFor
<1>2. commits' = commits /\ worker' = worker /\ HeadOf(mr)' = HeadOf(mr)
  BY <1>1, Delivery DEF HeadOf
<1>3. /\ 1 \in DOMAIN hooks[mr]
      /\ \A k \in DOMAIN hooks[mr]' : k + 1 \in DOMAIN hooks[mr] /\ 1 < k + 1
                                      /\ hooks'[mr][k] = hooks[mr][k + 1]
      /\ \A k, l \in DOMAIN hooks[mr]' : k < l => k + 1 < l + 1
      /\ \A k \in DOMAIN hooks[mr] : k = 1 \/ \E l \in DOMAIN hooks[mr]' : k = l + 1
  BY <1>1, TailOf
<1>4. /\ \A i \in RunIds' \ RunIds : review_run'[i].mr = mr /\ review_run'[i].source_sha = hook.sha
      /\ FullRuns(mr)' \cap RunIds = FullRuns(mr)
      /\ ActiveRuns(mr)' \cap RunIds \subseteq ActiveRuns(mr)
      /\ FullRuns(mr)' \subseteq RunIds' /\ ActiveRuns(mr)' \subseteq RunIds'
  BY <1>1, DeliveredRows DEF FullRuns, ActiveRuns, RunsOf
<1>5. \A i \in RunIds : review_run'[i].source_sha = review_run[i].source_sha
  BY <1>1, ServiceUsesStore, OldRows DEF KeepsRow, SameSubject
<1> HIDE DEF hook
<1>6. ShasKnown(mr)'
  <2>1. \E l \in DOMAIN commits[mr] : commits[mr][l] = hook.sha
    BY <1>1, <1>3 DEF ShasKnown, hook
  <2>2. \A i \in FullRuns(mr)' :
          \E k \in DOMAIN commits[mr] : commits[mr][k] = review_run'[i].source_sha
    <3>1. ASSUME NEW i \in FullRuns(mr)', i \in RunIds
          PROVE  \E k \in DOMAIN commits[mr] : commits[mr][k] = review_run'[i].source_sha
      BY <1>1, <1>4, <1>5, <3>1 DEF ShasKnown
    <3>2. ASSUME NEW i \in FullRuns(mr)', i \notin RunIds
          PROVE  \E k \in DOMAIN commits[mr] : commits[mr][k] = review_run'[i].source_sha
      BY <1>4, <2>1, <3>2
    <3> QED
      BY <3>1, <3>2
  <2>3. \A k \in DOMAIN hooks[mr]' :
          \E l \in DOMAIN commits[mr] : commits[mr][l] = hooks'[mr][k].sha
    BY <1>1, <1>3 DEF ShasKnown
  <2> QED
    BY <1>2, <2>2, <2>3 DEF ShasKnown
<1>7. HooksInOrder(mr)'
  BY <1>1, <1>2, <1>3 DEF HooksInOrder
<1>8. HeadQueued(mr)' => HeadQueued(mr) \/ hook.sha = HeadOf(mr)
  BY <1>2, <1>4, <1>5 DEF HeadQueued
<1>9. HeadQueued(mr) \/ hook.sha = HeadOf(mr)
        => hook.sha = HeadOf(mr) /\ \A k \in DOMAIN hooks[mr]' : hooks'[mr][k].sha = HeadOf(mr)
  BY <1>1, <1>3 DEF HooksInOrder, Settled, hook
<1>10. HookWaits(mr)'
  <2>1. HeadQueued(mr) => HeadQueued(mr)'
    BY <1>2, <1>4, <1>5 DEF HeadQueued
  <2>2. hook.kind = "full_review" /\ hook.sha = HeadOf(mr) => HeadQueued(mr)'
    <3> SUFFICES ASSUME hook.kind = "full_review", hook.sha = HeadOf(mr)
                 PROVE  HeadQueued(mr)'
      OBVIOUS
    <3>1. CASE \E i \in FullRuns(mr) : review_run[i].source_sha = hook.sha
      BY <2>1, <3>1 DEF HeadQueued
    <3>2. CASE InsertsFull(mr, hook.sha)
      <4>1. last_id' \in FullRuns(mr)' /\ review_run'[last_id'].source_sha = hook.sha
        BY <1>1, <3>2 DEF InsertsFull, Inserts, FullRuns, RunsOf, RunIds, TypeOK
      <4> QED
        BY <1>2, <4>1 DEF HeadQueued
    <3> QED
      BY <1>1, <3>1, <3>2, Delivery DEF hook
  <2> SUFFICES ASSUME commits[mr] # <<>>, ~HeadQueued(mr)'
               PROVE  \E k \in DOMAIN hooks[mr]' : /\ hooks'[mr][k].kind = "full_review"
                                                   /\ hooks'[mr][k].sha = HeadOf(mr)
    BY <1>2 DEF HookWaits
  <2>3. PICK k \in DOMAIN hooks[mr] :
          hooks[mr][k].kind = "full_review" /\ hooks[mr][k].sha = HeadOf(mr)
    BY <1>1, <2>1 DEF HookWaits
  <2>4. k # 1
    BY <2>2, <2>3 DEF hook
  <2> QED
    BY <1>3, <2>3, <2>4
<1>11. Settled(mr)'
  <2> SUFFICES ASSUME HeadQueued(mr)' PROVE Settled(mr)'
    BY DEF Settled
  <2>1. hook.sha = HeadOf(mr) /\ \A k \in DOMAIN hooks[mr]' : hooks'[mr][k].sha = HeadOf(mr)
    BY <1>8, <1>9
  <2>2. ASSUME NEW w \in Workers, worker[w].pc \in KnowsHead PROVE worker[w].run \in RunIds
    BY <1>1, <2>2, HeldRow DEF KnowsHead, At
  <2>3. CASE InsertsFull(mr, hook.sha)
    <3>1. hook.kind = "full_review" \/ hook.kind = "discussion_reconcile"
      BY <1>1, Delivery DEF hook
    <3>2. SeesOnly(mr, hook.sha)
      <4>1. ~UNCHANGED storeVars
        BY <1>1, <2>3 DEF InsertsFull, Inserts, TypeOK, storeVars
      <4> QED
        BY <1>1, <4>1, Delivery DEF hook
    <3>3. ActiveRuns(mr)' \cap RunIds = {}
      <4>1. \A i \in ActiveRuns(mr) : review_run'[i].status = "superseded"
        BY <2>3 DEF InsertsFull, Inserts
      <4>2. \A i \in ActiveRuns(mr)' : review_run'[i].status # "superseded"
        BY DEF ActiveRuns, Active
      <4> QED
        BY <1>4, <4>1, <4>2
    <3>4. \A i \in ActiveRuns(mr)' : review_run'[i].source_sha = HeadOf(mr)
      BY <1>4, <2>1, <3>3
    <3> QED
      BY <1>2, <2>1, <2>2, <3>2, <3>3, <3>4 DEF Settled, SeesOnly
  <2>4. CASE ~InsertsFull(mr, hook.sha)
    <3>1. HeadQueued(mr)
      <4>1. \/ UNCHANGED <<last_id, review_run>>
            \/ \E t \in Triggers : InsertsReconcile(mr, hook.sha, t)
        BY <1>1, <2>4, Delivery DEF hook, storeVars
      <4>2. FullRuns(mr)' \subseteq RunIds
        <5>1. ASSUME UNCHANGED <<last_id, review_run>> PROVE FullRuns(mr)' \subseteq RunIds
          BY <5>1 DEF FullRuns, RunsOf, RunIds
        <5>2. ASSUME NEW t \in Triggers, InsertsReconcile(mr, hook.sha, t)
              PROVE  FullRuns(mr)' \subseteq RunIds
          <6>1. last_id' = last_id + 1 /\ review_run'[last_id'].kind = "discussion_reconcile"
            BY <5>2 DEF InsertsReconcile, Inserts
          <6> QED
            BY <1>1, <6>1, NewIds DEF FullRuns, RunsOf
        <5> QED
          BY <4>1, <5>1, <5>2
      <4> QED
        BY <1>2, <1>4, <1>5, <4>2 DEF HeadQueued
    <3>2. mr_state'[mr].last_seen_sha = HeadOf(mr)
      <4>1. UNCHANGED storeVars \/ SeesOnly(mr, hook.sha)
        BY <1>1, Delivery DEF hook
      <4> QED
        BY <1>1, <2>1, <3>1, <4>1 DEF SeesOnly, Settled, storeVars
    <3>3. \A i \in ActiveRuns(mr)' : review_run'[i].source_sha = HeadOf(mr)
      <4>1. ASSUME NEW i \in ActiveRuns(mr)', i \in RunIds
            PROVE  review_run'[i].source_sha = HeadOf(mr)
        BY <1>1, <1>4, <1>5, <3>1, <4>1 DEF Settled
      <4> QED
        BY <1>4, <2>1, <4>1
    <3>4. \A w \in Workers : worker[w].pc \in KnowsHead /\ worker[w].run \in ActiveRuns(mr)'
                             => worker[w].sha = HeadOf(mr)
      BY <1>1, <1>4, <2>2, <3>1 DEF Settled
    <3> QED
      BY <1>2, <2>1, <3>2, <3>3, <3>4 DEF Settled
  <2> QED
    BY <2>3, <2>4
<1> QED
  BY <1>6, <1>7, <1>10, <1>11 DEF SeenFor

LEMMA SeenStep == ~ForcePushBack /\ SeenInv /\ [ServiceNext]_vars => SeenInv'
<1> SUFFICES ASSUME ~ForcePushBack, SeenInv, [ServiceNext]_vars, NEW m \in Mrs
             PROVE  SeenFor(m)'
  BY ServiceStep DEF SeenInv
<1>1. ServiceInv /\ TypeOK /\ SeenFor(m)
  BY DEF SeenInv, ServiceInv
<1>2. ASSUME NEW w \in Workers, WorkerStep(w) PROVE SeenFor(m)'
  <2>1. commits' = commits /\ hooks' = hooks /\ UNCHANGED last_id
    <3>1. UNCHANGED <<gitlabVars, alive>>
      BY <1>1, <1>2, WorkerKeeps
    <3>2. UNCHANGED last_id
      BY <1>2 DEF WorkerStep, Claim, ProcessRun, CreateTrace, GetMergeRequestInfo, ListDiscussions,
         RunAgent, CheckStatus, CheckHead, Publish, Raise, Complete, Abandon, HandleFailure, Escape,
         Unshared, ClaimNextRun, MarkDone, MarkFailed, MarkSupersededIfRunning, storeVars
    <3> QED
      BY <3>1, <3>2 DEF gitlabVars
  <2>2. FullRuns(m)' = FullRuns(m) /\ ActiveRuns(m)' \subseteq ActiveRuns(m)
    BY <1>1, <2>1, ActiveShrinks
  <2>3. HeadQueued(m) => mr_state'[m].last_seen_sha = HeadOf(m)
    BY <1>2, WorkerWrites
  <2>4. ASSUME NEW v \in Workers, worker'[v].pc \in KnowsHead, worker'[v].run \in ActiveRuns(m)'
        PROVE  \/ worker'[v].sha = HeadOf(m)
               \/ /\ worker[v].pc \in KnowsHead
                  /\ worker'[v].run = worker[v].run /\ worker'[v].sha = worker[v].sha
    <3>1. CASE v # w
      <4>1. worker'[v] = worker[v]
        BY <1>1, <1>2, <3>1, WorkerMoves DEF GoodMove
      <4> QED
        BY <2>4, <4>1
    <3>2. CASE v = w
      <4>1. worker'[w].run \in ActiveRuns(m)
        BY <2>2, <2>4, <3>2
      <4>2. review_run[worker'[w].run].mr = m
        BY <4>1 DEF ActiveRuns, RunsOf
      <4> QED
        BY <1>1, <1>2, <2>4, <3>2, <4>2, WorkerReads DEF RunOf
    <3> QED
      BY <3>1, <3>2
  <2> QED
    BY <2>1, <2>2, <2>3, <2>4, SeenStays
<1>3. ASSUME UNCHANGED <<storeVars, gitlabVars>>,
             \A w \in Workers : worker'[w].pc \in KnowsHead => worker'[w] = worker[w]
      PROVE  SeenFor(m)'
  <2>1. /\ commits' = commits /\ hooks' = hooks /\ UNCHANGED <<last_id, mr_state>>
    BY <1>3 DEF storeVars, gitlabVars
  <2>2. FullRuns(m)' = FullRuns(m) /\ ActiveRuns(m)' \subseteq ActiveRuns(m)
    BY <1>1, <2>1, ActiveShrinks
  <2>3. HeadQueued(m) => mr_state'[m].last_seen_sha = HeadOf(m)
    BY <1>1, <2>1 DEF SeenFor, Settled
  <2> QED
    BY <1>3, <2>1, <2>2, <2>3, SeenStays
<1>4. ASSUME Restart PROVE SeenFor(m)'
  BY <1>3, <1>4 DEF Restart, IdleWorker, KnowsHead
<1>5. ASSUME NEW w \in Workers, ClaimRaises(w) PROVE SeenFor(m)'
  BY <1>3, <1>5 DEF ClaimRaises
<1>6. ASSUME UNCHANGED vars PROVE SeenFor(m)'
  BY <1>3, <1>6 DEF vars
<1>7. ASSUME NEW mr \in Mrs, BecomeReady(mr) PROVE SeenFor(m)'
  <2>1. NoTrigger \in Triggers /\ "full_review" \in Kinds
    BY DEF NoTrigger, Triggers, Kinds
  <2> QED
    BY <1>7, <2>1, SendSeen DEF BecomeReady
<1>8. ASSUME NEW mr \in Mrs, NEW reply \in Replies, PostReply(mr, reply) PROVE SeenFor(m)'
  <2>1. reply \in Triggers /\ "discussion_reconcile" \in Kinds
    BY DEF Replies, Triggers, Kinds
  <2> QED
    BY <1>8, <2>1, SendSeen DEF PostReply
<1>9. ASSUME NEW mr \in Mrs, NEW sha \in Shas, Push(mr, sha) PROVE SeenFor(m)'
  BY <1>9, PushSeen
<1>10. ASSUME NEW mr \in Mrs, DeliverHook(mr) PROVE SeenFor(m)'
  BY <1>10, DeliverSeen, DeliverSeenOther
<1> QED
  BY <1>2, <1>4, <1>5, <1>6, <1>7, <1>8, <1>9, <1>10 DEF ServiceNext

\* While no push returns to an older commit, last_seen_sha is the head of every
\* merge request whose webhooks were all handled: neither a run that completes
\* late nor one that fails late writes an older commit over it.  (With such a
\* push the duplicate check answers for the earlier review, and a run of the
\* commit in between is still active.)
THEOREM LastSeenIsTheHead == ~ForcePushBack => (ServiceSpec => []LastSeenIsHead)
<1> SUFFICES ASSUME ~ForcePushBack PROVE ServiceSpec => []LastSeenIsHead
  OBVIOUS
<1>1. ServiceInit => SeenInv
  <2> SUFFICES ASSUME ServiceInit, NEW mr \in Mrs PROVE SeenFor(mr)
    BY ServiceStart DEF SeenInv
  <2>1. commits[mr] = <<>> /\ hooks[mr] = <<>> /\ FullRuns(mr) = {}
    BY DEF ServiceInit, Init, FullRuns, RunsOf, RunIds
  <2> QED
    BY <2>1 DEF SeenFor, ShasKnown, HooksInOrder, HookWaits, Settled, HeadQueued
<1>2. SeenInv => LastSeenIsHead
  <2> SUFFICES ASSUME SeenInv, NEW mr \in Mrs, commits[mr] # <<>>, hooks[mr] = <<>>
               PROVE  mr_state[mr].last_seen_sha = HeadOf(mr)
    BY DEF LastSeenIsHead
  <2>1. HeadQueued(mr)
    BY DEF SeenInv, SeenFor, HookWaits
  <2> QED
    BY <2>1 DEF SeenInv, SeenFor, Settled
<1>3. SeenInv /\ [ServiceNext]_vars => SeenInv'
  BY SeenStep
<1> QED
  BY <1>1, <1>2, <1>3, PTL DEF ServiceSpec
-----------------------------------------------------------------------------
(***************************************************************************)
(* No queued reply is lost: the run that finally took over from a          *)
(* reconcile run reads the reply it was queued for.  Successor is a        *)
(* recursive function; that it exists and is the only one is an invariant  *)
(* of the table, since an insertion extends it.                            *)
(***************************************************************************)

Follows(f) ==
  f = [j \in RunIds |-> IF review_run[j].superseded_by = None THEN j
                        ELSE f[review_run[j].superseded_by]]

FollowsOnly(f) ==
  f \in [RunIds -> RunIds] /\ Follows(f) /\ \A g : Follows(g) => g = f

OneSuccessor == \E f : FollowsOnly(f)

LEMMA SuccessorIs ==
  ASSUME NEW f, FollowsOnly(f), NEW i
  PROVE  Successor(i) = f[i]
<1> DEFINE last == CHOOSE g : g = [j \in RunIds |->
                     IF review_run[j].superseded_by = None THEN j
                     ELSE g[review_run[j].superseded_by]]
<1>1. \E g : g = [j \in RunIds |-> IF review_run[j].superseded_by = None THEN j
                                   ELSE g[review_run[j].superseded_by]]
  BY DEF FollowsOnly, Follows
<1>2. Follows(last)
  BY <1>1, Zenon DEF Follows
<1>3. last = f
  BY <1>2 DEF FollowsOnly
<1> QED
  BY <1>3 DEF Successor

LEMMA SuccessorBecomes ==
  ASSUME NEW f, FollowsOnly(f)', NEW i
  PROVE  Successor(i)' = f[i]
<1>1. \E g : g = [j \in RunIds' |-> IF review_run'[j].superseded_by = None THEN j
                                    ELSE g[review_run'[j].superseded_by]]
  BY DEF FollowsOnly, Follows
<1>2. PICK last : last = CHOOSE g : g = [j \in RunIds' |->
                     IF review_run'[j].superseded_by = None THEN j
                     ELSE g[review_run'[j].superseded_by]]
  OBVIOUS
<1>3. Follows(last)'
  BY <1>1, <1>2, Zenon DEF Follows
<1>4. last = f
  BY <1>3 DEF FollowsOnly
<1> QED
  BY <1>2, <1>4 DEF Successor

\* Without an insertion every run keeps its successor.
LEMMA SuccessorsStay ==
  ASSUME TypeOK, OneSuccessor, MovesStatus
  PROVE  OneSuccessor' /\ \A i \in RunIds : Successor(i)' = Successor(i)
<1>1. PICK f : FollowsOnly(f)
  BY DEF OneSuccessor
<1>2. RunIds' = RunIds /\ \A j \in RunIds : review_run'[j].superseded_by = review_run[j].superseded_by
  BY DEF MovesStatus, RunIds
<1>3. ASSUME NEW g PROVE Follows(g)' <=> Follows(g)
  BY <1>2 DEF Follows
<1>4. FollowsOnly(f)'
  BY <1>1, <1>2, <1>3 DEF FollowsOnly
<1> QED
  BY <1>1, <1>4, SuccessorIs, SuccessorBecomes DEF OneSuccessor

\* A new run takes the place of the runs it supersedes at the end of their chains.
LEMMA SuccessorsMove ==
  ASSUME TypeOK, SupersededByLaterRun, OneSuccessor,
         NEW mr, NEW kind, NEW sha, NEW t, NEW S, S \subseteq ActiveRuns(mr),
         Inserts(mr, kind, sha, t, S), NEW n, n = last_id'
  PROVE  /\ OneSuccessor'
         /\ Successor(n)' = n
         /\ \A i \in RunIds : Successor(i)' = IF Successor(i) \in S THEN n ELSE Successor(i)
<1>1. PICK f : FollowsOnly(f)
  BY DEF OneSuccessor
<1>2. PICK by : by = [j \in RunIds |-> review_run[j].superseded_by]
  OBVIOUS
<1>3. PICK later : later = [j \in RunIds' |-> review_run'[j].superseded_by]
  OBVIOUS
<1>4. RunIds' = RunIds \cup {n} /\ n \notin RunIds /\ n # None /\ 0 \notin RunIds
  BY NoneAssumption DEF Inserts, RunIds, TypeOK
<1>5. \A j \in RunIds : by[j] = None \/ (by[j] \in RunIds /\ j \notin S)
  BY <1>2 DEF SupersededByLaterRun, ActiveRuns, RunsOf, Active
<1>6. S \subseteq RunIds
  BY DEF ActiveRuns, RunsOf
<1>7. /\ later[n] = None
      /\ \A j \in S : later[j] = n
      /\ \A j \in RunIds \ S : later[j] = by[j]
  BY <1>2, <1>3, <1>4, <1>6 DEF Inserts
<1>8. /\ f \in [RunIds -> RunIds]
      /\ \A j \in RunIds : f[j] = IF by[j] = None THEN j ELSE f[by[j]]
  BY <1>1, <1>2 DEF FollowsOnly, Follows
<1>9. ASSUME NEW g, g = [j \in RunIds |-> IF by[j] = None THEN j ELSE g[by[j]]]
       PROVE  g = f
  <2>1. Follows(g)
    BY <1>2, <1>9 DEF Follows
  <2> QED
    BY <1>1, <2>1 DEF FollowsOnly
<1>10. PICK h : h = [i \in RunIds \cup {n} |-> IF i = n THEN n ELSE IF f[i] \in S THEN n ELSE f[i]]
  OBVIOUS
<1>11. /\ h \in [RunIds \cup {n} -> RunIds \cup {n}] /\ h[n] = n
       /\ \A j \in RunIds : h[j] = IF f[j] \in S THEN n ELSE f[j]
  BY <1>4, <1>8, <1>10
<1>12. \A j \in RunIds \cup {n} : h[j] = IF later[j] = None THEN j ELSE h[later[j]]
  <2>1. ASSUME NEW j \in S PROVE h[j] = h[later[j]] /\ later[j] # None
    BY <1>4, <1>5, <1>6, <1>7, <1>8, <1>11
  <2>2. ASSUME NEW j \in RunIds \ S PROVE h[j] = IF later[j] = None THEN j ELSE h[later[j]]
    BY <1>5, <1>7, <1>8, <1>11
  <2> QED
    BY <1>7, <1>11, <2>1, <2>2
<1>13. h = [j \in RunIds \cup {n} |-> IF later[j] = None THEN j ELSE h[later[j]]]
  BY <1>11, <1>12
<1>14. Follows(h)'
  BY <1>3, <1>4, <1>13 DEF Follows
<1>15. ASSUME NEW g, Follows(g)' PROVE g = h
  <2>1. /\ g = [j \in RunIds \cup {n} |-> IF later[j] = None THEN j ELSE g[later[j]]]
    BY <1>3, <1>4, <1>15 DEF Follows
  <2>2. \A j \in RunIds \cup {n} : g[j] = IF later[j] = None THEN j ELSE g[later[j]]
    BY <2>1
  <2>3. g[n] = n /\ \A j \in S : g[j] = n
    BY <1>4, <1>6, <1>7, <2>2
  <2> DEFINE k == [j \in RunIds |-> IF g[j] = h[j] THEN f[j] ELSE 0]
  <2>4. ASSUME NEW j \in RunIds PROVE k[j] = IF by[j] = None THEN j ELSE k[by[j]]
    <3>1. CASE by[j] = None
      <4>1. f[j] = j
        BY <1>8, <3>1
      <4>2. g[j] = h[j]
        BY <1>7, <1>11, <2>2, <2>3, <3>1, <4>1
      <4> QED
        BY <3>1, <4>1, <4>2
    <3>2. CASE by[j] # None
      <4>1. by[j] \in RunIds /\ j \notin S /\ later[j] = by[j] /\ f[j] = f[by[j]]
        BY <1>5, <1>7, <1>8, <3>2
      <4>2. g[j] = g[by[j]] /\ h[j] = h[by[j]]
        BY <1>12, <2>2, <3>2, <4>1
      <4> QED
        BY <3>2, <4>1, <4>2
    <3> QED
      BY <3>1, <3>2
  <2>5. k = [j \in RunIds |-> IF by[j] = None THEN j ELSE k[by[j]]]
    BY <2>4
  <2>6. k = f
    BY <1>9, <2>5
  <2>7. ASSUME NEW j \in RunIds PROVE g[j] = h[j]
    <3>1. k[j] \in RunIds
      BY <1>8, <2>6
    <3> QED
      BY <1>4, <3>1
  <2> QED
    BY <1>11, <1>13, <2>1, <2>3, <2>7
<1>16. FollowsOnly(h)'
  BY <1>4, <1>11, <1>14, <1>15 DEF FollowsOnly
<1>17. \A i : Successor(i) = f[i] /\ Successor(i)' = h[i]
  BY <1>1, <1>16, SuccessorIs, SuccessorBecomes
<1> QED
  BY <1>4, <1>11, <1>16, <1>17 DEF OneSuccessor

IsReply(i) == review_run[i].kind = "discussion_reconcile"

\* Every reply that is announced or queued stands in a discussion.
Announced ==
  /\ \A mr \in Mrs : \A k \in DOMAIN hooks[mr] :
       hooks[mr][k].kind = "discussion_reconcile" => hooks[mr][k].trigger \in replies[mr]
  /\ \A i \in RunIds : IsReply(i) => review_run[i].trigger \in replies[review_run[i].mr]

\* A run is followed by one of its merge request, a reconcile run by a full
\* review or by a run for the same discussion.
SuccessorFits ==
  \A i \in RunIds :
    /\ Successor(i) \in RunIds
    /\ review_run[Successor(i)].mr = review_run[i].mr
    /\ IsReply(i) /\ IsReply(Successor(i)) =>
         review_run[Successor(i)].trigger.discussion = review_run[i].trigger.discussion

\* A worker that listed the discussions has read the replies of all runs that
\* its run stands for.
HasRead == {"run_agent", "check_status", "check_head", "publish", "mark_done"}

ReadReplies ==
  \A w \in Workers : worker[w].pc \in HasRead =>
    \A i \in RunIds : IsReply(i) /\ Successor(i) = worker[w].run
                      => review_run[i].trigger \in worker[w].seen

ReplyInv ==
  /\ ServiceInv /\ SupersededByLaterRun /\ OneSuccessor
  /\ Announced /\ SuccessorFits /\ ReadReplies /\ QueuedReplyIsConsidered

\* How a step changes the table, as the chains of successors see it.
ChainStep(mr, n, S) ==
  /\ RunIds' = RunIds \cup {n} /\ n \notin RunIds
  /\ review_run'[n].status = "queued" /\ review_run'[n].mr = mr
  /\ S \subseteq ActiveRuns(mr)
  /\ \A i \in RunIds \ S : review_run'[i] = review_run[i]
  /\ Successor(n)' = n
  /\ \A i \in RunIds : Successor(i)' = IF Successor(i) \in S THEN n ELSE Successor(i)

LEMMA ReconcileChain ==
  ASSUME ReplyInv, NEW mr \in Mrs, NEW sha, NEW t \in Triggers, InsertsReconcile(mr, sha, t),
         t.discussion # None
  PROVE  /\ OneSuccessor'
         /\ \E n, S : /\ ChainStep(mr, n, S)
                      /\ review_run'[n].kind = "discussion_reconcile" /\ review_run'[n].trigger = t
                      /\ \A i \in S : IsReply(i) /\ review_run[i].trigger.discussion = t.discussion
<1> DEFINE S == ReconcilesReplacedBy(mr, t)
<1>1. PICK n : n = last_id'
  OBVIOUS
<1>2. /\ Inserts(mr, "discussion_reconcile", sha, t, S) /\ S \subseteq ActiveRuns(mr)
      /\ \A i \in S : IsReply(i) /\ review_run[i].trigger.discussion = t.discussion
  BY DEF InsertsReconcile, ReconcilesReplacedBy, SameThread, IsReply
<1> HIDE DEF S
<1>3. RunIds' = RunIds \cup {n} /\ n \notin RunIds
  BY <1>1, <1>2 DEF Inserts, RunIds, ReplyInv, ServiceInv, TypeOK
<1>4. /\ OneSuccessor' /\ Successor(n)' = n
      /\ \A i \in RunIds : Successor(i)' = IF Successor(i) \in S THEN n ELSE Successor(i)
  BY <1>1, <1>2, SuccessorsMove DEF ReplyInv, ServiceInv
<1>5. /\ review_run'[n].status = "queued" /\ review_run'[n].mr = mr
      /\ review_run'[n].kind = "discussion_reconcile" /\ review_run'[n].trigger = t
      /\ \A i \in RunIds \ S : review_run'[i] = review_run[i]
  BY <1>1, <1>2 DEF Inserts
<1> QED
  BY <1>2, <1>3, <1>4, <1>5 DEF ChainStep

LEMMA FullChain ==
  ASSUME ReplyInv, NEW mr \in Mrs, NEW sha, InsertsFull(mr, sha)
  PROVE  /\ OneSuccessor'
         /\ \E n, S : ChainStep(mr, n, S) /\ review_run'[n].kind = "full_review"
<1> DEFINE S == ActiveRuns(mr)
<1>1. PICK n : n = last_id'
  OBVIOUS
<1>2. Inserts(mr, "full_review", sha, NoTrigger, S) /\ S \subseteq ActiveRuns(mr)
  BY DEF InsertsFull
<1> HIDE DEF S
<1>3. RunIds' = RunIds \cup {n} /\ n \notin RunIds
  BY <1>1, <1>2 DEF Inserts, RunIds, ReplyInv, ServiceInv, TypeOK
<1>4. /\ OneSuccessor' /\ Successor(n)' = n
      /\ \A i \in RunIds : Successor(i)' = IF Successor(i) \in S THEN n ELSE Successor(i)
  BY <1>1, <1>2, SuccessorsMove DEF ReplyInv, ServiceInv
<1>5. /\ review_run'[n].status = "queued" /\ review_run'[n].mr = mr
      /\ review_run'[n].kind = "full_review"
      /\ \A i \in RunIds \ S : review_run'[i] = review_run[i]
  BY <1>1, <1>2 DEF Inserts
<1> QED
  BY <1>2, <1>3, <1>4, <1>5 DEF ChainStep

\* What an insertion keeps, given what the new run is.
LEMMA ChainKeeps ==
  ASSUME ReplyInv, [ServiceNext]_vars, NEW mr \in Mrs, NEW n, NEW S, ChainStep(mr, n, S),
         review_run'[n].kind = "discussion_reconcile" =>
           /\ review_run'[n].trigger \in replies[mr]
           /\ \A i \in S : IsReply(i) /\ review_run[i].trigger.discussion
                                           = review_run'[n].trigger.discussion,
         UNCHANGED <<worker, considered, replies>>
  PROVE  /\ \A i \in RunIds' : IsReply(i)' => review_run'[i].trigger \in replies[review_run'[i].mr]
         /\ SuccessorFits' /\ ReadReplies' /\ QueuedReplyIsConsidered'
<1>1. /\ RunIds' = RunIds \cup {n} /\ n \notin RunIds
      /\ review_run'[n].status = "queued" /\ review_run'[n].mr = mr
      /\ S \subseteq ActiveRuns(mr)
      /\ \A i \in RunIds \ S : review_run'[i] = review_run[i]
      /\ Successor(n)' = n
      /\ \A i \in RunIds : Successor(i)' = IF Successor(i) \in S THEN n ELSE Successor(i)
  BY DEF ChainStep
<1>2. \A i \in RunIds : SameSubject(i)
  BY ServiceUsesStore, OldRows DEF ReplyInv, ServiceInv, KeepsRow
<1>3. \A i \in S : review_run[i].mr = mr
  BY <1>1 DEF ActiveRuns, RunsOf
<1>4. \A i \in RunIds : /\ Successor(i) \in RunIds
                        /\ review_run[Successor(i)].mr = review_run[i].mr
  BY DEF ReplyInv, SuccessorFits
<1>5. \A i \in RunIds' : IsReply(i)' => review_run'[i].trigger \in replies[review_run'[i].mr]
  BY <1>1, <1>2 DEF ReplyInv, Announced, IsReply, SameSubject
<1>6. SuccessorFits'
  <2>1. ASSUME NEW i \in RunIds, Successor(i) \in S
        PROVE  /\ review_run'[n].mr = review_run'[i].mr
               /\ IsReply(i)' /\ IsReply(n)' =>
                    review_run'[n].trigger.discussion = review_run'[i].trigger.discussion
    <3>1. review_run'[n].mr = review_run'[i].mr
      BY <1>1, <1>2, <1>3, <1>4, <2>1 DEF SameSubject
    <3>2. ASSUME IsReply(i)', IsReply(n)'
          PROVE  review_run'[n].trigger.discussion = review_run'[i].trigger.discussion
      <4>1. IsReply(i) /\ review_run'[i].trigger = review_run[i].trigger
        BY <1>2, <3>2 DEF IsReply, SameSubject
      <4>2. /\ IsReply(Successor(i))
            /\ review_run[Successor(i)].trigger.discussion = review_run'[n].trigger.discussion
        BY <2>1, <3>2 DEF IsReply
      <4>3. review_run[Successor(i)].trigger.discussion = review_run[i].trigger.discussion
        BY <4>1, <4>2 DEF ReplyInv, SuccessorFits
      <4> QED
        BY <4>1, <4>2, <4>3
    <3> QED
      BY <3>1, <3>2
  <2>2. ASSUME NEW i \in RunIds, Successor(i) \notin S
        PROVE  /\ review_run'[Successor(i)].mr = review_run'[i].mr
               /\ review_run'[i].kind = "discussion_reconcile"
                    /\ review_run'[Successor(i)].kind = "discussion_reconcile" =>
                    review_run'[Successor(i)].trigger.discussion = review_run'[i].trigger.discussion
    <3>1. SameSubject(i) /\ review_run'[Successor(i)] = review_run[Successor(i)]
      BY <1>1, <1>2, <1>4, <2>2
    <3> QED
      BY <3>1 DEF ReplyInv, SuccessorFits, IsReply, SameSubject
  <2>3. ASSUME NEW i \in RunIds', NEW s, s = Successor(i)'
        PROVE  /\ s \in RunIds'
               /\ review_run'[s].mr = review_run'[i].mr
               /\ review_run'[i].kind = "discussion_reconcile"
                    /\ review_run'[s].kind = "discussion_reconcile" =>
                    review_run'[s].trigger.discussion = review_run'[i].trigger.discussion
    <3>1. CASE i = n
      BY <1>1, <2>3, <3>1
    <3>2. CASE i \in RunIds /\ Successor(i) \in S
      BY <1>1, <2>1, <2>3, <3>2 DEF IsReply
    <3>3. CASE i \in RunIds /\ Successor(i) \notin S
      BY <1>1, <1>4, <2>2, <2>3, <3>3
    <3> QED
      BY <1>1, <3>1, <3>2, <3>3
  <2> QED
    BY <2>3 DEF SuccessorFits, IsReply
<1>7. ReadReplies'
  <2> SUFFICES ASSUME NEW w \in Workers, worker[w].pc \in HasRead, NEW i \in RunIds',
                      IsReply(i)', Successor(i)' = worker[w].run
               PROVE  review_run'[i].trigger \in worker[w].seen
    BY DEF ReadReplies
  <2>1. worker[w].run \in RunIds
    BY HeldRow DEF ReplyInv, HasRead, At
  <2>2. i \in RunIds /\ Successor(i) = worker[w].run
    BY <1>1, <2>1
  <2>3. IsReply(i) /\ review_run'[i].trigger = review_run[i].trigger
    BY <1>2, <2>2 DEF IsReply, SameSubject
  <2> QED
    BY <2>2, <2>3 DEF ReplyInv, ReadReplies
<1>8. QueuedReplyIsConsidered'
  <2> SUFFICES ASSUME NEW i \in RunIds', IsReply(i)', NEW s, s = Successor(i)',
                      review_run'[s].status = "done"
               PROVE  review_run'[i].trigger \in considered
    BY DEF QueuedReplyIsConsidered, IsReply
  <2>1. s # n
    BY <1>1
  <2>2. i \in RunIds /\ s = Successor(i) /\ s \notin S
    BY <1>1, <2>1
  <2>3. review_run[s].status = "done"
    BY <1>1, <1>4, <2>2
  <2>4. IsReply(i) /\ review_run'[i].trigger = review_run[i].trigger
    BY <1>2, <2>2 DEF IsReply, SameSubject
  <2> QED
    BY <2>2, <2>3, <2>4 DEF ReplyInv, QueuedReplyIsConsidered, IsReply
<1> QED
  BY <1>5, <1>6, <1>7, <1>8

\* Steps that insert no run.
LEMMA RepliesStay ==
  ASSUME ReplyInv, [ServiceNext]_vars, UNCHANGED last_id,
         \A mr \in Mrs : replies[mr] \subseteq replies'[mr],
         considered \subseteq considered',
         \A mr \in Mrs : \A k \in DOMAIN hooks'[mr] :
           hooks'[mr][k].kind = "discussion_reconcile" => hooks'[mr][k].trigger \in replies'[mr],
         \A w \in Workers : worker'[w].pc \in HasRead =>
           \A i \in RunIds : IsReply(i) /\ Successor(i) = worker'[w].run
                             => review_run[i].trigger \in worker'[w].seen,
         \A s \in RunIds : review_run'[s].status = "done" =>
           \/ review_run[s].status = "done"
           \/ \E w \in Workers : /\ worker[w].pc \in HasRead /\ worker[w].run = s
                                 /\ worker[w].seen \subseteq considered'
  PROVE  ReplyInv'
<1>1. ServiceInv' /\ SupersededByLaterRun'
  BY ServiceStep, ServiceUsesStore, SupersededStep DEF ReplyInv, ServiceInv
<1>2. MovesStatus /\ RunIds' = RunIds /\ \A i \in RunIds : SameSubject(i) /\ review_run[i].mr \in Mrs
  <2>1. TypeOK /\ [Next]_storeVars
    BY ServiceUsesStore DEF ReplyInv, ServiceInv
  <2>2. MovesStatus
    BY <2>1, StepCases DEF InsertsFull, InsertsReconcile, Inserts, TypeOK
  <2> QED
    BY <2>1, <2>2, OldRows DEF RunIds, KeepsRow, TypeOK, Row
<1>3. OneSuccessor' /\ \A i \in RunIds : Successor(i)' = Successor(i)
  BY <1>2, SuccessorsStay DEF ReplyInv, ServiceInv
<1>4. /\ \A i \in RunIds : IsReply(i)' <=> IsReply(i)
      /\ \A i \in RunIds : Successor(i) \in RunIds
  BY <1>2 DEF IsReply, SameSubject, ReplyInv, SuccessorFits
<1>5. Announced'
  BY <1>2, <1>4 DEF ReplyInv, Announced, SameSubject
<1>6. SuccessorFits'
  <2> SUFFICES ASSUME NEW i \in RunIds', NEW s, s = Successor(i)'
               PROVE  /\ s \in RunIds' /\ review_run'[s].mr = review_run'[i].mr
                      /\ IsReply(i)' /\ review_run'[s].kind = "discussion_reconcile" =>
                           review_run'[s].trigger.discussion = review_run'[i].trigger.discussion
    BY DEF SuccessorFits, IsReply
  <2>1. i \in RunIds /\ s = Successor(i) /\ s \in RunIds
    BY <1>2, <1>3, <1>4
  <2> QED
    BY <1>2, <1>4, <2>1 DEF ReplyInv, SuccessorFits, IsReply, SameSubject
<1>7. ReadReplies'
  BY <1>2, <1>3, <1>4 DEF ReadReplies, SameSubject
<1>8. QueuedReplyIsConsidered'
  <2> SUFFICES ASSUME NEW i \in RunIds', IsReply(i)', NEW s, s = Successor(i)',
                      review_run'[s].status = "done"
               PROVE  review_run'[i].trigger \in considered'
    BY DEF QueuedReplyIsConsidered, IsReply
  <2>1. /\ i \in RunIds /\ s = Successor(i) /\ s \in RunIds /\ IsReply(i)
        /\ review_run'[i].trigger = review_run[i].trigger
    BY <1>2, <1>3, <1>4 DEF SameSubject
  <2>2. CASE review_run[s].status = "done"
    BY <2>1, <2>2 DEF ReplyInv, QueuedReplyIsConsidered, IsReply
  <2>3. ASSUME NEW w \in Workers, worker[w].pc \in HasRead, worker[w].run = s,
               worker[w].seen \subseteq considered'
        PROVE  review_run'[i].trigger \in considered'
    BY <2>1, <2>3 DEF ReplyInv, ReadReplies
  <2> QED
    BY <2>1, <2>2, <2>3
<1> QED
  BY <1>1, <1>3, <1>5, <1>6, <1>7, <1>8 DEF ReplyInv

\* A worker keeps what it has read, or reads it now.
LEMMA WorkerSees ==
  ASSUME ServiceInv, NEW w \in Workers, WorkerStep(w), worker'[w].pc \in HasRead
  PROVE  /\ ~At(w, "idle") /\ worker'[w].run = worker[w].run
         /\ \/ worker[w].pc \in HasRead /\ worker'[w].seen = worker[w].seen
            \/ worker'[w].seen = IF IsFull(w) THEN replies[RunOf(w).mr]
                 ELSE {r \in replies[RunOf(w).mr] : r.discussion = RunOf(w).trigger.discussion}
<1>1. worker \in [Workers -> WorkerState] /\ worker[w] \in WorkerState /\ ServiceTypeOK
  BY DEF ServiceInv, ServiceTypeOK
<1>2. ASSUME NEW pc \in Pcs, GoTo(w, pc)
      PROVE  /\ worker'[w].pc = pc /\ worker'[w].run = worker[w].run
             /\ worker'[w].seen = worker[w].seen
  <2>1. worker'[w] = [worker[w] EXCEPT !.pc = pc]
    BY <1>1, <1>2, GoToBecomes DEF Becomes
  <2> QED
    BY <1>1, <2>1 DEF WorkerState
<1>3. ASSUME Release(w) PROVE FALSE
  BY <1>1, <1>3, ReleaseBecomes DEF HasRead
<1>4. ~(Complete(w) \/ Abandon(w) \/ HandleFailure(w) \/ Escape(w))
  BY <1>3 DEF Complete, Abandon, HandleFailure, Escape
<1>5. ~(Claim(w) \/ ProcessRun(w) \/ CreateTrace(w) \/ GetMergeRequestInfo(w) \/ Raise(w))
  <2>1. ~Claim(w) /\ ~GetMergeRequestInfo(w)
    BY <1>1 DEF Claim, GetMergeRequestInfo, WorkerState, HasRead
  <2> QED
    BY <1>2, <1>3, <2>1 DEF ProcessRun, CreateTrace, Raise, Pcs, HasRead
<1>6. CASE ListDiscussions(w)
  BY <1>1, <1>6 DEF ListDiscussions, WorkerState, At
<1>7. CASE CheckHead(w)
  BY <1>1, <1>7 DEF CheckHead, WorkerState, At, HasRead
<1>8. CASE RunAgent(w) \/ CheckStatus(w) \/ Publish(w)
  BY <1>2, <1>3, <1>8 DEF RunAgent, CheckStatus, Publish, FinishPublication, InlineIsRefused, Pcs,
     At, HasRead
<1> QED
  BY <1>4, <1>5, <1>6, <1>7, <1>8 DEF WorkerStep

LEMMA WorkerReply ==
  ASSUME ReplyInv, NEW w \in Workers, WorkerStep(w)
  PROVE  ReplyInv'
<1>1. ServiceInv /\ ServiceTypeOK
  BY DEF ReplyInv, ServiceInv
<1>2. replies' = replies /\ hooks' = hooks
  BY <1>1, WorkerKeeps DEF gitlabVars
<1>3. UNCHANGED last_id
  BY DEF WorkerStep, Claim, ProcessRun, CreateTrace, GetMergeRequestInfo, ListDiscussions,
     RunAgent, CheckStatus, CheckHead, Publish, Raise, Complete, Abandon, HandleFailure, Escape,
     Unshared, ClaimNextRun, MarkDone, MarkFailed, MarkSupersededIfRunning, storeVars
<1>4. considered \subseteq considered'
  BY DEF WorkerStep, Claim, ProcessRun, CreateTrace, GetMergeRequestInfo, ListDiscussions,
     RunAgent, CheckStatus, CheckHead, Publish, Raise, Complete, Abandon, HandleFailure, Escape,
     Unshared, historyVars
<1>5. [ServiceNext]_vars
  BY DEF ServiceNext
<1>6. ASSUME NEW v \in Workers, worker'[v].pc \in HasRead,
             NEW i \in RunIds, IsReply(i), Successor(i) = worker'[v].run
      PROVE  review_run[i].trigger \in worker'[v].seen
  <2>1. CASE v # w
    <3>1. worker'[v] = worker[v]
      BY <1>1, <2>1, WorkerMoves DEF GoodMove
    <3> QED
      BY <1>6, <3>1 DEF ReplyInv, ReadReplies
  <2>2. CASE v = w
    <3>1. /\ worker'[w].run = worker[w].run /\ Successor(i) = worker[w].run
          /\ \/ worker[w].pc \in HasRead /\ worker'[w].seen = worker[w].seen
             \/ worker'[w].seen = IF IsFull(w) THEN replies[RunOf(w).mr]
                  ELSE {r \in replies[RunOf(w).mr] : r.discussion = RunOf(w).trigger.discussion}
      BY <1>1, <1>6, <2>2, WorkerSees
    <3>2. review_run[i].trigger \in replies[RunOf(w).mr]
      BY <1>6, <3>1 DEF ReplyInv, Announced, SuccessorFits, RunOf
    <3>3. ASSUME ~IsFull(w) PROVE review_run[i].trigger.discussion = RunOf(w).trigger.discussion
      <4>1. worker[w].run \in RunIds /\ RunOf(w) \in Row
        BY <1>1, <1>6, <2>2, WorkerSees, HeldRow
      <4>2. IsReply(Successor(i))
        BY <3>1, <3>3, <4>1 DEF IsReply, IsFull, RunOf, Row, Kinds
      <4> QED
        BY <1>6, <3>1, <4>2 DEF ReplyInv, SuccessorFits, RunOf
    <3> QED
      BY <1>6, <2>2, <3>1, <3>2, <3>3 DEF ReplyInv, ReadReplies
  <2> QED
    BY <2>1, <2>2
<1>7. ASSUME NEW s \in RunIds, review_run'[s].status = "done", review_run[s].status # "done"
      PROVE  \E v \in Workers : /\ worker[v].pc \in HasRead /\ worker[v].run = s
                                /\ worker[v].seen \subseteq considered'
  <2>1. s \in RunIds'
    BY <1>1, <1>5, ServiceUsesStore, OldRows DEF KeepsRow, ServiceInv
  <2>2. PICK v \in Workers : Complete(v) /\ worker[v].run = s
    BY <1>1, <1>5, <1>7, <2>1, DoneByCompletion
  <2>3. IsRunning(worker[v].run)
    BY <1>7, <2>2 DEF Complete, MarkDone, storeVars
  <2> QED
    BY <2>2, <2>3 DEF Complete, At, HasRead
<1>8. \A mr \in Mrs : \A k \in DOMAIN hooks'[mr] :
        hooks'[mr][k].kind = "discussion_reconcile" => hooks'[mr][k].trigger \in replies'[mr]
  BY <1>2 DEF ReplyInv, Announced
<1>9. \A mr \in Mrs : replies[mr] \subseteq replies'[mr]
  BY <1>2
<1> QED
  BY <1>3, <1>4, <1>5, <1>6, <1>7, <1>8, <1>9, RepliesStay

\* A step in which no worker moves and the table stays.
LEMMA QuietReply ==
  ASSUME ReplyInv, [ServiceNext]_vars, UNCHANGED <<last_id, review_run, considered>>,
         \A w \in Workers : worker'[w] = worker[w] \/ worker'[w].pc = "idle",
         \A mr \in Mrs : replies[mr] \subseteq replies'[mr],
         \A mr \in Mrs : \A k \in DOMAIN hooks'[mr] :
           hooks'[mr][k].kind = "discussion_reconcile" => hooks'[mr][k].trigger \in replies'[mr]
  PROVE  ReplyInv'
<1>1. \A w \in Workers : worker'[w].pc \in HasRead =>
        \A i \in RunIds : IsReply(i) /\ Successor(i) = worker'[w].run
                          => review_run[i].trigger \in worker'[w].seen
  BY DEF ReplyInv, ReadReplies, HasRead
<1>2. \A s \in RunIds : review_run'[s].status = "done" => review_run[s].status = "done"
  OBVIOUS
<1> QED
  BY <1>1, <1>2, RepliesStay

\* A webhook about a reply is sent when the reply stands in the discussion.
LEMMA SendReply ==
  ASSUME ReplyInv, [ServiceNext]_vars, NEW mr \in Mrs, NEW kind \in Kinds, NEW sha \in Shas,
         NEW t \in Triggers, Send(mr, Hook(kind, sha, t)),
         kind = "discussion_reconcile" => t \in replies'[mr],
         \A m \in Mrs : replies[m] \subseteq replies'[m],
         UNCHANGED <<last_id, review_run, worker, considered>>
  PROVE  ReplyInv'
<1> DEFINE h == Hook(kind, sha, t)
           n == Len(hooks[mr])
<1>1. h \in Hooks /\ h.kind = kind /\ h.trigger = t
  BY DEF Hook, Hooks
<1> HIDE DEF h
<1>2. /\ hooks'[mr] = Append(hooks[mr], h) /\ hooks[mr] \in Seq(Hooks)
      /\ \A m \in Mrs : m # mr => hooks'[m] = hooks[m]
  BY DEF Send, h, ReplyInv, ServiceInv, ServiceTypeOK
<1>3. /\ n \in Nat /\ DOMAIN hooks[mr] = 1..n /\ DOMAIN hooks'[mr] = 1..(n + 1)
      /\ hooks'[mr][n + 1] = h
      /\ \A k \in 1..n : hooks'[mr][k] = hooks[mr][k]
  BY <1>1, <1>2
<1> HIDE DEF n
<1>4. \A k \in 1..(n + 1) : k \in 1..n \/ k = n + 1
  BY <1>3
<1>5. ASSUME NEW m \in Mrs, NEW k \in DOMAIN hooks'[m],
             hooks'[m][k].kind = "discussion_reconcile"
      PROVE  hooks'[m][k].trigger \in replies'[m]
  <2>1. ASSUME k \in DOMAIN hooks[m], hooks'[m][k] = hooks[m][k]
        PROVE  hooks'[m][k].trigger \in replies'[m]
    BY <1>5, <2>1 DEF ReplyInv, Announced
  <2> QED
    BY <1>1, <1>2, <1>3, <1>4, <1>5, <2>1
<1> QED
  BY <1>5, QuietReply

LEMMA DeliverReply ==
  ASSUME ReplyInv, [ServiceNext]_vars, NEW mr \in Mrs, DeliverHook(mr)
  PROVE  ReplyInv'
<1>1. ServiceInv /\ ServiceInv' /\ SupersededByLaterRun'
  BY ServiceStep, ServiceUsesStore, SupersededStep DEF ReplyInv, ServiceInv
<1>2. UNCHANGED <<worker, considered, replies>>
  BY DEF DeliverHook, historyVars
<1>3. ASSUME NEW m \in Mrs, NEW k \in DOMAIN hooks'[m],
             hooks'[m][k].kind = "discussion_reconcile"
      PROVE  hooks'[m][k].trigger \in replies'[m]
  <2>1. CASE m = mr
    BY <1>1, <1>2, <1>3, <2>1, TailOf DEF ReplyInv, Announced
  <2>2. CASE m # mr
    <3>1. hooks'[m] = hooks[m]
      BY <1>1, <2>2, Delivery DEF ServiceInv, ServiceTypeOK
    <3> QED
      BY <1>2, <1>3, <3>1 DEF ReplyInv, Announced
  <2> QED
    BY <2>1, <2>2
<1>4. CASE UNCHANGED <<last_id, review_run>>
  BY <1>2, <1>3, <1>4, QuietReply
<1>5. ASSUME OneSuccessor', NEW n, NEW S, ChainStep(mr, n, S),
             review_run'[n].kind = "discussion_reconcile" =>
               /\ review_run'[n].trigger \in replies[mr]
               /\ \A i \in S : IsReply(i) /\ review_run[i].trigger.discussion
                                               = review_run'[n].trigger.discussion
      PROVE  ReplyInv'
  <2>1. /\ \A i \in RunIds' : IsReply(i)' => review_run'[i].trigger \in replies[review_run'[i].mr]
        /\ SuccessorFits' /\ ReadReplies' /\ QueuedReplyIsConsidered'
    BY <1>2, <1>5, ChainKeeps
  <2>2. Announced'
    BY <1>2, <1>3, <2>1 DEF Announced
  <2> QED
    BY <1>1, <1>5, <2>1, <2>2 DEF ReplyInv
<1>6. CASE InsertsFull(mr, hooks[mr][1].sha)
  <2>1. PICK n, S : ChainStep(mr, n, S) /\ review_run'[n].kind = "full_review"
    BY <1>6, FullChain
  <2> QED
    BY <1>5, <1>6, <2>1, FullChain
<1>7. CASE InsertsReconcile(mr, hooks[mr][1].sha, hooks[mr][1].trigger)
           /\ hooks[mr][1].kind = "discussion_reconcile"
  <2> DEFINE t == hooks[mr][1].trigger
  <2>1. t \in Triggers /\ t \in replies[mr]
    BY <1>1, <1>7, TailOf, Delivery DEF ReplyInv, Announced
  <2>2. t.discussion # None
    <3>1. replies[mr] \subseteq Replies
      BY <1>1 DEF ServiceInv, ServiceTypeOK
    <3> QED
      BY <2>1, <3>1, NoneAssumption DEF Replies
  <2> HIDE DEF t
  <2>3. InsertsReconcile(mr, hooks[mr][1].sha, t)
    BY <1>7 DEF t
  <2>4. OneSuccessor'
    BY <2>1, <2>2, <2>3, ReconcileChain
  <2>5. PICK n, S : /\ ChainStep(mr, n, S)
                    /\ review_run'[n].kind = "discussion_reconcile" /\ review_run'[n].trigger = t
                    /\ \A i \in S : IsReply(i) /\ review_run[i].trigger.discussion = t.discussion
    BY <2>1, <2>2, <2>3, ReconcileChain
  <2> QED
    BY <1>5, <2>1, <2>4, <2>5
<1> QED
  BY <1>1, <1>4, <1>6, <1>7, Delivery DEF storeVars

LEMMA ReplyStep == ReplyInv /\ [ServiceNext]_vars => ReplyInv'
<1> SUFFICES ASSUME ReplyInv, [ServiceNext]_vars PROVE ReplyInv'
  OBVIOUS
<1>1. ServiceInv
  BY DEF ReplyInv
<1>2. ASSUME UNCHANGED <<storeVars, gitlabVars, considered>>,
             \A w \in Workers : worker'[w] = worker[w] \/ worker'[w].pc = "idle"
      PROVE  ReplyInv'
  <2>1. UNCHANGED <<last_id, review_run, considered, hooks, replies>>
    BY <1>2 DEF storeVars, gitlabVars
  <2> QED
    BY <1>2, <2>1, QuietReply DEF ReplyInv, Announced
<1>3. ASSUME Restart PROVE ReplyInv'
  BY <1>2, <1>3 DEF Restart, IdleWorker, historyVars
<1>4. ASSUME NEW w \in Workers, ClaimRaises(w) PROVE ReplyInv'
  BY <1>2, <1>4 DEF ClaimRaises, historyVars
<1>5. ASSUME UNCHANGED vars PROVE ReplyInv'
  BY <1>2, <1>5 DEF vars, historyVars
<1>6. "full_review" \in Kinds /\ "discussion_reconcile" \in Kinds /\ NoTrigger \in Triggers
      /\ Replies \subseteq Triggers
  BY DEF Kinds, NoTrigger, Triggers, Replies
<1>7. ASSUME NEW mr \in Mrs, NEW sha \in Shas, Push(mr, sha) PROVE ReplyInv'
  BY <1>6, <1>7, SendReply DEF Push, storeVars, historyVars
<1>8. ASSUME NEW mr \in Mrs, BecomeReady(mr) PROVE ReplyInv'
  <2>1. HeadOf(mr) \in Shas
    BY <1>1, <1>8, HeadType DEF BecomeReady
  <2> QED
    BY <1>6, <1>8, <2>1, SendReply DEF BecomeReady, storeVars, historyVars
<1>9. ASSUME NEW mr \in Mrs, NEW reply \in Replies, PostReply(mr, reply) PROVE ReplyInv'
  <2>1. HeadOf(mr) \in Shas /\ reply \in Triggers
    BY <1>1, <1>6, <1>9, HeadType DEF PostReply
  <2>2. replies \in [Mrs -> SUBSET Replies]
    BY <1>1 DEF ServiceInv, ServiceTypeOK
  <2>3. reply \in replies'[mr] /\ \A m \in Mrs : replies[m] \subseteq replies'[m]
    BY <1>9, <2>2 DEF PostReply
  <2> QED
    BY <1>6, <1>9, <2>1, <2>3, SendReply DEF PostReply, storeVars, historyVars
<1>10. ASSUME NEW mr \in Mrs, DeliverHook(mr) PROVE ReplyInv'
  BY <1>10, DeliverReply
<1>11. ASSUME NEW w \in Workers, WorkerStep(w) PROVE ReplyInv'
  BY <1>11, WorkerReply
<1> QED
  BY <1>3, <1>4, <1>5, <1>7, <1>8, <1>9, <1>10, <1>11 DEF ServiceNext

\* However often a reconcile run was superseded, and whoever posted, pushed,
\* failed or restarted meanwhile: when the run at the end of its chain is
\* recorded as done, the reply that started it was read by that run.
THEOREM QueuedRepliesAreConsidered == ServiceSpec => []QueuedReplyIsConsidered
<1>1. ServiceInit => ReplyInv
  <2> SUFFICES ASSUME ServiceInit PROVE ReplyInv
    OBVIOUS
  <2>1. ServiceInv /\ RunIds = {} /\ last_id = 0
    BY ServiceStart DEF ServiceInit, Init, RunIds
  <2>2. /\ \A w \in Workers : worker[w].pc = "idle"
        /\ \A mr \in Mrs : hooks[mr] = <<>>
    BY DEF ServiceInit, IdleWorker
  <2>3. OneSuccessor
    <3>1. PICK f : f = [j \in RunIds |-> j]
      OBVIOUS
    <3>2. FollowsOnly(f)
      BY <2>1, <3>1 DEF FollowsOnly, Follows
    <3> QED
      BY <3>2 DEF OneSuccessor
  <2> QED
    BY <2>1, <2>2, <2>3 DEF ReplyInv, Announced, SuccessorFits, ReadReplies,
       QueuedReplyIsConsidered, SupersededByLaterRun, HasRead
<1>2. ReplyInv => QueuedReplyIsConsidered
  BY DEF ReplyInv
<1> QED
  BY <1>1, <1>2, ReplyStep, PTL DEF ServiceSpec
=============================================================================
