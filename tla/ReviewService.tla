---------------------------- MODULE ReviewService ----------------------------
(***************************************************************************)
(* The service at work: GitLab moves heads and delivers webhooks           *)
(* (app.py), worker threads claim runs (worker.py) and carry them through  *)
(* the full-review and reconcile pipelines (service.py) while the store    *)
(* changes under them.  Each read or write of GitLab or of the store is a  *)
(* step of its own, so other workers and webhooks come in between.         *)
(* What is published, finding by finding, is not part of this module.      *)
(***************************************************************************)
EXTENDS RunStore, Sequences

CONSTANTS
  Workers,        \* worker threads (MAX_CONCURRENT_REVIEWS)
  MaxPushes,      \* bound: pushes, all merge requests
  MaxReadyEvents, \* bound: reopen / became-ready events, all merge requests
  MaxCrashes,     \* bound: restarts of the process
  MaxFaults,      \* bound: errors of the database or the trace file outside a try block
  ForcePushBack   \* a push may return to a commit pushed before

ASSUME ServiceAssumption ==
  /\ {MaxPushes, MaxReadyEvents, MaxCrashes, MaxFaults} \subseteq Nat
  /\ ForcePushBack \in BOOLEAN

VARIABLES
  commits,     \* merge request -> heads in the order they were pushed
  replies,     \* merge request -> human notes in its discussions
  hooks,       \* merge request -> webhooks GitLab has yet to deliver, in order
  worker,      \* worker -> the run it processes and where it is
  alive,       \* worker threads that still run their loop
  budget,      \* what the environment may still do
  published,   \* history: full reviews published to the end, each with the head found before it
  considered   \* history: replies seen by a run that completed

gitlabVars  == <<commits, replies, hooks>>
processVars == <<alive, budget>>
historyVars == <<published, considered>>
vars == <<storeVars, gitlabVars, worker, processVars, historyVars>>
-----------------------------------------------------------------------------
HeadOf(mr) == commits[mr][Len(commits[mr])]

Replies == [discussion: Discussions, note: Notes]

Hooks == [kind: Kinds, sha: Shas, trigger: Triggers]

Hook_SwappedArguments(kind, sha, trigger) ==
  [kind |-> kind, sha |-> trigger, trigger |-> sha]
Hook(kind, sha, trigger) == [kind |-> kind, sha |-> sha, trigger |-> trigger]

IdleWorker == [pc |-> "idle", run |-> 0, sha |-> None, head |-> None, seen |-> {}]

\* Where a worker stands: the call it makes next.
Pcs == {"idle", "process_run", "create_trace", "get_info", "list_discussions",
        "run_agent", "check_status", "check_head", "publish", "mark_done",
        "mark_superseded", "mark_failed"}

WorkerState == [pc: Pcs, run: Nat, sha: ShaOrNull, head: ShaOrNull, seen: SUBSET Replies]

Publications == [run: Nat, head: ShaOrNull]

\* Calls of GitLab, git, a CLI or the database inside the try block: each may raise.
Fallible == {"get_info", "list_discussions", "run_agent", "check_status", "check_head",
             "publish", "mark_done", "mark_superseded"}

At(w, pc) == worker[w].pc = pc
RunOf(w) == review_run[worker[w].run]
IsFull(w) == RunOf(w).kind = "full_review"

GoTo(w, pc) == worker' = [worker EXCEPT ![w].pc = pc]
Release(w)  == worker' = [worker EXCEPT ![w] = IdleWorker]

-----------------------------------------------------------------------------
ServiceInit ==
  /\ Init
  /\ commits = [mr \in Mrs |-> <<>>]
  /\ replies = [mr \in Mrs |-> {}]
  /\ hooks = [mr \in Mrs |-> <<>>]
  /\ worker = [w \in Workers |-> IdleWorker]
  /\ alive = Workers
  /\ budget = [pushes |-> MaxPushes, ready |-> MaxReadyEvents,
               crashes |-> MaxCrashes, faults |-> MaxFaults]
  /\ published = {}
  /\ considered = {}

Spend(what) == budget[what] > 0 /\ budget' = [budget EXCEPT ![what] = @ - 1]

Send(mr, hook) == hooks' = [hooks EXCEPT ![mr] = Append(@, hook)]

\* The first push opens the merge request.
Push(mr, sha) ==
  /\ Spend("pushes")
  /\ commits[mr] # <<>> => HeadOf(mr) # sha
  /\ ~ForcePushBack => \A k \in DOMAIN commits[mr] : commits[mr][k] # sha
  /\ commits' = [commits EXCEPT ![mr] = Append(@, sha)]
  /\ Send(mr, Hook("full_review", sha, NoTrigger))
  /\ UNCHANGED <<storeVars, replies, worker, alive, historyVars>>

\* Reopened, or no longer a draft: an event for a head that did not move.
BecomeReady(mr) ==
  /\ commits[mr] # <<>>
  /\ Spend("ready")
  /\ Send(mr, Hook("full_review", HeadOf(mr), NoTrigger))
  /\ UNCHANGED <<storeVars, commits, replies, worker, alive, historyVars>>

\* A human writes a note in a discussion of the merge request.
PostReply(mr, reply) ==
  /\ commits[mr] # <<>>
  /\ \A m \in Mrs : \A r \in replies[m] : r.note # reply.note
  /\ replies' = [replies EXCEPT ![mr] = @ \cup {reply}]
  /\ Send(mr, Hook("discussion_reconcile", HeadOf(mr), reply))
  /\ UNCHANGED <<storeVars, commits, worker, processVars, historyVars>>

\* The webhook handler: parse the event, enqueue, answer.
DeliverHook(mr) ==
  /\ hooks[mr] # <<>>
  /\ LET hook == hooks[mr][1] IN
       \/ hook.kind = "full_review" /\ EnqueueFullReview(mr, hook.sha)
       \/ hook.kind = "discussion_reconcile" /\ EnqueueReconcile(mr, hook.sha, hook.trigger)
  /\ hooks' = [hooks EXCEPT ![mr] = Tail(@)]
  /\ UNCHANGED <<commits, replies, worker, processVars, historyVars>>
-----------------------------------------------------------------------------
\* A thread that died in claim_next_run kept its lock.
Claim_LockIsKept(w) ==
  /\ alive = Workers /\ At(w, "idle")
  /\ \E i \in RunIds :
       /\ ClaimNextRun(i)
       /\ worker' = [worker EXCEPT ![w].pc = "process_run", ![w].run = i]
  /\ UNCHANGED <<gitlabVars, processVars, historyVars>>

Claim(w) ==
  /\ w \in alive /\ At(w, "idle")
  /\ \E i \in RunIds :
       /\ ClaimNextRun(i)
       /\ worker' = [worker EXCEPT ![w].pc = "process_run", ![w].run = i]
  /\ UNCHANGED <<gitlabVars, processVars, historyVars>>

\* The loop calls claim_next_run outside its try block: an error of the database
\* ends the thread, and nothing starts another.
ClaimRaises(w) ==
  /\ w \in alive /\ At(w, "idle")
  /\ Spend("faults")
  /\ alive' = alive \ {w}
  /\ UNCHANGED <<storeVars, gitlabVars, worker, historyVars>>

\* The step touches neither the store nor GitLab.
Unshared == UNCHANGED <<storeVars, gitlabVars, processVars, historyVars>>

ProcessRun(w) ==
  /\ At(w, "process_run")
  /\ IF IsRunning(worker[w].run) THEN GoTo(w, "create_trace") ELSE Release(w)
  /\ Unshared

CreateTrace(w) ==
  /\ At(w, "create_trace")
  /\ GoTo(w, "get_info")
  /\ Unshared

\* What the status query, the creation of the trace or, in the handler of a
\* failure, the trace or mark_failed raises ends in the worker loop's log.
Escape(w) ==
  /\ worker[w].pc \in {"process_run", "create_trace", "mark_failed"}
  /\ Spend("faults")
  /\ Release(w)
  /\ UNCHANGED <<storeVars, gitlabVars, alive, historyVars>>

GetMergeRequestInfo(w) ==
  /\ At(w, "get_info")
  /\ LET head == HeadOf(RunOf(w).mr) IN
       worker' = [worker EXCEPT ![w].sha = head,
         ![w].pc = IF IsFull(w) /\ head # RunOf(w).source_sha
                   THEN "mark_superseded" ELSE "list_discussions"]
  /\ Unshared

\* A reconcile run needs its discussion only, and is done at once when no
\* open tracked finding belongs to it.
ListDiscussions(w) ==
  /\ At(w, "list_discussions")
  /\ LET all == replies[RunOf(w).mr]
         own == {r \in all : r.discussion = RunOf(w).trigger.discussion} IN
     \E next \in {"run_agent"} \cup IF IsFull(w) THEN {} ELSE {"mark_done"} :
       worker' = [worker EXCEPT ![w].seen = IF IsFull(w) THEN all ELSE own,
                                ![w].pc = next]
  /\ Unshared

RunAgent(w) ==
  /\ At(w, "run_agent")
  /\ GoTo(w, IF IsFull(w) THEN "check_status" ELSE "publish")
  /\ Unshared

CheckStatus(w) ==
  /\ At(w, "check_status")
  /\ IF IsRunning(worker[w].run) THEN GoTo(w, "check_head") ELSE Release(w)
  /\ Unshared

\* A moved head does not stop the review: it is published without positions.
CheckHead(w) ==
  /\ At(w, "check_head")
  /\ worker' = [worker EXCEPT ![w].pc = "publish", ![w].head = HeadOf(RunOf(w).mr)]
  /\ Unshared

StaleBeforePublish(w) == worker[w].head # worker[w].sha

\* All findings, replies and notes are written.
FinishPublication(w) ==
  /\ GoTo(w, "mark_done")
  /\ published' = IF IsFull(w)
                  THEN published \cup {[run |-> worker[w].run, head |-> worker[w].head]}
                  ELSE published

\* An inline discussion is refused because the head has moved since the check.
InlineIsRefused(w) ==
  /\ IsFull(w) /\ ~StaleBeforePublish(w)
  /\ HeadOf(RunOf(w).mr) # worker[w].sha
  /\ UNCHANGED published

\* The refusal ends the publication, not the run.
Publish_RefusalIsSwallowed(w) ==
  /\ At(w, "publish")
  /\ FinishPublication(w) \/ (InlineIsRefused(w) /\ GoTo(w, "mark_done"))
  /\ UNCHANGED <<storeVars, gitlabVars, processVars, considered>>

Publish(w) ==
  /\ At(w, "publish")
  /\ FinishPublication(w) \/ (InlineIsRefused(w) /\ GoTo(w, "mark_superseded"))
  /\ UNCHANGED <<storeVars, gitlabVars, processVars, considered>>

\* Part of the publication may already be on GitLab.
Raise(w) ==
  /\ worker[w].pc \in Fallible
  /\ GoTo(w, "mark_failed")
  /\ Unshared

\* The commit is read again instead of taken from mr_info.
Complete_ReportsHead(w) ==
  /\ At(w, "mark_done")
  /\ MarkDone(worker[w].run, HeadOf(RunOf(w).mr))
  /\ considered' = IF IsRunning(worker[w].run) THEN considered \cup worker[w].seen
                                               ELSE considered
  /\ Release(w)
  /\ UNCHANGED <<gitlabVars, processVars, published>>

Complete(w) ==
  /\ At(w, "mark_done")
  /\ MarkDone(worker[w].run, worker[w].sha)
  /\ considered' = IF IsRunning(worker[w].run) THEN considered \cup worker[w].seen
                                               ELSE considered
  /\ Release(w)
  /\ UNCHANGED <<gitlabVars, processVars, published>>

Abandon_OnlyLogs(w) ==
  /\ At(w, "mark_superseded")
  /\ Release(w)
  /\ UNCHANGED <<storeVars, gitlabVars, processVars, historyVars>>

Abandon(w) ==
  /\ At(w, "mark_superseded")
  /\ MarkSupersededIfRunning(worker[w].run)
  /\ Release(w)
  /\ UNCHANGED <<gitlabVars, processVars, historyVars>>

HandleFailure_OnlyLogs(w) ==
  /\ At(w, "mark_failed")
  /\ Release(w)
  /\ UNCHANGED <<storeVars, gitlabVars, processVars, historyVars>>

HandleFailure(w) ==
  /\ At(w, "mark_failed")
  /\ MarkFailed(worker[w].run, RunOf(w).source_sha)
  /\ Release(w)
  /\ UNCHANGED <<gitlabVars, processVars, historyVars>>

\* The container restarts: threads are gone, the tables are not, and
\* nothing at startup looks at rows that are running.
Restart ==
  /\ Spend("crashes")
  /\ \E w \in Workers : w \notin alive \/ ~At(w, "idle")
  /\ worker' = [w \in Workers |-> IdleWorker]
  /\ alive' = Workers
  /\ UNCHANGED <<storeVars, gitlabVars, historyVars>>

WorkerStep(w) ==
  \/ Claim(w) \/ ProcessRun(w) \/ CreateTrace(w) \/ GetMergeRequestInfo(w)
  \/ ListDiscussions(w) \/ RunAgent(w) \/ CheckStatus(w) \/ CheckHead(w)
  \/ Publish(w) \/ Raise(w) \/ Complete(w) \/ Abandon(w) \/ HandleFailure(w)
  \/ Escape(w)

ServiceNext ==
  \/ \E mr \in Mrs :
       \/ \E sha \in Shas : Push(mr, sha)
       \/ BecomeReady(mr)
       \/ \E reply \in Replies : PostReply(mr, reply)
       \/ DeliverHook(mr)
  \/ \E w \in Workers : WorkerStep(w) \/ ClaimRaises(w)
  \/ Restart

ServiceSpec == ServiceInit /\ [][ServiceNext]_vars

\* Worker threads run, every call they make ends (30 s for an HTTP request,
\* REVIEW_TIMEOUT_SEC for a CLI) and GitLab delivers what it has to deliver.
\* Nobody has to push, reply or restart anything.
FairServiceSpec ==
  /\ ServiceSpec
  /\ \A w \in Workers : WF_vars(WorkerStep(w))
  /\ \A mr \in Mrs : WF_vars(DeliverHook(mr))
-----------------------------------------------------------------------------
(***************************************************************************)
(* Properties                                                              *)
(***************************************************************************)

ServiceTypeOK ==
  /\ commits \in [Mrs -> Seq(Shas)]
  /\ replies \in [Mrs -> SUBSET Replies]
  /\ hooks \in [Mrs -> Seq(Hooks)]
  /\ worker \in [Workers -> WorkerState]
  /\ alive \subseteq Workers
  /\ budget \in [{"pushes", "ready", "crashes", "faults"} -> Nat]
  /\ published \subseteq Publications
  /\ considered \subseteq Replies

\* The workers and the webhook handler use the queue only as its
\* specification allows, so all its invariants hold in the service.
UsesRunStore == Spec

Holds(w, i) == ~At(w, "idle") /\ worker[w].run = i

\* A run in the table as running is being processed, by exactly one worker:
\* none is lost on an error path, none is claimed twice.  This is the
\* promise of service.py:110-111 that any unhandled error fails the run; a
\* restart, or an error outside the try block, is what it does not cover.
NothingFailedOutside == budget.crashes = MaxCrashes /\ budget.faults = MaxFaults
RunningRunsAreHeld ==
  NothingFailedOutside =>
    \A i \in RunIds : IsRunning(i) =>
      \E w \in Workers : Holds(w, i) /\ \A v \in Workers \ {w} : ~Holds(v, i)

\* However workers and restarts interleave, two workers never process one run.
NoRunIsHeldTwice ==
  \A w, v \in Workers : w # v /\ ~At(w, "idle") /\ ~At(v, "idle")
                        => worker[w].run # worker[v].run

\* The commit has a full review in the table, or its webhook is still to be handled.
IsRequested(mr, sha) ==
  \/ \E i \in FullRuns(mr) : review_run[i].source_sha = sha
  \/ \E k \in DOMAIN hooks[mr] : hooks[mr][k].kind = "full_review" /\ hooks[mr][k].sha = sha

\* A full review recorded as done published everything: none that raised or was
\* refused half-way ends as done.  And it never stands for a head it did not
\* review: when its second check found another one (service.py:186-194, where
\* it is still published, without positions, and done), that one has a review
\* of its own, or a webhook that is going to ask for it.
DoneReviewWasPublished ==
  \A mr \in Mrs : \A i \in FullRuns(mr) :
    review_run[i].status = "done" =>
      \E p \in published : p.run = i /\ IsRequested(mr, p.head)

\* Once every webhook of a merge request was handled, last_seen_sha is its
\* head: no run that ends late puts an older commit back ("latest commit the
\* service has observed", README.md:90).
LastSeenIsHead ==
  \A mr \in Mrs : commits[mr] # <<>> /\ hooks[mr] = <<>>
                  => mr_state[mr].last_seen_sha = HeadOf(mr)

\* The run that took over from run i, through any number of supersessions.
Successor(i) ==
  LET last[j \in RunIds] ==
        IF review_run[j].superseded_by = None THEN j ELSE last[review_run[j].superseded_by]
  IN  last[i]

\* Superseding loses no reply: when the run that finally took over from a
\* queued reconcile run completes, the reply that started it was read.
QueuedReplyIsConsidered ==
  \A i \in RunIds :
    /\ review_run[i].kind = "discussion_reconcile"
    /\ review_run[Successor(i)].status = "done"
    => review_run[i].trigger \in considered

\* No reply is lost: once a merge request has come to rest with every run
\* done or replaced, all its replies were read.  README.md:201 says so of the
\* replies that are not queued because a full review is pending.
EveryReplyIsConsidered ==
  \A mr \in Mrs :
    /\ hooks[mr] = <<>>
    /\ \A i \in RunsOf(mr) : \/ review_run[i].status = "done"
                             \/ review_run[i].superseded_by # None
    => replies[mr] \subseteq considered

\* Every queued run ends, unless an error outside a try block left it behind
\* (the second disjunct): whatever superseded it, raised or moved the head, no
\* worker leaves it half-way.  It is false after a restart, as nothing at
\* startup looks for the run that was in progress.
\* (Runs that ended stay ended, and their number is bounded.)
EveryRunEnds ==
  []<>(\/ \A i \in RunIds : review_run[i].status \in Terminal
       \/ budget.faults # MaxFaults)

\* A thread that dies takes the queue with it only when it was the last: while
\* one worker lives, every queued run is claimed or replaced.
QueueDrains == []<>(Queued = {} \/ alive = {})

\* The head at which a merge request comes to rest is reviewed, or its
\* review was tried and failed, whatever was superseded on the way; unless an
\* error outside a try block left its run behind.
HeadIsReviewed ==
  \A mr \in Mrs :
    <>[](commits[mr] # <<>> =>
           \/ \E i \in FullRuns(mr) : /\ review_run[i].source_sha = HeadOf(mr)
                                       /\ review_run[i].status \in {"done", "failed"}
           \/ budget.faults # MaxFaults)
=============================================================================
