# Nimble Reviewer: a TLA+ model

Nimble Reviewer is a merge request review bot for GitLab. It takes webhooks,
keeps a queue of review runs in SQLite, and worker threads carry the runs out:
fetch the repository, let Codex and Claude Code review the diff, publish the
findings as discussion threads, and answer humans who reply in them. These
modules model the parts whose correctness depends on the order in which
webhooks, workers, GitLab and failures interleave. Line numbers refer to the
files in `nimble_reviewer/`.

## 1. The system

| Part | State it keeps | Operations | Interacts by | Hard part |
|---|---|---|---|---|
| Run store, `store.py` | tables `review_run`, `merge_request_state`, `tracked_finding` | `enqueue_run`, `claim_next_run`, `mark_done`, `mark_failed`, `mark_superseded_if_running`, `upsert_tracked_finding`, reads | SQLite transactions called by the webhook handler and by every worker | runs superseded while a worker has them, duplicates, order of claims |
| Webhook intake, `app.py`, `webhook.py` | cached bot user | parse an event, enqueue | called by GitLab, calls the store | events repeated or about a head that moved, the bot's own notes |
| Workers, `worker.py` | threads, stop event | `start`, `stop`, `_run_loop` | polls the store, calls the service | a thread that dies in the claim, a run whose handler raises |
| Review pipelines, `service.py` | none of its own | `process_run`: full review, discussion reconcile | calls GitLab, git, the reviewers, the store, the trace | values read minutes before they are used, staleness checks, error paths |
| Publication, `service.py:355-605` | `tracked_finding` rows, GitLab threads | create, reply, resolve, upsert | GitLab and the store, finding by finding | partial failure, lost updates against reconcile runs, matching |
| Reviewers, `review_agent.py` | none | run CLIs in parallel, synthesise | subprocesses | partial failure, timeouts, invalid answers |
| Repository cache, `gitops.py` | one bare mirror per repository, temporary checkouts | `_ensure_mirror`, `prepare_checkout`, `close` | git subprocesses on shared directories | two workers in one mirror, clones killed half-way, heads and targets that move meanwhile |
| Diff mapping, `diff_mapping.py`, `service.py:1061-1077` | the last headers seen | read a diff, look up a position | called by the publication and the prompt | header lines against content lines, line numbers |
| Matching, `finding_match.py` | none | `findings_match`, `finding_fingerprint` | called by the publication and the council | a relation that is not transitive, used greedily |
| GitLab client, `gitlab.py` | cached current user | REST calls, pagination | HTTP | failures, 30 s timeout |
| Trace, `trace.py` | JSON lines per run | create, write, snapshot | files | raising where nothing catches |
| Prompts and rules, `prompts.py`, `review_rules.py` | none | text assembly, `_build_reconcile_diff_excerpt` | called by the pipelines | size budgets, whose lines a part of the diff holds |
| Configuration, models, state directories | none after startup | | | |
| Deployment and backup scripts | | | | |

What makes each part correct:

- **Store**: at most one full review per commit is queued, running or done; a
  pending full review excludes every other pending run of its merge request; at
  most one pending reconcile run per discussion; a run that is over never
  changes; a supersession always leads to a run that takes the work over; full
  reviews complete in the order in which they were queued.
- **Workers and pipelines**: a running row is in the hands of exactly one
  worker; a review recorded as done was published to the end, and never in the
  place of a newer head's; `last_seen_sha` follows the head; every queued run ends; the head a merge request comes to rest at gets
  its review; no reply of a human is lost.
- **Publication**: a row names the thread opened for its finding and no other;
  a finding keeps one thread however often it vanishes and returns; a review
  that is done has tracked exactly what it reports; a dismissal is undone only
  by changes; the bot does not repeat itself; rows and threads agree at rest.
- **Reviewers**: the result has every finding of both reviews, credited to the
  reviewer that raised it, or names the reviewer that failed; when the review is
  over, no CLI works in the checkout any more; it does get over.
- **Repository cache**: no checkout is made from a mirror that is broken; a
  checkout has the commit asked for unless that was forced away; its target
  branch is as new as when the preparation began; a review that got a checkout
  leaves no directory behind.
- **Webhook intake**: a head that is open and ready gets a review in whatever way
  it came to be so; nothing else asks for one; the bot's talk with itself ends.
- **Diff mapping**: a position is a line the diff adds, in its own file, on both
  sides; a file whose text is misread spoils no other.

`PROJECT.json` lists the components with what is modelled of each, and under
`hazards` every place in this code that a test would hardly reach.

## 2. The modules

| Module | Models |
|---|---|
| `RunStore` | the tables `review_run` and `merge_request_state` and all operations on them |
| `ReviewQueue` | what that queue promises, without rows and ids (abstract) |
| `ReviewService` | GitLab, the webhook handler and the workers around `RunStore` |
| `Publication` | the table `tracked_finding`, the GitLab threads, and every write of full reviews and reconcile runs to them |
| `FindingLifecycle` | what becomes of the findings of a merge request, without rows, copies and calls (abstract) |
| `Council` | one review by the two CLIs: their calls, synthesis, and the reconciliation of findings |
| `RepoCache` | the mirror of one repository and the checkouts made from it, one git command a step |
| `Webhook` | which payloads of a merge request become runs |
| `DiffMapping` | the readers of a diff, line by line beside the git that prints it, and the excerpt a reconcile run is shown |
| `FindingMatch` | `findings_match` and `finding_fingerprint`, as operators |
| `MCRunStore`, `MCReviewService`, `MCPublication`, `MCCouncil`, `MCRepoCache`, `MCDiffMapping` | symmetry sets and the values of constants for TLC |
| `RunStoreProofs`, `ReviewServiceProofs`, `PublicationProofs`, `CouncilProofs`, `RepoCacheProofs`, `WebhookProofs`, `DiffMappingProofs`, `FindingMatchProofs` | theorems and their proofs |

`ReviewService` composes the queue, GitLab and the workers; `Publication` opens up
its step `Publish`, `Council` its step `RunAgent`, `RepoCache` the preparation of
the checkout inside `RunAgent`, and `Webhook` the decision before `DeliverHook`.
Each of the four keeps from the others only what it needs: the order in which
the queue lets runs go on, and that any call may raise.

### RunStore

Each public method of `Store` is one SQLite transaction (`BEGIN IMMEDIATE`, or
the single UPDATE of `mark_superseded_if_running`), so each is one action:
`EnqueueFullReview`, `EnqueueReconcile`, `ClaimNextRun`, `MarkDone`,
`MarkFailed`, `MarkSupersededIfRunning`. The guard `status = 'running'` of the
last three is part of the action, whose other branch changes nothing: the
caller does not know. `UpsertMrState` is the upsert with its COALESCE.

Abstractions. A merge request stands for `(project_id, mr_iid)`. `created_at`,
`started_at` and `finished_at` are left out: requests are enqueued one at a
time on the event loop of the web server, so `created_at` and `id` grow together
and `ORDER BY created_at, id` is the order of ids (a clock set back is outside
the model). `target_sha`, `error` and `trigger_author_id` are not read by any
query of these operations.

`Next` lets any run be completed at any time, without a worker, and with the
commits a worker may report: the store on its own must be safe for every caller
that respects `ReviewedShas`. `ReviewService` narrows this down and is proved to
implement it.

### ReviewQueue

The abstract queue: per merge request one review to do or none, a phase for
each reply to answer, and the set of reviewed commits. `RunStore` gives the
refinement mapping (`QueuedReview`, `PendingReply`, `ReplyPhase`) and
`ImplementsReviewQueue` is checked as a property and proved, of the store and of
the service. Supersession is a replacement
there and rows do not exist, so the property says that nothing else about the
table can be seen from outside.

### ReviewService

Composition of `RunStore` (by EXTENDS) with

- GitLab: `Push`, `BecomeReady`, `PostReply` change the heads and the notes and
  send webhooks; webhooks of a merge request are delivered in the order they
  were sent (`DeliverHook` = `gitlab_webhook`, one call, no await between parse
  and enqueue), at any time later;
- workers: `worker[w]` has the run, the place in the pipeline (`pc`, the call
  made next), and what has been read (`sha` the head of `mr_info`, `head` that of
  the second check, `seen` the replies in the listed discussions).
  There is one action per read or write of shared state:

| Action | Code |
|---|---|
| `Claim`, `ClaimRaises` | `worker.py:39-52`, `claim_next_run`; it stands outside the loop's try block, so an error of the database ends the thread |
| `ProcessRun` | status check and dispatch, `service.py:91-103` |
| `CreateTrace` | `service.py:119-130`, `274` |
| `GetMergeRequestInfo` | `service.py:133-137`, `276`: the first staleness check |
| `ListDiscussions` | `service.py:150`; for a reconcile run `277-309` with the exits that mark it done |
| `RunAgent` | prompt, reviewers, suppression, snapshot: no shared state |
| `CheckStatus`, `CheckHead` | `service.py:183-194` |
| `Publish` | `service.py:195-234` as one step (`FinishPublication`), or the exit `_StaleRunDuringPublish` (`InlineIsRefused`) |
| `Complete`, `Abandon`, `HandleFailure` | `mark_done`, `mark_superseded_if_running`, the except handlers |
| `Raise` | any call inside the try block raises |
| `Escape` | the status query, the trace, or the failure handler raises: caught by the worker loop (`worker.py:53-56`), which only logs |
| `Restart` | the process goes and comes back; `initialize` and `start` touch no row |

`alive` is the set of threads that still loop; `budget` bounds what the
environment does, `budget.faults` the errors of the database or the trace file
outside a try block (`ClaimRaises` and `Escape`). `published` and `considered` are
history: the full reviews that were published to the end, each with the head its
second check found, and the replies that a completed run had read. A publication
that raises or is refused half-way leaves no trace in `published`.

### Publication

One merge request. `tracked` is the table by fingerprint, `threads` the
discussions in the order they were opened (a thread's number is its id),
`writer[w]` the local variables of the run a worker has: `rows` and `listing`
are what it read and will go on using, `used` the fingerprints already dealt
with, `place` the index of the finding at hand. Each GitLab call that writes and
each upsert is an action of its own, so other runs and humans come in between.

| Action | Code (`service.py`) |
|---|---|
| `StartReview`, `ListRows` | head and last done review 132-149; `list_tracked_findings` 151 |
| `RunAgent` | the reviewers' answer, suppression of dismissed findings, comparison, 152-181 |
| `CheckStatus`, `CheckHead`, `ListThreads` | 183-185, 186-193, 195 |
| `PlaceInThread` | a row matches; its thread is reopened if resolved, 399-418 |
| `CreateThread`, `InlineFails` | a new thread, inline or plain, 420-481; `_create_inline_discussion_or_none` 549-605 |
| `SaveFinding`, `AddStillPresentReply` | 483-508; 510-529 |
| `ResolveThread`, `SaveResolved` | rows no finding took, 531-543 |
| `MarkDone` | closing notes and `mark_done`, 216-248 |
| `StartReconcile`, `FindThread`, `FindRow` | 258-276, 277-287, 289-309 |
| `Reconcile`, `NoAction`, `Reply` | the agent's decision 311-336; its reply 338-339 |
| `SaveDecision`, `ResolveDismissed` | 340-349; 343-344 |
| `Raise`, `RaiseAfterCreate` | a call raises, for a creation also after GitLab carried it out |
| `Push` ... `DeleteThread` | GitLab and its users |

Abstractions.

- A finding is its fingerprint; `about` is the text, file and line a row has
  taken over from a later finding. `findings_match` is a constant relation,
  reflexive and symmetric (`MatchIsSymmetric` proves it of `FindingMatch`), and
  nothing else is assumed of it; in the runs it is what `FindingMatch` says of
  four concrete findings.
- `edited` is the set of findings near which the diff of the whole merge request
  has changes (`has_changes_near`); a push may replace it by any other.
- The queue keeps what `RunStore` guarantees: a full review supersedes every
  active run and a reply is refused while one is pending. Whether a superseded
  reconcile run is still live is never asked by the code and is left out.
- Rows are listed by `updated_at`, which has whole seconds, so rows of one
  status come in any order: `MatchingRows` and `MayBeKept` leave the choice open.
- `Reports` is closed under leaving findings out: what `RunAgent` passes on is any
  report whose findings may all be kept, which is what suppression leaves of
  some answer. Heads are not pushed back.
- The thread owner of a row is always the bot: this code writes no other. The
  docstring's "Appends to an existing human thread" (`service.py:374`) has no
  code. Two adjacent reads of the table by a reconcile run (`service.py:289-290`)
  are one step.
- A call that raises may do so before or after its effect only where the effect
  is a new thread; replying or resolving twice is not told apart.

### FindingLifecycle

The abstract specification of the publication: a finding is open, resolved or
dismissed, has a wording and a thread, and a review raises, confirms or retires
each finding once. `Publication` gives the mapping: rows are findings
(`AsFindings`), full reviews between start and end are reviews with
the fingerprints they have dealt with (`AsReviews`), the report is `lastDone`. What
is promised is that copies of rows, calls in two or three parts and failures
between them cannot be seen: a finding that is new resembles none that was raised
and gets a thread of its own, one that returns keeps its thread, a dismissal ends
only by changes near the words dismissed, no discussion dismisses while a review
is at work, and a review is complete only if the open findings are those it
reports.

| Step of `Publication` | Step of `FindingLifecycle` |
|---|---|
| `StartReview` | `StartReview` |
| `SaveFinding` | `Raise` without a row, `Confirm` with one |
| `SaveResolved` | `Retire` |
| `SaveDecision` | `Dismiss`, or none |
| `MarkDone` | `CompleteReview`; `AbandonReview` when the run was superseded |
| any other end of a review | `AbandonReview` |
| everything else | none |

### Council

The inside of `RunAgent` for a full review, `CouncilRunner.review`. Three threads
take part: the worker's own (`pc`, `CouncilStep`) and one per CLI (`cli[p]`,
`CliStep`), so answers, failures and second attempts come in every order.

| Action | Code (`review_agent.py`) |
|---|---|
| `Answer`, `AnswerInvalid`, `Retry`, `Fail` | `run_json` of both runners, 92-130 and 153-187; the parsing of reviews 474-656 |
| `CollectResult`, `CollectFailure`, `RaiseOnFailure` | the loop over `as_completed`, 375-403 |
| `LeaveExecutor` | the end of the `with` block, which waits for both threads |
| `BothFailed`, `SkipSynthesis` | 221-254 |
| `StartSynthesis`, `FallBack`, `SynthesisFails`, `TakeSynthesis` | 256-282 and `_run_synthesis` 406-462 |
| `MergeAttribution`, `PreserveFinding`, `Finish` | `_reconcile_council_findings`, 659-780, one base finding a step |
| `Raise` | a trace or snapshot that cannot be written |

Abstractions. A finding is what `findings_match` sees of it and a set of sources;
opinions, severities and the overall risk are left out. The answers of the CLIs
are constants, so nothing is assumed of how a synthesizer merges. Extracting the
answer from the formats of the CLIs comes down to three outcomes: an object with
the right fields, one with the wrong fields, or no JSON. `Council` is not composed
with `Publication`, which takes any report from `Reports` in one step: no other
run sees the council at work.

### RepoCache

One repository. `mirror` is the mirror's directory with the refs and commits in
it, `worker[w]` the preparation of a checkout by a worker: the git command it
runs next, or is in the middle of (`cloning`, `fetching`), the refs the server
offered it, and what the checkout has. `commits` is the history of the merge
request on GitLab, with the version of the target branch each commit contains
and the one its webhook named, if it named one (`webhook.py:114-120`).

| Action | Code (`gitops.py`) |
|---|---|
| `Start` | the run knows the head (`service.py:132-148`) and, for a full review, the commit reviewed before (`IncrementalBase`, 640-655), unless both webhooks named the target and it moved (`TargetMoved`) |
| `EnsureMirror` | 110-115: only the existence of the directory is looked at |
| `BeginMirror`, `FinishMirror`, `RemoveMirror` | 117-118, `git clone --mirror` |
| `SetUrl`, `BeginFetch`, `FinishFetch` | 120-123 |
| `MakeDirectory`, `CloneMirror`, `CheckoutCommit`, `FetchTarget` | 51-54 |
| `Diff` | 56-75: merge base, diff, incremental diff |
| `Review`, `Close` | the reviewers end or raise; `close` removes the directory (`service.py:180-181`) |
| `GitFails`, `Fail` | 125-136: `GitError` leaves `prepare_checkout` |
| `Push`, `MoveTarget`, `Restart` | GitLab, and the container |

What git does is not in this code and is stated as an assumption in the actions:
a fetch takes the refs offered when it begins and stores them at its end; of two
fetches at once the later fails or puts back its own refs; a mirror keeps commits
that were forced away; a clone refuses a directory that exists and removes its
own when it fails; a killed clone or fetch may leave a mirror in which every
later command fails (half a repository, a lock file). `oldest` and `empty` are
history: the target when this preparation, or one it shares the mirror with,
began, and whether it fetched from a mirror that was still being cloned.

### Webhook

One merge request with a state, a draft mark and a head; every change of it sends
a payload with the fields the parser reads (`state`, `draft`, `action`, the
`changes`), and `Deliver` handles any payload that is waiting, so they arrive in
any order. `what` says what the user did and is not part of the payload: the
parser has to tell it from the `changes`, which differ between versions of
GitLab (`reportsWip`). `Deliver` is `gitlab_webhook` with both parsers and the
lookup of the bot's user, which is cached when it succeeds. `AnswerNote` is what
a reconcile run does about an accepted note: it may answer.

### DiffMapping

Git prints a diff file by file, hunk by hunk and line by line; each printed line
is read at once by `build_diff_mapping` (`reader`) and by `_build_hunk_context`
(`context`), which have no state but the headers they saw last. So what they
believe at any moment can be compared with what git meant (`added`, `hunks`,
`origin`). A removed line whose text starts with `-- ` prints as `--- `, an
added `++ ` as `+++ `; git quotes a path that is not ASCII; `splitlines` breaks a
line at a form feed, and the rest counts by its first character. `misread` names
the files in which that happened. Pieces of a broken line are content only (a
piece that looks like a header is left out); the names of other files cannot
appear in a line of text that looks like a header.

`text` keeps whose each printed line is. `FileDiff` and `Excerpt` are
`_extract_file_diff` and the end of `_build_reconcile_diff_excerpt`, which cut
that text at the `diff --git` lines they can read, look up at most
`MAX_RECONCILE_DIFF_FILES` files and stop at a size, here counted in lines. Which
files are looked up depends on words; the model tries the finding's file, in the
diff or not, and any order of changed files after it (`CandidatePaths`).

### FindingMatch

`FindingsMatch` and `Fingerprint` over a place and two sets of tokens, thresholds
as fractions. `MatchingPairs` turns concrete findings into the relation that
`Publication` and `Council` take as a constant; `MCPublication` has four, and an
ASSUME checks that the relations of its runs are theirs: two that match within
three lines, and a chain whose ends do not match.

Definitions whose name has a part after an underscore (`MarkDone_AnyStatus`)
are deliberately wrong variants of the definition before the underscore. No
specification uses them; they serve to confirm that each property fails when
the code has such a bug.

## 3. What is checked

All runs set `CHECK_DEADLOCK FALSE`: rows, pushes, replies and restarts are
bounded, and when they are used up and every run has ended nothing is left to do;
a review of the council ends.

| Run | Bounds | Properties | Shows |
|---|---|---|---|
| `store` | 2 merge requests, 2 commits, triggers with a note id or without any, 3 rows | the store's invariants and action properties, `ImplementsReviewQueue` | every order of requests, claims and completions; the table implements the abstract queue, claim order across merge requests included |
| `workers` | 2 workers, 1 merge request, 2 pushes, 1 ready event, 2 replies, 2 discussions, 4 rows, 1 restart or 1 error outside a try block | all invariants of `ReviewService`, `UsesRunStore` | no run is lost or held twice, what is done was published to the end, and a newer head has its own review, late workers do not spoil the state row, superseding loses no reply |
| `liveness` | 2 workers, of which one may die, 1 merge request, 3 pushes of 2 commits, 1 reply | `HeadIsReviewed`, `EveryRunEnds`, `QueueDrains` | the final head is reviewed or its review failed, forced pushes back included; every run ends; the queue drains while one thread lives |
| `publish` | 1 worker, 3 findings (two alike), 3 reviews or more, up to 3 events of: 2 pushes, 1 reply, 1 call that raises, a thread that a human opens, one resolved, one deleted | all of `Publication` but its type, `ImplementsLifecycle` | rows, threads and reports stay in agreement over reviews that reword, lose and find again, and what survives a failure between two writes |
| `council` | 3 findings (f1 and f3 alike through f2 only), reviews and syntheses of up to 2 findings | all of `Council` | no finding of either review is lost, a degraded result says so, no CLI outlives the review, the review ends |
| `repo_cache` | 2 workers, 2 commits, 2 versions of the target, at most one webhook that names none, 2 directories, 1 failing command or restart | all of `RepoCache` but its type | which checkouts come out of a mirror two workers clone and refresh, which directories stay, and when the incremental diff shows a rebase |
| `webhook` | 4 payloads, 1 failed lookup | all of `Webhook` but its type | every way to a ready head asks for its review, in any order of arrival; nothing else does; the bot stops answering itself |
| `diff_mapping` | 3 files of which one is quoted, 2 of them in the diff, 2 hunks, 4 lines; excerpts of 2 files and 6 lines | all of `DiffMapping` but its type | every small diff is read as git meant it, but for files whose text is misread; both prompts show a file's part of it under that file |

**Bounds.** Each of the store's properties relates at most three runs (one that
is superseded, the one that replaces it, a bystander, possibly of another merge
request), and all of them, the refinement included, are also proved for any number
of rows. In `liveness`, `restart` and `lost_reply` `MaxRuns` is the number of
events that can insert a row, so the bound refuses none; in `workers` it is one
less (2 pushes, 1 ready event, 2 replies, 4 rows): a fifth row would be needed only
where a failed review is tried again and both replies are queued as well, and
that webhook then waits. Two pushes give a run, its successor and the event that
repeats one of them; two workers are enough for a superseded run and its successor to be in progress
together. `workers` stops at one failure of those that leave no trace in the
table (the constraint `OneFailure`): a restart and an error outside a try block
have the same effect on the row. `liveness` has one merge request, as fairness is
checked without symmetry, and finitely many runs: it says that no run is left
half-way, and nothing about how long a reply waits for the full reviews of other
merge requests. The order in which runs are claimed (`Precedes`) is checked in
`store`, which has two. Nor has `liveness` a restart, after which `EveryRunEnds` is
false (`restart`).

For the publication, three findings are needed for two that are alike and a
bystander, and three heads for a finding to appear, vanish and return. The
environment has six kinds of events; any three of them are combined
(`ThreeEvents`), which is what a finding needs to be opened, disturbed and
found again. A process that is killed between two writes leaves rows and threads as
a call that raises there does. The run has one worker, which is the default
(`MAX_CONCURRENT_REVIEWS`, README.md:248): with overlapping runs a second thread
may be opened for a finding and a dismissal undone (see below). All its properties
are also proved for any findings, reports and number of events:
`RowsNameTheirThread` and `ReadDismissalStands` for any number of workers and any
resemblance of findings, the others for one (section 4). In the run no two rows
resemble each other, so the exceptions of `ReadDismissalStands` do not occur in it.
`Publication` states no fairness and no liveness: its runs end as the service's
runs do.

For the repository cache, two commands at a time in one mirror are all that the
model tells apart, and two versions of the target are an old one and a new one;
at most one webhook is without a target (`OneUnnamedTarget`), as two such are
treated like one; its properties are proved for any numbers. So are those of the webhooks and those
of the diff. For the webhooks, four payloads
are the first one, a draft mark and back, and a push between; `HeadIsRequested` is about the last push and the events after
it. For the diff, two files and two hunks have every transition of the readers
(file to file, hunk to hunk, hunk to file), four lines a line of each kind beside
a misread one.

For the council, two findings a review and two in the synthesis give every case
of the reconciliation: a base finding that is covered by the synthesis, by an
earlier base finding of either review, or by nothing; all of its safety is also
proved for any reviews.

**Fairness** (`FairServiceSpec`): weak fairness of each worker's next step and
of the delivery of webhooks. Worker threads loop without condition
(`worker.py:39-56`); their calls end because HTTP requests have a timeout of 30 s
(`gitlab.py:319`) and the CLIs are killed after `REVIEW_TIMEOUT_SEC`; GitLab
delivers webhooks. One thing the code does not guarantee is assumed: git runs
without a timeout (`gitops.py:126`), so a fetch that hangs would hold its worker
for ever. Pushes,
ready events, replies, restarts and failures are never forced to happen. `ClaimRaises` is not part of a worker's fair step: nothing forces a thread to die.
An error outside a try block leaves its run running (see below), so `EveryRunEnds`
and `HeadIsReviewed` speak of behaviours without one, and `QueueDrains` of all.
`FairSpec` of `Council` has weak fairness of the council's thread and of each CLI's call,
which `subprocess.run` ends at its timeout (`review_agent.py:888-898`); a child of
the CLI that keeps its output open after the kill is outside the model. Nothing
says which way a call ends.

**Disagreements with the documentation.** Four runs state what a doc or a
docstring says and TLC finds the behaviour that contradicts it; `PROJECT.json`
quotes the lines.

| Run | Property | Counterexample |
|---|---|---|
| `restart` | `EveryRunEnds` | restart during a review: the row stays running for ever |
| `lost_reply` | `EveryReplyIsConsidered` | a reply after the full review listed the discussions is refused and read by nobody |
| `publish_chain` | `ReportIsTracked` | f3 takes the row of f1, whose text is f2's; f1 then overwrites it under its own fingerprint: f3 is tracked nowhere |
| `publish_dismissal_race` | `LaterReviewsRespectDismissals` | two workers: a superseded reconcile run dismisses after the new review read its rows, which writes them back |

Further disagreements met while modelling, each a consequence of a single
place in the code and left without a run:

- A trace that cannot be created or written raises outside the try block
  (`service.py:120-130`) or in the failure handler (`253`); the run stays
  running, held by nobody (docstring `service.py:110-111`). Without its premise
  `NothingFailedOutside`, `RunningRunsAreHeld` fails.
- An error of the database in `claim_next_run` ends the worker thread
  (`worker.py:41`); with the default of one worker the service goes on taking
  webhooks and reviews nothing.
- "Bot-authored notes are ignored" (README.md:194, 292), but when the bot's user
  could not be fetched its note queues a reconcile run (`app.py:107`).
  `BotDoesNotTalkToItself` bounds what comes of it.
- A removed line that starts with `-- ` (a comment in SQL) replaces the old path
  of its file, an added one that starts with `++ ` the new path, and the rest of
  that file gets no inline comment or one with a wrong old path
  (`diff_mapping.py:57-62`). A form feed in a line moves the positions below it
  (`diff_mapping.py:51`). A path that is not ASCII never gets an inline comment:
  git quotes it and nothing removes the quotes (`diff_mapping.py:101-106`).
- `has_changes_near` knows added lines only: where the diff deletes, nothing has
  changed (README.md:230).
- The hunks of a file that was deleted, or whose path git quotes, are shown to the
  reviewers as places of the file before it (`service.py:1068-1077`), and to a
  reconcile run the whole of a quoted file as the end of the file before it
  (`prompts.py:154`); its own part is never found.
- The incremental diff is free of the target's changes after a rebase (README.md:142)
  only if the commit reviewed before was up to date with the target its webhook
  named, and if both webhooks named one: when either did not (`webhook.py:114-120`),
  the commit reviewed before is taken although the target moved (`service.py:643-647`).
  These are the exceptions of `RebaseAddsNoNoise`.
- A mirror that a killed clone or fetch left broken is never repaired: its
  directory exists, so every later run of the repository fails (`gitops.py:115`).
- When two workers need a mirror for the first time, both may fail: one because
  the directory exists, the other because a failed clone removes it.
- A forced push between reading the head and refreshing the mirror fails the run
  instead of superseding it (`gitops.py:53`, docstring `service.py:105-111`).
- A payload without a commit gives the text "None" as the commit
  (`webhook.py:112`), which the guard `not source_sha` (29) lets through.
- Tokens are of [a-z0-9_] (`finding_match.py:61`): findings in another script have
  none, so two of them at one line have one fingerprint, and one that moves is
  not recognized.
- A review found stale by its second check is completed as done, not superseded
  (`service.py:186-194`, docstring `108-110`).
- A reconcile run writes the head into `last_reviewed_sha` (`service.py:286`,
  README.md:91).
- After a push back to a commit already reviewed the run of the abandoned commit
  writes its own sha into `last_seen_sha` (README.md:90). With
  `ForcePushBack = TRUE`, `LastSeenIsHead` fails.
- `has_changes_near` looks at the diff of the whole merge request, so a dismissed
  finding in changed lines is raised again without any new change, and a finding
  there never gets the "still present" reply (README.md:230, 184).
- When the thread of an open finding is deleted, the row keeps its id and no new
  thread is opened (`service.py:409-420`, docstring `370`).
- With two workers a review may open a second thread for a finding whose row a
  superseded review saved after the rows were read (README.md:180). With two
  writers, `OneThreadPerFinding` fails.
- The bot "never resolves" threads of humans (README.md:226), but the owner asked
  for is that of the row: a human's own thread that is taken for an open finding
  is resolved when the reply dismisses it (`service.py:291-292`, `343-344`).
- "If the primary synthesizer fails, the fallback provider is tried once"
  (docstring `review_agent.py:200`), but a synthesis that is JSON with the wrong
  fields fails the whole run: it is looked at after `_run_synthesis` has returned
  (`review_agent.py:264-282`), and the two base reviews at hand are not used.
- The fingerprint is said to cover the severity (README.md:106);
  `finding_fingerprint` leaves it out (`finding_match.py:36-47`).
- `no_action` is described as doing nothing (README.md:224), but a reply the agent
  gives with it is posted (`service.py:338`).

`LastSeenIsHead` therefore holds, and is proved, under the assumption of the
`workers` run that no push goes back to an earlier commit, and only there;
`ReviewService` also takes
the webhooks of one merge request to arrive in order. When those of two pushes
arrive in the other order, the older commit's run supersedes the newer one, ends
superseded at its first look at the head (`service.py:138`), and nothing reviews
the newer commit until the next event.

## 4. What is proved

For every set of merge requests, commits, triggers and workers and every value
of the bounds, TLAPS checks:

| Theorem | States |
|---|---|
| `TypeCorrect` | `Spec => []TypeOK` |
| `TerminalRunsStay` | `Spec => TerminalRunIsFinal` |
| `PendingFullAlone` | `Spec => []PendingFullIsAlone` |
| `OneFullReview` | `Spec => []OneFullReviewPerCommit` |
| `OnePendingReconcile` | `Spec => []OnePendingReconcilePerDiscussion` |
| `SupersededLater` | `Spec => []SupersededByLaterRun` |
| `FinishInOrder` | `Spec => FullReviewsFinishInOrder` |
| `StoreImplementsQueue` | `Spec => ImplementsReviewQueue` |
| `ServiceTypeCorrect` | `ServiceSpec => []ServiceTypeOK` |
| `ServiceImplementsStore` | `ServiceSpec => UsesRunStore` |
| `ServiceImplementsQueue` | `ServiceSpec => ImplementsReviewQueue` |
| `ServicePendingFullAlone` | `ServiceSpec => []PendingFullIsAlone` |
| `RunsAreHeldOnce` | `ServiceSpec => []NoRunIsHeldTwice` |
| `DoneReviewsArePublished` | `ServiceSpec => []DoneReviewWasPublished` |
| `RunningRunsHeld` | `ServiceSpec => []RunningRunsAreHeld` |
| `LastSeenIsTheHead` | `~ForcePushBack => (ServiceSpec => []LastSeenIsHead)` |
| `QueuedRepliesAreConsidered` | `ServiceSpec => []QueuedReplyIsConsidered` |
| `PublicationTypeCorrect` | `Spec => []TypeOK` of `Publication` |
| `RowsAlwaysNameTheirThread` | `Spec => []RowsNameTheirThread` |
| `OneReplyInSilence` | `OneWorker => (Spec => []OneReplyPerSilence)` |
| `DoneReviewsAreTracked` | `OneWorker /\ TellsApart => (Spec => ReportIsTracked)` |
| `ReadDismissalsStand` | `Spec => ReadDismissalStands` |
| `OneThreadForAFinding` | `OneWorker /\ TellsApart => (Spec => []OneThreadPerFinding)` |
| `RowsAndThreadsAgree` | `OneWorker /\ TellsApart => (Spec => []RowsAgreeWithThreads)` |
| `PublicationImplementsLifecycle` | `OneWorker /\ TellsApart => (Spec => ImplementsLifecycle)` |
| `CouncilTypeCorrect` | `Spec => []TypeOK` of `Council` |
| `FindingsAreNotDropped` | `Spec => []NoFindingIsDropped` |
| `DegradedResultsSaySo` | `Spec => []DegradedResultSaysSo` |
| `CallsEndWithTheReview` | `Spec => []NoCallOutlivesTheReview` |
| `TypeCorrect` (`RepoCacheProofs`) | `Spec => []TypeOK` of `RepoCache` |
| `NoCheckoutFromBroken` | `Spec => []NoCheckoutFromBrokenMirror` |
| `DirectoriesAccounted` | `Spec => []DirectoriesAreAccountedFor` |
| `MissingCommitsWereForcedAway` | `Spec => []MissingCommitWasForcedAway` |
| `TargetsAreCurrent` | `Spec => []TargetIsCurrent` |
| `RebasesAddNoNoise` | `Spec => []RebaseAddsNoNoise` |
| `TypeCorrect` (`WebhookProofs`) | `Spec => []TypeOK` of `Webhook` |
| `ReviewsTriggeredAsDocumented` | `Spec => []TriggersAsDocumented` |
| `ReadyHeadIsRequested` | `Spec => []HeadIsRequested` |
| `BotTalkIsBounded` | `Spec => []BotDoesNotTalkToItself` |
| `TypeCorrect` (`DiffMappingProofs`) | `Spec => []TypeOK` of `DiffMapping` |
| `MappingExact` | `Spec => []MappingIsExact` |
| `AnchorsNamed` | `Spec => []AnchorsNameTheFile` |
| `HunksShown` | `Spec => []ContextShowsTheHunks`, a conjunct of `PromptsShowTheDiff` |
| `PromptsShown` | `Spec => []PromptsShowTheDiff` |
| `MatchIsSymmetric`, `SameFingerprintMatches`, `OtherFilesNeedATitle` | of `FindingsMatch` and `Fingerprint`, for any findings |

**Assumptions**: `None` is no number, commit, discussion or note; the bounds are
natural numbers; `ForcePushBack` is Boolean, and `LastSeenIsTheHead` has its
negation as a hypothesis. For `Publication`: `None` is no finding, no report and
no row, neither as written nor as seen by `FindingLifecycle`, reports are sequences of findings closed under leaving
some out, edits are sets of findings. For `Council`: reviews are sequences of
findings, syntheses sequences of findings with at least one source, as the parser
demands, and `None` and `Invalid` are neither. Nothing is assumed of `Similar`.
For `Webhook` and `DiffMapping`: `None` is no value of the fields it may replace,
and quoted paths are paths.

Two hypotheses limit what is said of the publication, both defined in
`PublicationProofs`. `OneWorker` is the default of the service. `TellsApart` says
that `findings_match` is transitive and that no report says the same thing twice;
the code guarantees neither, and they are hypotheses of the theorems and not assumptions
of the model. They are not decoration: `publish_chain` is one worker with a
relation that is not transitive, `publish_dismissal_race` two workers, and TLC
finds in both what the theorems exclude. The constants of `publish` satisfy both.
Neither half of `TellsApart` can be left out: with three findings and up to three
events, TLC violates `ReportIsTracked`, `OneThreadPerFinding` and
`RowsAgreeWithThreads` alike when a report may say a thing twice (`Alike`, with f1 and
f2 in one report), and when resemblance is not transitive (`Chain`).

**Argument for the store.** Every step changes the table in one of three ways
(`StepCases`): it appends a full review and closes all active rows of its merge
request, it appends a reconcile run where no full review is pending and closes
the rows of its thread, or it moves the status of one active row. Each invariant
is inductive together with `TypeOK`, and its proof goes through these cases;
`OldRows` collects what every step keeps of a row. `FinishInOrder` uses
`PendingFullIsAlone`: a running full review is the newest run of its merge
request, so the one that completes is newer than all that did before.

**Argument for the abstract queue.** The refinement needs that a merge request's
rows show at most one review and one row per reply (`QueueInv`:
`PendingFullIsAlone` and `OneReplyPerTrigger`), so that the mapping, which picks
one, has no choice. Each of the three ways to change the table is then one step of
the queue or none: a supersession is a replacement, a repeated webhook and a late
completion are stutters. `ServiceImplementsQueue` follows through the store.

**Argument for the service.** That the service uses the store only by its
operations is not immediate: `MarkDone` must be called with a run of the table
and, for a full review, with the commit it was queued for. `ServiceInv` adds to
the type invariants that hooks are about merge requests that exist
(`HeadsExist`), and that a worker past the first staleness check knows a commit
its run may report (`WorkerKnowledge`); `ServiceStep` shows it inductive. Every
property of `Spec` then carries over to the service; `ServicePendingFullAlone`
is one instance. `RunsAreHeldOnce` needs that a held run is never queued again
(`HeldRunsAreClaimed`), so that a claim cannot take it. `DoneReviewsArePublished`
needs that a full review arrives at `mark_done` only from the end of its publication,
which notes the head found before it (`PublishedBeforeDone`, `ArrivesPublished`), and
that no other step makes a row done (`DoneByCompletion`, `DoneWasPublished`). That head was pushed, and
every commit that was pushed has a full review in the table or a webhook to come
(`CommitsAreRequested`): `enqueue_run` drops a request only where the table has one
for the commit (`RequestsStep`).

`RunningRunsHeld` is the converse of `HeldRunsAreClaimed`, and true only while
nothing was spent of the budgets for restarts and faults: `RunningInv` adds that
these are never given back, so that the premise of a later state is that of all
earlier ones. `LastSeenIsTheHead` (`SeenInv`): as long as no row is about the
head, a webhook that will make one is still to come (`HookWaits`), and webhooks come
in the order of the pushes (`HooksInOrder`); once a row is, every webhook to come,
every active run and every worker holding one is about the head, so whatever may
still write `last_seen_sha` writes the head (`Settled`). A push back to a commit that
has rows makes that commit the head while runs of the abandoned one are active,
which is the counterexample. `QueuedRepliesAreConsidered` (`ReplyInv`) is about
the run at the end of a chain of supersessions, a recursive function that cannot be
unfolded here; the proof carries along as part of the invariant that the end exists
and is unique (`OneSuccessor`, `SuccessorFits`), says what a step does to all chains
(`ChainStep`), and shows that a run which takes over from another lists
the discussions after the reply was posted (`Announced`, `ReadReplies`).

**Argument for the publication.** `RowsNameTheirThread` is not inductive: rows
are written from copies that may be minutes old, and a reconcile run goes on
with the row it found. `PublicationInv` adds to it and to `TypeOK` that every
worker knows only such rows (`WritersKnow`): the rows in its copy name threads
of their own fingerprints, the row and the thread at hand before a save belong
together, and a reconcile run about to save holds a row it has read. It survives
the steps of others because a thread once opened keeps its author and its
marker (`Kept`): threads are resolved, answered and deleted but never
renumbered. Each action has a lemma; `RowsStay`, `LocalStep` and `RunEnds` carry
the parts an action leaves alone. Since the proof holds for any number of
workers and failures, no overlap can make two rows answer for one thread.

`ReadDismissalsStand` builds on it for any number of workers and any relation. What it
says depends on the run's own copy alone, which no other worker touches
(`OthersStand`). `FilteredInv`: whatever is in the report passed the suppression against the
rows and changes the run still has (`NotSuppressed`), and the row at hand has the
fingerprint of the finding or is one that the finding may go to (`Fits`). In the second
case a dismissed row has changes near it; in the first the suppression looked at the
row as well, unless it no longer resembles the finding, and let the finding pass
because of changes near this row or another. Both exceptions occur: the first needs a
chain of resemblance, the second two findings of one report that are alike. What a run did
not read it may undo, which is `publish_dismissal_race`.

The theorems for one worker build on `PublicationInv` too, each invariant on the one
before.
`SilenceInv`: in the threads a review has yet to come to, only notes without a marker
were written since it listed them (`Hears`), as nobody but the bot writes markers. `TidyInv`, the centre of them: no two rows resemble
each other (`RowsApart`); the copy a run has is the table except where the run has
written (`Copied`); what it has written are the rows of the findings it has dealt
with, open with the text of the report, or retired (`Written`); and the row at hand
is one the finding may go to (`AtHand`). A finding that finds no row resembles none,
those of this report included, so a new row keeps the rows apart; this is where
transitivity is used. When all findings and all old rows are dealt with, `Written` is
`ReportIsTracked`. `ThreadInv`: as long as no call failed, a thread of the
bot is that of a row or is about to become it (`ThreadsKnown`), so one that is
created is the first for its finding. `StepInv`: row and thread agree except between
the two writes of the run at work (`Between`), and the listing is true of every row that run has not
come to (`ListingHolds`). The lemmas named `...Moves` say what a step of each kind
does to rows, threads and copies; the invariants are about those, not about actions.

`PublicationImplementsLifecycle` follows from `TidyInv`. The copy a review has is the
table where the review has not been, so what it takes from the copy is true of the
table at the write: a finding without a row resembles nothing raised, and its thread
was opened by this run and is named by no other row (`SaveRaises`); one with a row is
saved over that row and in its thread (`SaveConfirms`, `SaveRetires`). Each write
settles one finding (`OneSettled`), and `DoneCompletes` is the equation of
`ReportIsTracked`. All other steps change neither rows nor what has been dealt with
(`StartsReview`, `GoesOnOrEnds`).

**Argument for the council.** `CouncilInv` adds what each phase knows: a call in
progress has the task of its phase (`TasksFit`), an answer fits its task
(`AnswersFit`), which calls are over (`IdleCalls`; the `with` block of the executor
is what makes a failing trace write wait for the other CLI), that a provider is
listed as failed exactly when it was collected without a review (`FailuresFit`),
and that what has been dealt with is covered (`FindingsKept`). The last survives
because a merge only adds sources and an addition is at the end (`DealtInv`);
the relation need not be transitive for that.

**Argument for the repository cache.** The mirror becomes broken only by
`Restart`, which leaves every worker idle, and while it is broken it can only be
looked at: a mirror which is
not broken becomes so in no other step (`BrokenByRestart`). `DirectoryInv` adds to
`DirectoriesAreAccountedFor` where a worker may have a directory
(`DirectoriesExist`); `DirectoryMoves` names the four ways in which a step can
touch one: not at all, a failure that leaves it, `MakeDirectory`, and `Close`. That
`mkdtemp` always finds a free name is `FreeDirectoryIsFree`, by counting.

`RebasesAddNoNoise` is about the history alone: in `CommitInv` the targets of the
commits and of their webhooks grow, and what a worker took for the previous commit
is one of them for which `TargetMoved` did not hold. `MirrorInv` follows the head a run is for from the
refs it is offered to the mirror, or to all that is about to be written to an empty
one, and to the checkout (`HeadArrives`), so that only a forced push or a first clone
can lose it. `TargetInv` follows the target in the same way: who refreshes the mirror
asks for one as new as any worker needs it (`NobodyFetchesOldTarget`).

**Argument for the webhooks.** `RequestInv`: a payload's fields tell what the user did
whatever the version of GitLab (`Told`), every payload handled became a run exactly if
it tells so (`Handled`), and the head of a ready merge request is named by some such
payload, sent if not yet handled (`HeadAnnounced`). Order of arrival does not occur
in it. `BalanceInv` counts: each note of the bot has used up a human's note or a
failed lookup.

**Argument for the readers of the diff.** `ReadersInv` relates both readers to what git
is printing: between two files, inside a file's headers, and inside a hunk they
believe what is the case, unless the file is among `misread`. The three kinds of
printing (`LineMoves`, `FileMoves`, `HunkMoves`) keep it, and each property of the
results follows from it at the step that adds to them.

`PromptsShown` is about the text as a whole. `TextInv` says that the lines of a file
stand together (`FilesTogether`) and that the line which shows a path is the first of
its file, and is there unless git quotes a name (`HeadersShown`). From it `FilePart`
tells what `_extract_file_diff` cuts out: all lines of the file, followed by those of
files that show no path. `FlattenSeq` puts the parts together by recursion; `Flattened`
says what it returns for any parts. The library's rules of induction take a predicate
as a parameter and cannot be used, so induction is done on sets instead:
a set of numbers that is not empty has a least one (`LeastNumber`, an instance of
`WFMin`), hence one that has 1 and with each number the next has all
(`InductionOnSets`). That no file is looked up twice (`Orders`) is why a file's
lines in the excerpt are one piece (`OwnLinesStand`).

**Only model-checked**: the liveness properties (`HeadIsReviewed`, `EveryRunEnds`,
`QueueDrains`, and `ReviewEnds` of the council), since the prover does not reason
about fairness and ENABLED here. Every other property of a passing run is also a
theorem. That the relations of the runs are those of concrete findings
(`MatchingPairs` in `MCPublication`) is evaluated by TLC.

## 5. What is not modelled, and the plan

Not modelled:

- prompts, but for the diff excerpt, and the review rules file: text is put
  together within size limits, no state is kept and no other part reads it back;
- the formats in which the CLIs answer: `Council` has three outcomes instead;
- wording of notes, the token usage and the snapshots of the trace;
- opinions and severities of the council, which no other step reads;
- schema migration of old databases, and rows that only older versions wrote;
- pages of the GitLab API (a discussion opened while they are read may be missed
  or listed twice), URLs and JSON;
- the token check and malformed bodies of the webhook (400, 401), `/healthz`;
- configuration, state directories, deployment and backup scripts.

Next, most important first:

1. a publication with two workers: `FindingLifecycle` says what is lost when reviews
   overlap, and a weaker specification would say what is left;
2. `Council` under `Publication`, whose reports would then be those the council can
   give instead of any that are closed under leaving findings out;
3. the store under several writers of one process, with the transactions of SQLite
   that wait for each other.
