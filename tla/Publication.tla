----------------------------- MODULE Publication -----------------------------
(***************************************************************************)
(* What the runs of one merge request write: the rows of tracked_finding   *)
(* (store.py) and the discussion threads on GitLab.  A full review reads   *)
(* the rows, lets the reviewers work, lists the threads and then goes      *)
(* through its findings one GitLab call and one row at a time; a reconcile *)
(* run answers a reply in one thread (service.py).  Humans reply, resolve, *)
(* delete and open threads meanwhile.  The queue of runs is reduced to     *)
(* what RunStore guarantees of it.                                         *)
(***************************************************************************)
EXTENDS Integers, Sequences

CONSTANTS
  Findings,    \* findings by fingerprint: same file, line, title and body
  Similar,     \* the pairs {f, g} for which findings_match is true besides f = f
  Reports,     \* what the reviewers may return: sequences of findings, closed under
               \* leaving findings out
  Edits,       \* what the diff may change: sets of findings whose lines are near
  Writers,     \* worker threads
  None,
  MaxPushes,       \* bound: pushes after the first head
  MaxReplies,      \* bound: human replies in threads
  MaxHumanThreads, \* bound: threads humans open
  MaxResolves,     \* bound: threads humans resolve
  MaxDeletions,    \* bound: threads humans delete
  MaxFailures      \* bound: calls of GitLab, git or a CLI that raise

\* A report without the findings outside kept.
Keeping(report, kept) == SelectSeq(report, LAMBDA f : f \in kept)

ASSUME PublicationAssumption ==
  /\ None \notin Findings
  /\ None \notin Seq(Findings)
  /\ Reports \subseteq Seq(Findings)
  /\ \A report \in Reports, kept \in SUBSET Findings : Keeping(report, kept) \in Reports
  /\ Edits \subseteq SUBSET Findings
  /\ {MaxPushes, MaxReplies, MaxHumanThreads, MaxResolves, MaxDeletions, MaxFailures} \subseteq Nat

VARIABLES
  tracked,  \* table tracked_finding: fingerprint -> row or None
  threads,  \* GitLab: the discussions, in the order they were opened
  head,     \* GitLab: the source head, numbered in the order of pushes
  edited,   \* findings near which the diff of the merge request has changes
  queue,    \* queued runs: a full review, and threads with a reply to reconcile
  lastDone, \* findings of the latest full review marked done (its snapshot), or None
  reviewed, \* heads whose full review is done
  writer,   \* worker -> the run in its hands
  budget    \* how often the environment may still act

vars == <<tracked, threads, head, edited, queue, lastDone, reviewed, writer, budget>>
-----------------------------------------------------------------------------
Statuses == {"open", "resolved", "dismissed_by_discussion"}

\* The fields of a row that are read again: the fingerprint is its key, and
\* about stands for file, line, title and body, which a later finding replaces.
Row == [status: Statuses, about: Findings, thread: Nat, dismissed: Nat]

\* A fingerprint without a row is told from one with a row.
ASSUME NoneIsNoRow == None \notin Row

\* A note after the root: who wrote it, and the "still present" marker if it has one.
Markers == [fingerprint: Findings, sha: Nat]
Note == [author: {"bot", "human"}, marker: Markers \cup {None}]
HumanNote == [author |-> "human", marker |-> None]
BotReply == [author |-> "bot", marker |-> None]
StillPresentReply(fingerprint, sha) ==
  [author |-> "bot", marker |-> [fingerprint |-> fingerprint, sha |-> sha]]

\* A discussion; about is the finding marker in its root note.
Thread == [author: {"bot", "human"}, about: Findings \cup {None},
           resolved: BOOLEAN, deleted: BOOLEAN, notes: Seq(Note)]
NewThread(author, about) ==
  [author |-> author, about |-> about, resolved |-> FALSE, deleted |-> FALSE, notes |-> <<>>]

Kinds == {"full_review", "discussion_reconcile"}

Pcs == {"idle", "list_rows", "run_agent", "check_status", "check_head", "list_threads",
        "place", "create_plain", "save", "remark", "retire", "save_resolved",
        "find_thread", "find_row", "reconcile", "reply", "save_decision", "resolve"}

\* Local variables of a run.  rows and listing are what was read, used the
\* fingerprints already dealt with, place the index of the finding at hand, row
\* and thread the row and thread it goes to.
WriterState == [kind: Kinds \cup {None}, pc: Pcs, live: BOOLEAN, sha: Nat,
                previous: Seq(Findings) \cup {None}, near: SUBSET Findings,
                rows: [Findings -> Row \cup {None}], listing: Seq(Thread),
                report: Seq(Findings), still: SUBSET Nat, stale: BOOLEAN,
                place: Nat, used: SUBSET Findings,
                row: Findings \cup {None}, thread: Nat]

NoRows == [f \in Findings |-> None]

IdleWriter == [kind |-> None, pc |-> "idle", live |-> FALSE, sha |-> 0, previous |-> None,
               near |-> {}, rows |-> NoRows, listing |-> <<>>, report |-> <<>>, still |-> {},
               stale |-> FALSE, place |-> 0, used |-> {}, row |-> None, thread |-> 0]

At(w, pc) == writer[w].pc = pc

LiveReview(w) == writer[w].live
-----------------------------------------------------------------------------
findings_match(f, g) == f = g \/ {f, g} \in Similar

\* A row the snapshot has, as the finding it describes now.
HasRow(rows, f) == rows[f] # None
InStatus(rows, status) == {f \in Findings : HasRow(rows, f) /\ rows[f].status = status}

Priority(row) ==
  CASE row.status = "open" -> 0
    [] row.status = "dismissed_by_discussion" -> 1
    [] OTHER -> 2

MatchesRow(finding, row, near) ==
  /\ findings_match(finding, row.about)
  /\ row.status = "dismissed_by_discussion" => row.about \in near

MatchingRows_OpenOnly(finding, rows, used, near) ==
  {f \in InStatus(rows, "open") \ used : MatchesRow(finding, rows[f], near)}

\* The rows _match_tracked_finding may return: the one with the fingerprint,
\* else a similar one of the best status.  Rows of one status come in the order
\* of updated_at, which has whole seconds: any of them may be first.
MatchingRows(finding, rows, used, near) ==
  LET free    == {f \in Findings \ used : HasRow(rows, f)}
      similar == {f \in free : MatchesRow(finding, rows[f], near)}
  IN IF finding \in free
     THEN {finding}
     ELSE {f \in similar : \A g \in similar : Priority(rows[f]) <= Priority(rows[g])}

DismissedMatches_SameText(finding, rows) ==
  {f \in InStatus(rows, "dismissed_by_discussion") : finding = rows[f].about}

\* _suppress_dismissed_findings: the first similar dismissed row decides.
DismissedMatches(finding, rows) ==
  {f \in InStatus(rows, "dismissed_by_discussion") : findings_match(finding, rows[f].about)}

MayBeKept_AwayFromChanges(finding, rows, near) ==
  \/ DismissedMatches(finding, rows) = {}
  \/ \E f \in DismissedMatches(finding, rows) : rows[f].about \notin near

MayBeKept(finding, rows, near) ==
  \/ DismissedMatches(finding, rows) = {}
  \/ \E f \in DismissedMatches(finding, rows) : rows[f].about \in near

\* _build_review_comparison: each finding in turn takes the first previous one
\* it matches that is not taken.
StillPresent(previous, report) ==
  LET free(f, taken) == {j \in DOMAIN previous \ taken : findings_match(f, previous[j])}
      first(S) == CHOOSE j \in S : \A k \in S : j <= k
      taken[i \in 0..Len(report)] ==
        IF i = 0 THEN {}
        ELSE IF free(report[i], taken[i - 1]) = {} THEN taken[i - 1]
        ELSE taken[i - 1] \cup {first(free(report[i], taken[i - 1]))}
  IN {i \in DOMAIN report : previous # None /\ taken[i] # taken[i - 1]}

\* The discussion a listing has under an id.
Listed(listing, t) == t \in DOMAIN listing /\ ~listing[t].deleted

ShouldAddStillPresentReply_MarkerOnly(thread, sha, fingerprint) ==
  \A i \in DOMAIN thread.notes :
    thread.notes[i].marker # [fingerprint |-> fingerprint, sha |-> sha]

ShouldAddStillPresentReply(thread, sha, fingerprint) ==
  /\ \A i \in DOMAIN thread.notes :
       thread.notes[i].marker # [fingerprint |-> fingerprint, sha |-> sha]
  /\ thread.notes = <<>> \/ thread.notes[Len(thread.notes)].author # "bot"

\* Store.upsert_tracked_finding: the row replaces the one with its fingerprint.
Upsert(fingerprint, row) == tracked' = [tracked EXCEPT ![fingerprint] = row]
-----------------------------------------------------------------------------
Init ==
  /\ tracked = NoRows
  /\ threads = <<>>
  /\ head = 1
  /\ edited \in Edits
  /\ queue = [review |-> TRUE, replies |-> {}]
  /\ lastDone = None
  /\ reviewed = {}
  /\ writer = [w \in Writers |-> IdleWriter]
  /\ budget = [pushes |-> MaxPushes, replies |-> MaxReplies, humanThreads |-> MaxHumanThreads,
               resolves |-> MaxResolves, deletions |-> MaxDeletions, failures |-> MaxFailures]

Spend(what) == budget[what] > 0 /\ budget' = [budget EXCEPT ![what] = @ - 1]

\* Store.enqueue_run: a full review supersedes every active run; a reply is
\* refused while a full review is queued or running.
EnqueueReview ==
  /\ queue' = [review |-> TRUE, replies |-> {}]
  /\ writer' = [w \in Writers |-> [writer[w] EXCEPT !.live = FALSE]]

ReviewPending == queue.review \/ \E w \in Writers : LiveReview(w)

EnqueueReply(t) ==
  queue' = [queue EXCEPT !.replies = IF ReviewPending THEN @ ELSE @ \cup {t}]

\* A push changes the diff and requests a review of the new head.
Push ==
  /\ Spend("pushes")
  /\ head' = head + 1
  /\ edited' \in Edits
  /\ EnqueueReview
  /\ UNCHANGED <<tracked, threads, lastDone, reviewed>>

\* The merge request is reopened or made ready after the review of its head failed.
RequestAgain ==
  /\ head \notin reviewed
  /\ ~ReviewPending
  /\ EnqueueReview
  /\ UNCHANGED <<tracked, threads, head, edited, lastDone, reviewed, budget>>

PostReply(t) ==
  /\ ~threads[t].deleted
  /\ Spend("replies")
  /\ threads' = [threads EXCEPT ![t].notes = Append(@, HumanNote)]
  /\ EnqueueReply(t)
  /\ UNCHANGED <<tracked, head, edited, lastDone, reviewed, writer>>

\* The first note of a human's thread is a note like any other for the webhook.
OpenThread ==
  /\ Spend("humanThreads")
  /\ threads' = Append(threads, NewThread("human", None))
  /\ EnqueueReply(Len(threads) + 1)
  /\ UNCHANGED <<tracked, head, edited, lastDone, reviewed, writer>>

ResolveByHuman(t) ==
  /\ ~threads[t].resolved /\ ~threads[t].deleted
  /\ Spend("resolves")
  /\ threads' = [threads EXCEPT ![t].resolved = TRUE]
  /\ UNCHANGED <<tracked, head, edited, queue, lastDone, reviewed, writer>>

DeleteThread(t) ==
  /\ ~threads[t].deleted
  /\ Spend("deletions")
  /\ threads' = [threads EXCEPT ![t].deleted = TRUE]
  /\ UNCHANGED <<tracked, head, edited, queue, lastDone, reviewed, writer>>

GitLabStep ==
  \/ Push
  \/ RequestAgain
  \/ OpenThread
  \/ \E t \in DOMAIN threads : PostReply(t) \/ ResolveByHuman(t) \/ DeleteThread(t)
-----------------------------------------------------------------------------
envVars == <<head, edited, lastDone, reviewed, budget>>

\* Only the local state of w changes, from pc to a state in which it stands at next.
Local(w, pc, next) ==
  /\ At(w, pc)
  /\ writer' = [writer EXCEPT ![w] = next]
  /\ UNCHANGED <<tracked, threads, queue, envVars>>

\* The run of w is over; mark_done, mark_failed and mark_superseded_if_running
\* change nothing else that a publication reads.
Leave(w) == writer' = [writer EXCEPT ![w] = IdleWriter]

\* A full review is claimed and reads the merge request and the latest done
\* review; the checkout fixes the diff it works with.
StartReview(w) ==
  /\ At(w, "idle")
  /\ queue.review
  /\ queue' = [queue EXCEPT !.review = FALSE]
  /\ writer' = [writer EXCEPT ![w] =
       [IdleWriter EXCEPT !.kind = "full_review", !.pc = "list_rows", !.live = TRUE,
                          !.sha = head, !.previous = lastDone,
                          !.near = edited]]
  /\ UNCHANGED <<tracked, threads, envVars>>

ListRows(w) ==
  Local(w, "list_rows", [writer[w] EXCEPT !.pc = "run_agent", !.rows = tracked])

\* The reviewers answer, dismissed findings are suppressed, and the rest is compared
\* with the previous review.  Reports is closed under leaving findings out, so the
\* rest is any report of findings that may all be kept.
RunAgent(w) ==
  \E report \in Reports :
    /\ \A i \in DOMAIN report : MayBeKept(report[i], writer[w].rows, writer[w].near)
    /\ Local(w, "run_agent",
         [writer[w] EXCEPT !.pc = "check_status", !.report = report,
                           !.still = StillPresent(writer[w].previous, report),
                           !.previous = None])

CheckStatus(w) ==
  Local(w, "check_status",
        IF LiveReview(w) THEN [writer[w] EXCEPT !.pc = "check_head"] ELSE IdleWriter)

CheckHead(w) ==
  Local(w, "check_head",
        [writer[w] EXCEPT !.pc = "list_threads", !.stale = head # writer[w].sha])

\* What follows when the findings before the next one are published.
NextFinding(state) ==
  IF state.place < Len(state.report)
  THEN [state EXCEPT !.pc = "place", !.place = @ + 1, !.row = None, !.thread = 0]
  ELSE [state EXCEPT !.pc = "retire", !.place = 0, !.row = None, !.thread = 0]

ListThreads(w) ==
  Local(w, "list_threads", NextFinding([writer[w] EXCEPT !.listing = threads]))

Finding(w) == writer[w].report[writer[w].place]

RowsForFinding(w) ==
  MatchingRows(Finding(w), writer[w].rows, writer[w].used, writer[w].near)

ListedResolved(w, t) == Listed(writer[w].listing, t) /\ writer[w].listing[t].resolved
ListedUnresolved(w, t) == Listed(writer[w].listing, t) /\ ~writer[w].listing[t].resolved

PlaceInThread_LeavesResolved(w) ==
  /\ At(w, "place")
  /\ \E f \in RowsForFinding(w) :
       writer' = [writer EXCEPT ![w].pc = "save", ![w].row = f,
                                ![w].thread = writer[w].rows[f].thread]
  /\ UNCHANGED <<tracked, threads, queue, envVars>>

PlaceInThread_NewFingerprint(w) ==
  /\ At(w, "place")
  /\ \E f \in RowsForFinding(w) :
       writer' = [writer EXCEPT ![w].pc = "save", ![w].row = Finding(w),
                                ![w].thread = writer[w].rows[f].thread]
  /\ UNCHANGED <<tracked, threads, queue, envVars>>

\* A row matches: its thread is opened again if the listing shows it resolved.
PlaceInThread(w) ==
  /\ At(w, "place")
  /\ \E f \in RowsForFinding(w) :
       LET t      == writer[w].rows[f].thread
           reopen == ListedResolved(w, t)
       IN /\ reopen => ~threads[t].deleted
          /\ threads' = IF reopen THEN [threads EXCEPT ![t].resolved = FALSE] ELSE threads
          /\ writer' = [writer EXCEPT ![w].pc = "save", ![w].row = f, ![w].thread = t]
  /\ UNCHANGED <<tracked, queue, envVars>>

NeedsThread(w) ==
  \/ At(w, "create_plain")
  \/ At(w, "place") /\ RowsForFinding(w) = {}

CreateThread_NumberedByListing(w) ==
  /\ NeedsThread(w)
  /\ threads' = Append(threads, NewThread("bot", Finding(w)))
  /\ writer' = [writer EXCEPT ![w].pc = "save", ![w].row = Finding(w),
                              ![w].thread = Len(writer[w].listing) + 1]
  /\ UNCHANGED <<tracked, queue, envVars>>

\* No row matches: a thread is created, inline where the diff has the line.
CreateThread(w) ==
  /\ NeedsThread(w)
  /\ threads' = Append(threads, NewThread("bot", Finding(w)))
  /\ writer' = [writer EXCEPT ![w].pc = "save", ![w].row = Finding(w),
                              ![w].thread = Len(threads) + 1]
  /\ UNCHANGED <<tracked, queue, envVars>>

\* GitLab refuses the inline thread, or its answer is lost after it created it:
\* the head decides between a plain thread and giving the run up as stale.
InlineFails(w) ==
  /\ At(w, "place") /\ RowsForFinding(w) = {}
  /\ ~writer[w].stale
  /\ Spend("failures")
  /\ \/ UNCHANGED threads
     \/ threads' = Append(threads, NewThread("bot", Finding(w)))
  /\ IF head = writer[w].sha
     THEN writer' = [writer EXCEPT ![w].pc = "create_plain"]
     ELSE Leave(w)
  /\ UNCHANGED <<tracked, queue, head, edited, lastDone, reviewed>>

PublishedRow(w) ==
  LET f == writer[w].row
      known == HasRow(writer[w].rows, f) /\ writer[w].rows[f].thread = writer[w].thread
  IN [status |-> "open", about |-> Finding(w), thread |-> writer[w].thread,
      dismissed |-> IF known THEN writer[w].rows[f].dismissed ELSE 0]

\* The reply is due: same finding as in the previous review, its thread listed,
\* no change of the diff near it, and the bot has not had the last word.
RemarkIsDue(w) ==
  LET t == writer[w].thread
  IN /\ writer[w].place \in writer[w].still
     /\ Listed(writer[w].listing, t)
     /\ Finding(w) \notin writer[w].near
     /\ ShouldAddStillPresentReply(writer[w].listing[t], writer[w].sha, writer[w].row)

SaveFinding_ForgetsRow(w) ==
  /\ At(w, "save")
  /\ Upsert(writer[w].row, PublishedRow(w))
  /\ writer' = [writer EXCEPT ![w] =
       IF RemarkIsDue(w) THEN [writer[w] EXCEPT !.pc = "remark"] ELSE NextFinding(writer[w])]
  /\ UNCHANGED <<threads, queue, envVars>>

SaveFinding(w) ==
  /\ At(w, "save")
  /\ Upsert(writer[w].row, PublishedRow(w))
  /\ LET saved == [writer[w] EXCEPT !.used = @ \cup {writer[w].row}]
     IN writer' = [writer EXCEPT ![w] =
          IF RemarkIsDue(w) THEN [saved EXCEPT !.pc = "remark"] ELSE NextFinding(saved)]
  /\ UNCHANGED <<threads, queue, envVars>>

AddStillPresentReply(w) ==
  LET t == writer[w].thread
  IN /\ At(w, "remark")
     /\ ~threads[t].deleted
     /\ threads' = [threads EXCEPT ![t].notes =
                      Append(@, StillPresentReply(writer[w].row, writer[w].sha))]
     /\ writer' = [writer EXCEPT ![w] = NextFinding(writer[w])]
     /\ UNCHANGED <<tracked, queue, envVars>>

Retiring_NotWhenClean(w) ==
  IF writer[w].report = <<>> THEN {} ELSE InStatus(writer[w].rows, "open") \ writer[w].used

\* Rows that were open when they were read and that no finding took.
Retiring(w) == InStatus(writer[w].rows, "open") \ writer[w].used

RetiredRow(w, f) == [writer[w].rows[f] EXCEPT !.status = "resolved"]

\* Their threads are resolved on GitLab first, where the listing shows them open ...
ResolveThread(w) ==
  /\ At(w, "retire")
  /\ \E f \in Retiring(w) :
       LET t == writer[w].rows[f].thread
       IN /\ ListedUnresolved(w, t)
          /\ ~threads[t].deleted
          /\ threads' = [threads EXCEPT ![t].resolved = TRUE]
          /\ writer' = [writer EXCEPT ![w].pc = "save_resolved", ![w].row = f]
  /\ UNCHANGED <<tracked, queue, envVars>>

\* ... and then the row is written, from the copy read before the review.
SaveResolved(w) ==
  /\ \E f \in Retiring(w) :
       /\ \/ At(w, "save_resolved") /\ f = writer[w].row
          \/ At(w, "retire") /\ ~ListedUnresolved(w, writer[w].rows[f].thread)
       /\ Upsert(f, RetiredRow(w, f))
       /\ writer' = [writer EXCEPT ![w].pc = "retire", ![w].row = None,
                                   ![w].used = @ \cup {f}]
  /\ UNCHANGED <<threads, queue, envVars>>

\* The closing notes are posted and the run is marked done if it still runs.
MarkDone(w) ==
  /\ At(w, "retire") /\ Retiring(w) = {}
  /\ IF LiveReview(w)
     THEN /\ lastDone' = writer[w].report
          /\ reviewed' = reviewed \cup {writer[w].sha}
     ELSE UNCHANGED <<lastDone, reviewed>>
  /\ Leave(w)
  /\ UNCHANGED <<tracked, threads, head, edited, queue, budget>>
-----------------------------------------------------------------------------
\* A reconcile run for a reply in thread t.
StartReconcile(w) ==
  /\ At(w, "idle")
  /\ \E t \in queue.replies :
       /\ queue' = [queue EXCEPT !.replies = @ \ {t}]
       /\ writer' = [writer EXCEPT ![w] =
            [IdleWriter EXCEPT !.kind = "discussion_reconcile", !.pc = "find_thread",
                               !.sha = head, !.thread = t]]
  /\ UNCHANGED <<tracked, threads, envVars>>

\* The threads are listed; without the thread the run is done.
FindThread(w) ==
  Local(w, "find_thread",
        IF Listed(threads, writer[w].thread)
        THEN [writer[w] EXCEPT !.pc = "find_row", !.listing = threads]
        ELSE IdleWriter)

\* The row that names the thread, else an open row whose finding resembles what
\* the thread says; how a text compares with a finding is left open.
RowsForThread(t) ==
  LET named == {f \in Findings : HasRow(tracked, f) /\ tracked[f].thread = t}
  IN IF named # {} THEN named ELSE InStatus(tracked, "open") \cup {None}

FindRow(w) ==
  \E f \in RowsForThread(writer[w].thread) :
    Local(w, "find_row",
          IF f \in InStatus(tracked, "open")
          THEN [writer[w] EXCEPT !.pc = "reconcile", !.rows = tracked, !.row = f]
          ELSE IdleWriter)

\* The agent decides; pc says what comes next and stale that the reply is a dismissal.
Reconcile(w) ==
  \E dismissal, replies \in BOOLEAN :
    Local(w, "reconcile",
          [writer[w] EXCEPT !.pc = IF replies THEN "reply" ELSE "save_decision",
                            !.stale = dismissal])

\* The agent has nothing to do here and says nothing.
NoAction(w) == Local(w, "reconcile", IdleWriter)

\* The reply is posted whatever the decision; after no_action nothing is saved.
Reply(w) ==
  LET t == writer[w].thread
  IN /\ At(w, "reply")
     /\ ~threads[t].deleted
     /\ threads' = [threads EXCEPT ![t].notes = Append(@, BotReply)]
     /\ \/ writer' = [writer EXCEPT ![w].pc = "save_decision"]
        \/ ~writer[w].stale /\ Leave(w)
     /\ UNCHANGED <<tracked, queue, envVars>>

Dismissed(w) ==
  [writer[w].rows[writer[w].row] EXCEPT !.status = "dismissed_by_discussion",
                                        !.dismissed = writer[w].sha]

\* The row as it was read is written back, dismissed or not.
SaveDecision(w) ==
  /\ At(w, "save_decision")
  /\ IF writer[w].stale
     THEN /\ Upsert(writer[w].row, Dismissed(w))
          /\ IF writer[w].listing[writer[w].thread].resolved
             THEN Leave(w)
             ELSE writer' = [writer EXCEPT ![w].pc = "resolve"]
     ELSE /\ Upsert(writer[w].row, writer[w].rows[writer[w].row])
          /\ Leave(w)
  /\ UNCHANGED <<threads, queue, envVars>>

\* The thread of the reply is resolved.
ResolveDismissed(w) ==
  LET t == writer[w].thread
  IN /\ At(w, "resolve")
     /\ ~threads[t].deleted
     /\ threads' = [threads EXCEPT ![t].resolved = TRUE]
     /\ Leave(w)
     /\ UNCHANGED <<tracked, queue, envVars>>
-----------------------------------------------------------------------------
\* Calls that may raise; the run is marked failed and what it wrote stays.
Fallible == Pcs \ {"idle", "list_rows", "check_status", "save", "save_resolved",
                   "find_row", "save_decision"}

\* The thread a write of w goes to is gone.
TargetDeleted(w) ==
  \/ At(w, "place") /\ \E f \in RowsForFinding(w) :
       LET t == writer[w].rows[f].thread
       IN threads[t].deleted /\ ListedResolved(w, t)
  \/ At(w, "retire") /\ \E f \in Retiring(w) :
       LET t == writer[w].rows[f].thread
       IN threads[t].deleted /\ ListedUnresolved(w, t)
  \/ writer[w].pc \in {"remark", "reply", "resolve"} /\ threads[writer[w].thread].deleted

Raise(w) ==
  /\ writer[w].pc \in Fallible
  /\ IF TargetDeleted(w) THEN UNCHANGED budget ELSE Spend("failures")
  /\ Leave(w)
  /\ UNCHANGED <<tracked, threads, head, edited, queue, lastDone, reviewed>>

\* GitLab creates the thread and its answer is lost.
RaiseAfterCreate(w) ==
  /\ NeedsThread(w)
  /\ Spend("failures")
  /\ threads' = Append(threads, NewThread("bot", Finding(w)))
  /\ Leave(w)
  /\ UNCHANGED <<tracked, head, edited, queue, lastDone, reviewed>>

ReviewStep(w) ==
  \/ StartReview(w) \/ ListRows(w) \/ RunAgent(w) \/ CheckStatus(w) \/ CheckHead(w)
  \/ ListThreads(w) \/ PlaceInThread(w) \/ CreateThread(w) \/ InlineFails(w)
  \/ SaveFinding(w) \/ AddStillPresentReply(w) \/ ResolveThread(w) \/ SaveResolved(w)
  \/ MarkDone(w)

ReconcileStep(w) ==
  \/ StartReconcile(w) \/ FindThread(w) \/ FindRow(w) \/ Reconcile(w) \/ NoAction(w)
  \/ Reply(w) \/ SaveDecision(w) \/ ResolveDismissed(w)

WriterStep(w) == ReviewStep(w) \/ ReconcileStep(w) \/ Raise(w) \/ RaiseAfterCreate(w)

Next == GitLabStep \/ \E w \in Writers : WriterStep(w)

Spec == Init /\ [][Next]_vars
-----------------------------------------------------------------------------
\* Every variable has its type.
TypeOK ==
  /\ tracked \in [Findings -> Row \cup {None}]
  /\ threads \in Seq(Thread)
  /\ head \in Nat
  /\ edited \subseteq Findings
  /\ queue \in [review: BOOLEAN, replies: SUBSET Nat]
  /\ lastDone \in Seq(Findings) \cup {None}
  /\ reviewed \subseteq Nat
  /\ writer \in [Writers -> WriterState]
  /\ budget \in [{"pushes", "replies", "humanThreads", "resolves", "deletions", "failures"} -> Nat]

\* A row leads to the thread the bot opened for its fingerprint, so that no two
\* rows answer for one thread, whatever runs overlap and fail.
RowsNameTheirThread ==
  \A f \in Findings : HasRow(tracked, f) =>
    /\ tracked[f].thread \in DOMAIN threads
    /\ threads[tracked[f].thread].author = "bot"
    /\ threads[tracked[f].thread].about = f

\* A finding that comes and goes keeps the thread it was first discussed in: the
\* bot opens no second one for it, unless the answer of GitLab was lost.
NoCallFailed == budget.failures = MaxFailures
OneThreadPerFinding ==
  NoCallFailed => \A t, u \in DOMAIN threads :
    threads[t].author = "bot" /\ threads[u].author = "bot" /\ threads[t].about = threads[u].about
      => t = u

\* When no run is at work a thread is unresolved exactly when its row is open:
\* the two writes that change them always go together, unless a call fails
\* between them or a human resolves or deletes the thread, or discusses the
\* finding in another one, which is then resolved in its place.
AtRest == \A w \in Writers : At(w, "idle")
NobodyInterfered ==
  /\ NoCallFailed
  /\ budget.resolves = MaxResolves
  /\ budget.deletions = MaxDeletions
  /\ budget.humanThreads = MaxHumanThreads
RowsAgreeWithThreads ==
  AtRest /\ NobodyInterfered => \A f \in Findings : HasRow(tracked, f) =>
              (tracked[f].status = "open" <=> ~threads[tracked[f].thread].resolved)

\* The bot says once per silence of the humans that a finding is still present,
\* and at most once per commit.
OneReplyPerSilence ==
  \A t \in DOMAIN threads : \A i, j \in DOMAIN threads[t].notes :
    LET notes == threads[t].notes
    IN i < j /\ notes[i].marker # None /\ notes[j].marker # None =>
         /\ notes[i].marker # notes[j].marker
         /\ \E k \in i..j : notes[k].author = "human"

\* A review is done only when the open rows are the findings it reports: each
\* of them is tracked and no other is left open.
ReviewCompletes == reviewed' # reviewed
ReportIsTracked ==
  [][ReviewCompletes =>
       {tracked[f].about : f \in InStatus(tracked, "open")}
         = {lastDone'[i] : i \in DOMAIN lastDone'}]_vars

\* A run that has read a dismissal leaves it in force, unless the diff has changes near
\* what was dismissed: what _suppress_dismissed_findings lets pass, _match_tracked_finding
\* does not bring back to the row.  Two cases remain, both of a finding that has the
\* fingerprint of the row: the row was reworded until the finding no longer resembles it,
\* or the finding resembles another dismissed row, which has changes near it.
Reopens(f) ==
  /\ f \in InStatus(tracked, "dismissed_by_discussion")
  /\ f \in InStatus(tracked', "open")
ReadAsDismissed(w) == InStatus(writer[w].rows, "dismissed_by_discussion")
ReadDismissalStands ==
  [][\A f \in Findings : Reopens(f) =>
       \E w \in Writers :
         LET about(g) == writer[w].rows[g].about
         IN /\ writer[w].row = f /\ writer'[w] # writer[w]
            /\ f \in ReadAsDismissed(w) =>
                 /\ At(w, "save")
                 /\ \/ about(f) \in writer[w].near
                    \/ /\ Finding(w) = f
                       /\ \/ ~findings_match(f, about(f))
                          \/ \E g \in ReadAsDismissed(w) \ {f} :
                               findings_match(f, about(g)) /\ about(g) \in writer[w].near]_vars

\* README: full reviews after a dismissal do not raise the finding again, unless
\* the diff has changes near it.
LaterReviewsRespectDismissals ==
  [][\A f \in Findings, w \in Writers :
       Reopens(f) /\ At(w, "save") /\ writer[w].row = f /\ writer'[w] # writer[w]
         => \/ writer[w].sha <= tracked[f].dismissed
            \/ tracked[f].about \in writer[w].near]_vars
-----------------------------------------------------------------------------
\* Seen from outside: the rows as findings, and the reviews that are at work.
LifeStatus(row) == IF row.status = "dismissed_by_discussion" THEN "dismissed" ELSE row.status
AsFinding(row) == [status |-> LifeStatus(row), text |-> row.about, thread |-> row.thread]

\* A finding that was never raised is told from one that was.
ASSUME NoneIsNoFinding ==
  None \notin [status: {"open", "resolved", "dismissed"}, text: Findings, thread: Nat]

AsFindings(rows) == [f \in Findings |-> IF HasRow(rows, f) THEN AsFinding(rows[f]) ELSE None]

ReviewPcs == {"list_rows", "run_agent", "check_status", "check_head", "list_threads",
              "place", "create_plain", "save", "remark", "retire", "save_resolved"}
AtReview == {w \in Writers : writer[w].pc \in ReviewPcs}
AsReviews == {[near |-> writer[w].near, dealt |-> writer[w].used] : w \in AtReview}

Lifecycle == INSTANCE FindingLifecycle
  WITH finding <- AsFindings(tracked), reviews <- AsReviews, report <- lastDone

\* A finding is raised once, confirmed in its thread, retired when it is gone and
\* dismissed until there are changes near it, although rows and threads are
\* written one by one from copies (_publish_review_findings and
\* _process_discussion_reconcile_run against FindingLifecycle).
ImplementsLifecycle == Lifecycle!Spec
=============================================================================
