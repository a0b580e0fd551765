------------------------------- MODULE Webhook -------------------------------
(***************************************************************************)
(* Which GitLab events become runs (webhook.py, and the handler in         *)
(* app.py): one merge request that is opened, drafted, pushed to and       *)
(* closed, the notes of humans and of the bot, and payloads that arrive    *)
(* late and in any order.  What happens to an accepted event in the queue  *)
(* is the business of RunStore.                                            *)
(***************************************************************************)
EXTENDS Naturals, FiniteSets, Sequences

CONSTANTS
  None,
  MaxPayloads,      \* bound: webhooks GitLab sends
  MaxLookupFailures \* bound: failed requests for the bot's own user

ASSUME WebhookAssumption ==
  /\ {MaxPayloads, MaxLookupFailures} \subseteq Nat
  /\ None \notin BOOLEAN \cup Nat

VARIABLES
  mr,         \* the merge request on GitLab
  sent,       \* the payloads GitLab has sent, in order
  pending,    \* those it has yet to deliver
  events,     \* payloads the handler has made a run of
  botUser,    \* GitLabClient._current_user is known
  failures,   \* lookups of the bot's user that may still fail
  unanswered, \* events about notes that no reconcile run has worked on
  misses      \* history: lookups that failed

gitlabVars == <<mr, sent>>
vars == <<mr, sent, pending, events, botUser, failures, unanswered, misses>>
-----------------------------------------------------------------------------
MergeRequest == [state: {"opened", "closed", "merged"}, draft: BOOLEAN, head: Nat]

\* The fields of a merge request payload the parser looks at.  wip_was,
\* draft_was and head_was are the previous values in "changes", if any:
\* versions of GitLab differ in whether work_in_progress is among them.
\* what is not part of the payload: it is the user's doing.
MrPayload ==
  [object_kind: {"merge_request"},
   action: {"open", "update", "close", "reopen", "merge"},
   state: {"opened", "closed", "merged"}, draft: BOOLEAN, sha: Nat,
   wip_was: BOOLEAN \cup {None}, draft_was: BOOLEAN \cup {None}, head_was: Nat \cup {None},
   what: {"opened", "reopened", "readied", "pushed", "other"}]

NotePayload ==
  [object_kind: {"note"}, action: {"create", "update"},
   noteable: {"mergerequest", "commit"}, system: BOOLEAN, author: {"human", "bot"}]

Sent(payload) ==
  /\ sent' = Append(sent, payload)
  /\ pending' = pending \cup {Len(sent) + 1}

CanSend == Len(sent) < MaxPayloads
-----------------------------------------------------------------------------
\* What GitLab sends about mr' (a merge request that is changed).
Announce(action, what, wipWas, draftWas, headWas) ==
  Sent([object_kind |-> "merge_request", action |-> action, state |-> mr'.state,
        draft |-> mr'.draft, sha |-> mr'.head, wip_was |-> wipWas, draft_was |-> draftWas,
        head_was |-> headWas, what |-> what])

HandlerVars == <<events, botUser, failures, unanswered, misses>>

Init ==
  /\ \E draft \in BOOLEAN : mr = [state |-> "opened", draft |-> draft, head |-> 1]
  /\ sent = <<[object_kind |-> "merge_request", action |-> "open", state |-> "opened",
               draft |-> mr.draft, sha |-> 1, wip_was |-> None, draft_was |-> None,
               head_was |-> None, what |-> "opened"]>>
  /\ pending = {1}
  /\ events = {}
  /\ botUser = FALSE
  /\ failures = MaxLookupFailures
  /\ unanswered = {}
  /\ misses = 0

\* A push to a merge request that is not open shows when it is reopened.
PushCommits ==
  /\ mr.state # "merged"
  /\ mr.head < MaxPayloads
  /\ mr' = [mr EXCEPT !.head = @ + 1]
  /\ IF mr.state = "opened"
     THEN CanSend /\ Announce("update", "pushed", None, None, mr.head)
     ELSE UNCHANGED <<sent, pending>>
  /\ UNCHANGED HandlerVars

\* The title is edited, which is also how a draft is marked ready and back.
EditTitle ==
  /\ CanSend
  /\ \E draft, reportsWip \in BOOLEAN :
       /\ mr' = [mr EXCEPT !.draft = draft]
       /\ Announce("update", IF mr.draft /\ ~draft THEN "readied" ELSE "other",
                   IF reportsWip /\ mr.draft # draft THEN mr.draft ELSE None, mr.draft, None)
  /\ UNCHANGED HandlerVars

\* Labels, assignees, approvals.
EditOther ==
  /\ CanSend
  /\ UNCHANGED mr
  /\ Announce("update", "other", None, None, None)
  /\ UNCHANGED HandlerVars

CloseOrMerge ==
  /\ mr.state = "opened" /\ CanSend
  /\ \/ mr' = [mr EXCEPT !.state = "closed"] /\ Announce("close", "other", None, None, None)
     \/ mr' = [mr EXCEPT !.state = "merged"] /\ Announce("merge", "other", None, None, None)
  /\ UNCHANGED HandlerVars

Reopen ==
  /\ mr.state = "closed" /\ CanSend
  /\ mr' = [mr EXCEPT !.state = "opened"]
  /\ Announce("reopen", "reopened", None, None, None)
  /\ UNCHANGED HandlerVars

Note(action, noteable, system, author) ==
  Sent([object_kind |-> "note", action |-> action, noteable |-> noteable,
        system |-> system, author |-> author])

\* Somebody writes or edits a note, or GitLab itself writes a system note.
WriteNote ==
  /\ CanSend
  /\ \E action \in {"create", "update"}, noteable \in {"mergerequest", "commit"},
        system \in BOOLEAN : Note(action, noteable, system, "human")
  /\ UNCHANGED <<mr, HandlerVars>>

\* A reconcile run answers the note that triggered it, or does not.
AnswerNote(i) ==
  /\ i \in unanswered
  /\ unanswered' = unanswered \ {i}
  /\ \/ CanSend /\ Note("create", "mergerequest", FALSE, "bot")
     \/ UNCHANGED <<sent, pending>>
  /\ UNCHANGED <<mr, events, botUser, failures, misses>>
-----------------------------------------------------------------------------
CommitPushed(p) == p.head_was # None /\ p.head_was # p.sha

BecameReady_FlagOnly(p) == p.wip_was = TRUE /\ ~p.draft
BecameReady(p) ==
  \/ p.wip_was = TRUE /\ ~p.draft
  \/ p.draft_was = TRUE /\ ~p.draft

ParseMergeRequest_AnyDraft(p) ==
  /\ p.state \notin {"closed", "merged"}
  /\ \/ p.action \in {"open", "reopen"} /\ ~p.draft
     \/ p.action = "update" /\ (BecameReady(p) \/ CommitPushed(p))

\* Whether a merge request event asks for a full review.
ParseMergeRequest(p) ==
  /\ p.state \notin {"closed", "merged"}
  /\ ~p.draft
  /\ \/ p.action \in {"open", "reopen"}
     \/ p.action = "update" /\ (BecameReady(p) \/ CommitPushed(p))

ParseNote_AnyAuthor(p, known) ==
  p.noteable = "mergerequest" /\ p.action \in {"create", "update"} /\ ~p.system

\* Whether a note asks for a reconcile run; known: the bot's user id is.
ParseNote(p, known) ==
  /\ p.noteable = "mergerequest"
  /\ p.action \in {"create", "update"}
  /\ ~p.system
  /\ ~(known /\ p.author = "bot")

\* The user is asked for once; as long as that fails, at every note.
LookUpUser ==
  IF botUser THEN UNCHANGED <<botUser, failures, misses>>
  ELSE \/ botUser' = TRUE /\ UNCHANGED <<failures, misses>>
       \/ /\ failures > 0
          /\ failures' = failures - 1
          /\ misses' = misses + 1
          /\ UNCHANGED botUser

\* gitlab_webhook: parse the payload and enqueue a run, or ignore it.
Deliver(i) ==
  /\ i \in pending
  /\ pending' = pending \ {i}
  /\ LET p == sent[i] IN
       \/ /\ p.object_kind = "merge_request"
          /\ events' = IF ParseMergeRequest(p) THEN events \cup {i} ELSE events
          /\ UNCHANGED <<botUser, failures, unanswered, misses>>
       \/ /\ p.object_kind = "note"
          /\ LookUpUser
          /\ IF ParseNote(p, botUser')
             THEN events' = events \cup {i} /\ unanswered' = unanswered \cup {i}
             ELSE UNCHANGED <<events, unanswered>>
  /\ UNCHANGED gitlabVars

\* The process restarts; what it had cached of GitLab is gone.
Restart ==
  /\ botUser
  /\ botUser' = FALSE
  /\ UNCHANGED <<gitlabVars, pending, events, failures, unanswered, misses>>

Next ==
  \/ PushCommits \/ EditTitle \/ EditOther \/ CloseOrMerge \/ Reopen \/ WriteNote
  \/ \E i \in 1..Len(sent) : AnswerNote(i) \/ Deliver(i)
  \/ Restart

Spec == Init /\ [][Next]_vars
-----------------------------------------------------------------------------
(***************************************************************************)
(* Properties                                                              *)
(***************************************************************************)

TypeOK ==
  /\ mr \in MergeRequest
  /\ sent \in Seq(MrPayload \cup NotePayload)
  /\ pending \subseteq 1..Len(sent)
  /\ events \subseteq 1..Len(sent) \ pending
  /\ botUser \in BOOLEAN
  /\ failures \in Nat
  /\ unanswered \subseteq events
  /\ misses \in Nat

Reviews == {i \in events : sent[i].object_kind = "merge_request"}
NotesBy(author) == {i \in 1..Len(sent) : sent[i].object_kind = "note" /\ sent[i].author = author}

\* Once every webhook of an open and ready merge request was handled, in
\* whatever order, a full review of its head has been asked for: no way of
\* drafts, pushes while a draft or closed, and reopening goes unnoticed.
HeadIsRequested ==
  pending = {} /\ mr.state = "opened" /\ ~mr.draft
    => \E i \in Reviews : sent[i].sha = mr.head

\* A full review is asked for exactly when a merge request that is open and
\* no draft is opened or reopened, moves from draft to ready, or is pushed to
\* (README.md:9, 118-121), although none of these is in the payload as such.
TriggersAsDocumented ==
  \A i \in (1..Len(sent)) \ pending :
    sent[i].object_kind = "merge_request" =>
      (i \in events <=> /\ sent[i].what # "other"
                        /\ sent[i].state = "opened" /\ ~sent[i].draft)

\* The bot's answers to its own notes come to an end: it writes no more notes
\* than humans have given it reason to, plus one for each time its own user
\* could not be looked up.
BotDoesNotTalkToItself ==
  Cardinality(NotesBy("bot")) <= Cardinality(NotesBy("human")) + misses
=============================================================================
