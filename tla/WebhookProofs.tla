---------------------------- MODULE WebhookProofs ----------------------------
(***************************************************************************)
(* Which payloads become runs, for any number of payloads, pushes, notes,  *)
(* failed lookups and restarts, delivered in any order.                    *)
(***************************************************************************)
EXTENDS Webhook, FiniteSetTheorems, TLAPS

Payload == MrPayload \cup NotePayload

\* The way a payload is added to those GitLab has sent.
LEMMA SentGrows ==
  ASSUME TypeOK, NEW p \in Payload, Sent(p)
  PROVE  /\ sent' \in Seq(Payload)
         /\ Len(sent) \in Nat /\ Len(sent') = Len(sent) + 1
         /\ sent'[Len(sent')] = p
         /\ \A i \in 1..Len(sent) : sent'[i] = sent[i]
         /\ 1..Len(sent') = (1..Len(sent)) \cup {Len(sent')}
         /\ Len(sent') \notin 1..Len(sent)
         /\ pending' = pending \cup {Len(sent')}
<1>1. sent \in Seq(Payload) /\ Len(sent) \in Nat
  BY DEF TypeOK, Payload
<1>2. sent' = Append(sent, p) /\ pending' = pending \cup {Len(sent) + 1}
  BY DEF Sent
<1>3. 1..(Len(sent) + 1) = (1..Len(sent)) \cup {Len(sent) + 1}
  BY <1>1
<1> QED
  BY <1>1, <1>2, <1>3

\* A payload is told to be a reason for a review exactly when it is one.
ToldApart(p) ==
  p.object_kind = "merge_request" =>
    (ParseMergeRequest(p) <=> p.what # "other" /\ p.state = "opened" /\ ~p.draft)

IsReview(p) ==
  p.object_kind = "merge_request" /\ p.what # "other" /\ p.state = "opened" /\ ~p.draft

\* What GitLab may do to the merge request, and the payload it then sends.
GitlabStep ==
  PushCommits \/ EditTitle \/ EditOther \/ CloseOrMerge \/ Reopen

Announced(p) ==
  /\ p \in MrPayload
  /\ p.sha = mr'.head
  /\ ToldApart(p)

Tells(p, action, what, wipWas, draftWas, headWas) ==
  /\ Sent(p)
  /\ p.object_kind = "merge_request"
  /\ p.action = action /\ p.what = what
  /\ p.state = mr'.state /\ p.draft = mr'.draft /\ p.sha = mr'.head
  /\ p.wip_was = wipWas /\ p.draft_was = draftWas /\ p.head_was = headWas

LEMMA AnnouncedPayload ==
  ASSUME mr' \in MergeRequest,
         NEW action \in {"open", "update", "close", "reopen", "merge"},
         NEW what \in {"opened", "reopened", "readied", "pushed", "other"},
         NEW wipWas \in BOOLEAN \cup {None}, NEW draftWas \in BOOLEAN \cup {None},
         NEW headWas \in Nat \cup {None},
         Announce(action, what, wipWas, draftWas, headWas)
  PROVE  \E p \in MrPayload : Tells(p, action, what, wipWas, draftWas, headWas)
<1> DEFINE p == [object_kind |-> "merge_request", action |-> action, state |-> mr'.state,
                 draft |-> mr'.draft, sha |-> mr'.head, wip_was |-> wipWas,
                 draft_was |-> draftWas, head_was |-> headWas, what |-> what]
<1>1. p \in MrPayload
  BY DEF MrPayload, MergeRequest
<1>2. Tells(p, action, what, wipWas, draftWas, headWas)
  BY DEF Announce, Tells
<1> QED
  BY <1>1, <1>2

\* Every step of GitLab keeps the types, and sends at most one payload, which
\* the parser tells apart; when the merge request is open and ready after the
\* step, it was so before with the same head, or the payload asks for a review.
LEMMA GitlabSteps ==
  ASSUME TypeOK, GitlabStep
  PROVE  /\ mr' \in MergeRequest
         /\ UNCHANGED HandlerVars
         /\ \/ /\ UNCHANGED <<sent, pending>>
               /\ mr'.state = "opened" => mr' = mr
            \/ \E p \in MrPayload :
                 /\ Sent(p) /\ Announced(p)
                 /\ p.object_kind = "merge_request"
                 /\ mr'.state = "opened" /\ ~mr'.draft =>
                      \/ IsReview(p)
                      \/ mr.state = "opened" /\ ~mr.draft /\ mr'.head = mr.head
<1> USE WebhookAssumption
<1>0. mr \in MergeRequest /\ mr.head \in Nat /\ None \notin BOOLEAN \cup Nat
  BY DEF TypeOK, MergeRequest
<1>1. CASE PushCommits
  <2>1. mr' = [mr EXCEPT !.head = mr.head + 1] /\ UNCHANGED HandlerVars
    BY <1>1 DEF PushCommits
  <2>2. /\ mr' \in MergeRequest
        /\ mr'.state = mr.state /\ mr'.draft = mr.draft /\ mr'.head = mr.head + 1
    BY <1>0, <2>1 DEF MergeRequest
  <2>3. CASE mr.state = "opened"
    <3>1. Announce("update", "pushed", None, None, mr.head)
      BY <1>1, <2>3 DEF PushCommits
    <3>2. PICK p \in MrPayload : Tells(p, "update", "pushed", None, None, mr.head)
      BY <1>0, <2>2, <3>1, AnnouncedPayload
    <3>3. CommitPushed(p)
      BY <1>0, <2>2, <3>2 DEF Tells, CommitPushed
    <3>4. ToldApart(p)
      BY <2>2, <2>3, <3>2, <3>3 DEF Tells, ToldApart, ParseMergeRequest
    <3>5. mr'.state = "opened" /\ ~mr'.draft => IsReview(p)
      BY <3>2 DEF Tells, IsReview
    <3> QED
      BY <2>1, <2>2, <3>2, <3>4, <3>5 DEF Announced, Tells
  <2>4. CASE mr.state # "opened"
    BY <1>1, <2>1, <2>2, <2>4 DEF PushCommits
  <2> QED
    BY <2>3, <2>4
<1>2. CASE EditTitle
  <2>1. PICK draft \in BOOLEAN, reportsWip \in BOOLEAN :
          /\ mr' = [mr EXCEPT !.draft = draft]
          /\ Announce("update", IF mr.draft /\ ~draft THEN "readied" ELSE "other",
                      IF reportsWip /\ mr.draft # draft THEN mr.draft ELSE None, mr.draft, None)
    BY <1>2 DEF EditTitle
  <2>2. /\ mr' \in MergeRequest
        /\ mr'.state = mr.state /\ mr'.draft = draft /\ mr'.head = mr.head
        /\ mr.draft \in BOOLEAN
    BY <1>0, <2>1 DEF MergeRequest
  <2> DEFINE what == IF mr.draft /\ ~draft THEN "readied" ELSE "other"
             wip == IF reportsWip /\ mr.draft # draft THEN mr.draft ELSE None
  <2>3. what \in {"readied", "other"} /\ wip \in BOOLEAN \cup {None}
    BY <2>2
  <2>4. PICK p \in MrPayload : Tells(p, "update", what, wip, mr.draft, None)
    <3>1. Announce("update", what, wip, mr.draft, None)
      BY <2>1
    <3>2. /\ what \in {"opened", "reopened", "readied", "pushed", "other"}
          /\ wip \in BOOLEAN \cup {None}
          /\ mr.draft \in BOOLEAN \cup {None}
          /\ None \in Nat \cup {None}
          /\ "update" \in {"open", "update", "close", "reopen", "merge"}
      BY <2>2, <2>3
    <3> HIDE DEF what, wip
    <3> QED
      BY <2>2, <3>1, <3>2, AnnouncedPayload
  <2>5. BecameReady(p) <=> mr.draft /\ ~draft
    <3>1. None # TRUE
      BY <1>0
    <3> QED
      BY <2>2, <2>4, <3>1 DEF Tells, BecameReady
  <2>6. what # "other" <=> mr.draft /\ ~draft
    OBVIOUS
  <2>7. ToldApart(p)
    <3> HIDE DEF what, wip
    <3>1. ParseMergeRequest(p) <=>
            p.state \notin {"closed", "merged"} /\ ~p.draft /\ BecameReady(p)
      BY <2>4 DEF Tells, ParseMergeRequest, CommitPushed
    <3>2. p.state \in {"opened", "closed", "merged"}
      BY <2>2, <2>4 DEF Tells, MergeRequest
    <3> QED
      BY <2>2, <2>4, <2>5, <2>6, <3>1, <3>2 DEF Tells, ToldApart
  <2>8. mr'.state = "opened" /\ ~mr'.draft =>
          IsReview(p) \/ (mr.state = "opened" /\ ~mr.draft /\ mr'.head = mr.head)
    BY <2>2, <2>4, <2>6 DEF Tells, IsReview
  <2> QED
    BY <1>2, <2>2, <2>4, <2>7, <2>8 DEF EditTitle, Announced, Tells
<1>3. CASE EditOther
  <2>1. mr' = mr /\ Announce("update", "other", None, None, None)
    BY <1>3 DEF EditOther
  <2>2. PICK p \in MrPayload : Tells(p, "update", "other", None, None, None)
    <3>1. mr' \in MergeRequest
      BY <1>0, <2>1
    <3> QED
      BY <2>1, <3>1, AnnouncedPayload
  <2>3. ToldApart(p)
    BY <1>0, <2>2 DEF Tells, ToldApart, ParseMergeRequest, BecameReady, CommitPushed
  <2> QED
    BY <1>0, <1>3, <2>1, <2>2, <2>3 DEF EditOther, Announced, Tells
<1>4. CASE CloseOrMerge
  <2>1. PICK action \in {"close", "merge"}, state \in {"closed", "merged"} :
          mr' = [mr EXCEPT !.state = state] /\ Announce(action, "other", None, None, None)
    BY <1>4 DEF CloseOrMerge
  <2>2. /\ mr' \in MergeRequest
        /\ mr'.state = state /\ mr'.head = mr.head
    BY <1>0, <2>1 DEF MergeRequest
  <2>3. PICK p \in MrPayload : Tells(p, action, "other", None, None, None)
    BY <2>1, <2>2, AnnouncedPayload
  <2>4. ToldApart(p)
    BY <2>2, <2>3 DEF Tells, ToldApart, ParseMergeRequest
  <2> QED
    BY <1>4, <2>2, <2>3, <2>4 DEF CloseOrMerge, Announced, Tells
<1>5. CASE Reopen
  <2>1. mr' = [mr EXCEPT !.state = "opened"] /\ Announce("reopen", "reopened", None, None, None)
    BY <1>5 DEF Reopen
  <2>2. /\ mr' \in MergeRequest
        /\ mr'.state = "opened" /\ mr'.draft = mr.draft /\ mr'.head = mr.head
    BY <1>0, <2>1 DEF MergeRequest
  <2>3. PICK p \in MrPayload : Tells(p, "reopen", "reopened", None, None, None)
    BY <2>1, <2>2, AnnouncedPayload
  <2>4. ToldApart(p) /\ (~mr'.draft => IsReview(p))
    BY <2>2, <2>3 DEF Tells, ToldApart, IsReview, ParseMergeRequest
  <2> QED
    BY <1>5, <2>2, <2>3, <2>4 DEF Reopen, Announced, Tells
<1> QED
  BY <1>1, <1>2, <1>3, <1>4, <1>5 DEF GitlabStep
-----------------------------------------------------------------------------
(***************************************************************************)
(* Types, and which merge request payloads become runs.                    *)
(***************************************************************************)

\* A note that is written, by a human or by the bot.
LEMMA NotePayloads ==
  ASSUME NEW action \in {"create", "update"}, NEW noteable \in {"mergerequest", "commit"},
         NEW system \in BOOLEAN, NEW author \in {"human", "bot"},
         Note(action, noteable, system, author)
  PROVE  \E p \in NotePayload : Sent(p) /\ p.object_kind = "note" /\ p.author = author
<1> DEFINE p == [object_kind |-> "note", action |-> action, noteable |-> noteable,
                 system |-> system, author |-> author]
<1>1. p \in NotePayload
  BY DEF NotePayload
<1>2. Sent(p)
  BY DEF Note
<1> QED
  BY <1>1, <1>2

\* What sends a payload: GitLab about the merge request, a human who writes a
\* note, or the bot that answers one.
LEMMA Senders ==
  ASSUME TypeOK, [Next]_vars
  PROVE  \/ GitlabStep
         \/ /\ \E p \in NotePayload : Sent(p) /\ p.object_kind = "note" /\ p.author = "human"
            /\ UNCHANGED <<mr, HandlerVars>>
         \/ \E i \in 1..Len(sent) :
              /\ i \in unanswered
              /\ unanswered' = unanswered \ {i}
              /\ \/ \E p \in NotePayload :
                      Sent(p) /\ p.object_kind = "note" /\ p.author = "bot"
                 \/ UNCHANGED <<sent, pending>>
              /\ UNCHANGED <<mr, events, botUser, failures, misses>>
         \/ \E i \in 1..Len(sent) : Deliver(i)
         \/ Restart
         \/ UNCHANGED vars
<1>1. CASE WriteNote
  <2>1. PICK action \in {"create", "update"}, noteable \in {"mergerequest", "commit"},
             system \in BOOLEAN : Note(action, noteable, system, "human")
    BY <1>1 DEF WriteNote
  <2>2. \E p \in NotePayload : Sent(p) /\ p.object_kind = "note" /\ p.author = "human"
    BY <2>1, NotePayloads
  <2> QED
    BY <1>1, <2>2 DEF WriteNote
<1>2. ASSUME NEW i \in 1..Len(sent), AnswerNote(i)
      PROVE  \/ \E p \in NotePayload : Sent(p) /\ p.object_kind = "note" /\ p.author = "bot"
             \/ UNCHANGED <<sent, pending>>
  BY <1>2, NotePayloads DEF AnswerNote
<1>3. ASSUME NEW i \in 1..Len(sent), AnswerNote(i)
      PROVE  /\ i \in unanswered
             /\ unanswered' = unanswered \ {i}
             /\ UNCHANGED <<mr, events, botUser, failures, misses>>
  BY <1>3 DEF AnswerNote
<1> QED
  BY <1>1, <1>2, <1>3 DEF Next, GitlabStep

Told == \A i \in 1..Len(sent) : ToldApart(sent[i])

\* The handler makes a run of what the parser tells it to.
Handled ==
  \A i \in (1..Len(sent)) \ pending :
    sent[i].object_kind = "merge_request" => (i \in events <=> ParseMergeRequest(sent[i]))

\* GitLab has told of the head of an open and ready merge request.
HeadAnnounced ==
  mr.state = "opened" /\ ~mr.draft =>
    \E i \in 1..Len(sent) : IsReview(sent[i]) /\ sent[i].sha = mr.head

RequestInv == TypeOK /\ Told /\ Handled /\ HeadAnnounced

\* A payload more keeps the invariant if it is told apart, and announces the
\* head when the merge request has become ready or has a new head.
LEMMA SendingKeeps ==
  ASSUME RequestInv, NEW p \in Payload, Sent(p), mr' \in MergeRequest, ToldApart(p),
         UNCHANGED <<events, botUser, failures, misses>>, unanswered' \subseteq unanswered,
         mr'.state = "opened" /\ ~mr'.draft =>
           \/ IsReview(p) /\ p.sha = mr'.head
           \/ mr.state = "opened" /\ ~mr.draft /\ mr'.head = mr.head
  PROVE  RequestInv'
<1>0. TypeOK /\ Told /\ Handled /\ HeadAnnounced
  BY DEF RequestInv
<1>1. /\ sent' \in Seq(Payload)
      /\ sent'[Len(sent')] = p
      /\ \A i \in 1..Len(sent) : sent'[i] = sent[i]
      /\ 1..Len(sent') = (1..Len(sent)) \cup {Len(sent')}
      /\ Len(sent') \notin 1..Len(sent)
      /\ pending' = pending \cup {Len(sent')}
  BY <1>0, SentGrows
<1>2. TypeOK'
  BY <1>0, <1>1 DEF TypeOK, Payload
<1>3. Told'
  <2>1. ToldApart(p)' <=> ToldApart(p)
    BY DEF ToldApart, ParseMergeRequest, BecameReady, CommitPushed
  <2>2. \A i \in 1..Len(sent') : ToldApart(sent'[i])
    BY <1>0, <1>1 DEF Told
  <2> QED
    BY <2>2 DEF Told, ToldApart, ParseMergeRequest, BecameReady, CommitPushed
<1>4. Handled'
  <2>1. \A i \in (1..Len(sent')) \ pending' :
          /\ i \in (1..Len(sent)) \ pending /\ sent'[i] = sent[i]
    BY <1>1
  <2>2. \A i \in (1..Len(sent')) \ pending' : sent'[i].object_kind = "merge_request" =>
          (i \in events' <=> ParseMergeRequest(sent'[i]))
    BY <1>0, <2>1 DEF Handled
  <2> QED
    BY <2>2 DEF Handled, ParseMergeRequest, BecameReady, CommitPushed
<1>5. HeadAnnounced'
  <2> SUFFICES ASSUME mr'.state = "opened", ~mr'.draft
               PROVE  \E i \in 1..Len(sent') : IsReview(sent'[i]) /\ sent'[i].sha = mr'.head
    BY DEF HeadAnnounced, IsReview
  <2>1. CASE IsReview(p) /\ p.sha = mr'.head
    BY <1>1, <2>1
  <2>2. CASE mr.state = "opened" /\ ~mr.draft /\ mr'.head = mr.head
    BY <1>0, <1>1, <2>2 DEF HeadAnnounced
  <2> QED
    BY <2>1, <2>2
<1> QED
  BY <1>2, <1>3, <1>4, <1>5 DEF RequestInv

LEMMA RequestStart == Init => RequestInv
<1> SUFFICES ASSUME Init PROVE RequestInv
  OBVIOUS
<1>1. PICK draft \in BOOLEAN : mr = [state |-> "opened", draft |-> draft, head |-> 1]
  BY DEF Init
<1> DEFINE p == [object_kind |-> "merge_request", action |-> "open", state |-> "opened",
                 draft |-> mr.draft, sha |-> 1, wip_was |-> None, draft_was |-> None,
                 head_was |-> None, what |-> "opened"]
<1>2. p \in MrPayload /\ mr \in MergeRequest
  BY <1>1 DEF MrPayload, MergeRequest
<1>3. sent = <<p>> /\ pending = {1}
  BY DEF Init
<1>4. sent \in Seq(Payload) /\ 1..Len(sent) = {1} /\ sent[1] = p
  <2> HIDE DEF p
  <2> QED
    BY <1>2, <1>3 DEF Payload
<1>5. TypeOK
  BY <1>2, <1>3, <1>4, WebhookAssumption DEF Init, TypeOK, Payload
<1>6. Told
  BY <1>1, <1>4 DEF Told, ToldApart, ParseMergeRequest
<1>7. Handled
  BY <1>3, <1>4 DEF Handled
<1>8. HeadAnnounced
  BY <1>1, <1>4 DEF HeadAnnounced, IsReview
<1> QED
  BY <1>5, <1>6, <1>7, <1>8 DEF RequestInv

\* The lookup of the bot's user, and the misses it counts.
LEMMA LookUps ==
  ASSUME TypeOK, LookUpUser
  PROVE  /\ botUser' \in BOOLEAN /\ failures' \in Nat /\ misses' \in Nat
         /\ misses' >= misses
         /\ botUser' # TRUE => misses' = misses + 1
<1>1. failures \in Nat /\ misses \in Nat /\ botUser \in BOOLEAN
  BY DEF TypeOK
<1>2. CASE botUser
  <2>1. botUser' = botUser /\ failures' = failures /\ misses' = misses
    BY <1>2 DEF LookUpUser
  <2> QED
    BY <1>1, <1>2, <2>1
<1>3. CASE ~botUser
  <2>1. CASE botUser' = TRUE /\ UNCHANGED <<failures, misses>>
    BY <1>1, <2>1
  <2>2. CASE failures > 0 /\ failures' = failures - 1 /\ misses' = misses + 1 /\ UNCHANGED botUser
    BY <1>1, <1>3, <2>2
  <2> QED
    BY <1>3, <2>1, <2>2 DEF LookUpUser
<1> QED
  BY <1>2, <1>3

LEMMA RequestStep == RequestInv /\ [Next]_vars => RequestInv'
<1> SUFFICES ASSUME RequestInv, [Next]_vars PROVE RequestInv'
  OBVIOUS
<1>0. TypeOK /\ Told /\ Handled /\ HeadAnnounced
  BY DEF RequestInv
<1>1. ASSUME mr' \in MergeRequest, UNCHANGED <<sent, pending, events, botUser, failures, misses>>,
             unanswered' \subseteq unanswered,
             mr'.state = "opened" => mr' = mr
      PROVE  RequestInv'
  BY <1>0, <1>1 DEF RequestInv, TypeOK, Told, ToldApart, Handled, HeadAnnounced, IsReview,
     ParseMergeRequest, BecameReady, CommitPushed
<1>2. CASE GitlabStep
  <2>1. mr' \in MergeRequest /\ UNCHANGED HandlerVars
    BY <1>0, <1>2, GitlabSteps
  <2>2. CASE UNCHANGED <<sent, pending>> /\ (mr'.state = "opened" => mr' = mr)
    BY <1>1, <2>1, <2>2 DEF HandlerVars
  <2>3. ASSUME NEW p \in MrPayload, Sent(p), Announced(p),
               mr'.state = "opened" /\ ~mr'.draft =>
                 \/ IsReview(p)
                 \/ mr.state = "opened" /\ ~mr.draft /\ mr'.head = mr.head
        PROVE  RequestInv'
    <3>1. p \in Payload /\ p.sha = mr'.head /\ ToldApart(p)
      BY <2>3 DEF Payload, Announced
    <3> QED
      BY <2>1, <2>3, <3>1, SendingKeeps DEF HandlerVars
  <2> QED
    BY <1>0, <1>2, <2>2, <2>3, GitlabSteps
<1>3. ASSUME NEW p \in NotePayload, Sent(p), p.object_kind = "note",
             UNCHANGED <<mr, events, botUser, failures, misses>>, unanswered' \subseteq unanswered
      PROVE  RequestInv'
  <2>1. p \in Payload /\ ToldApart(p) /\ mr' \in MergeRequest
    BY <1>0, <1>3 DEF Payload, ToldApart, TypeOK
  <2> QED
    BY <1>3, <2>1, SendingKeeps
<1>4. ASSUME NEW i \in 1..Len(sent), Deliver(i) PROVE RequestInv'
  <2>1. /\ i \in pending /\ pending' = pending \ {i}
        /\ UNCHANGED <<mr, sent>>
    BY <1>4 DEF Deliver, gitlabVars
  <2>2. /\ events' \in {events, events \cup {i}}
        /\ botUser' \in BOOLEAN /\ failures' \in Nat /\ misses' \in Nat
        /\ unanswered' \subseteq events'
        /\ \A j \in 1..Len(sent) : j # i => (j \in events' <=> j \in events)
        /\ sent[i].object_kind = "merge_request" =>
             (i \in events' <=> i \in events \/ ParseMergeRequest(sent[i]))
    <3>1. CASE /\ sent[i].object_kind = "merge_request"
               /\ events' = IF ParseMergeRequest(sent[i]) THEN events \cup {i} ELSE events
               /\ UNCHANGED <<botUser, failures, unanswered, misses>>
      BY <1>0, <3>1 DEF TypeOK
    <3>2. CASE /\ sent[i].object_kind = "note"
               /\ LookUpUser
               /\ IF ParseNote(sent[i], botUser')
                  THEN events' = events \cup {i} /\ unanswered' = unanswered \cup {i}
                  ELSE UNCHANGED <<events, unanswered>>
      <4>1. botUser' \in BOOLEAN /\ failures' \in Nat /\ misses' \in Nat
        BY <1>0, <3>2, LookUps
      <4> QED
        BY <1>0, <3>2, <4>1 DEF TypeOK
    <3> QED
      BY <1>4, <3>1, <3>2 DEF Deliver
  <2>3. i \notin events
    BY <1>0, <2>1 DEF TypeOK
  <2>4. TypeOK'
    BY <1>0, <2>1, <2>2 DEF TypeOK
  <2>5. Handled'
    <3>1. \A j \in (1..Len(sent)) \ pending' : sent[j].object_kind = "merge_request" =>
            (j \in events' <=> ParseMergeRequest(sent[j]))
      BY <1>0, <2>1, <2>2, <2>3 DEF Handled
    <3> QED
      BY <2>1, <3>1 DEF Handled, ParseMergeRequest, BecameReady, CommitPushed
  <2> QED
    BY <1>0, <2>1, <2>4, <2>5 DEF RequestInv, Told, ToldApart, HeadAnnounced, IsReview,
       ParseMergeRequest, BecameReady, CommitPushed
<1>5. CASE Restart
  <2>1. UNCHANGED <<mr, sent, pending, events, failures, unanswered, misses>> /\ botUser' = FALSE
    BY <1>5 DEF Restart, gitlabVars
  <2> QED
    BY <1>0, <2>1 DEF RequestInv, TypeOK, Told, ToldApart, Handled, HeadAnnounced, IsReview,
     ParseMergeRequest, BecameReady, CommitPushed
<1>6. CASE UNCHANGED vars
  <2>1. UNCHANGED <<mr, sent, pending, events, botUser, failures, unanswered, misses>>
    BY <1>6 DEF vars, gitlabVars
  <2> QED
    BY <1>0, <1>1, <2>1 DEF TypeOK
<1>7. ASSUME NEW i \in 1..Len(sent), unanswered' = unanswered \ {i},
             UNCHANGED <<mr, events, botUser, failures, misses>>,
             \/ \E p \in NotePayload : Sent(p) /\ p.object_kind = "note" /\ p.author = "bot"
             \/ UNCHANGED <<sent, pending>>
      PROVE  RequestInv'
  <2>1. unanswered' \subseteq unanswered /\ mr' \in MergeRequest
    BY <1>0, <1>7 DEF TypeOK
  <2> QED
    BY <1>1, <1>3, <1>7, <2>1
<1> QED
  BY <1>0, <1>2, <1>3, <1>4, <1>5, <1>6, <1>7, Senders DEF HandlerVars

\* The merge request, the payloads and what the handler made of them keep
\* their types, whatever the bounds.
THEOREM TypeCorrect == Spec => []TypeOK
  BY RequestStart, RequestStep, PTL DEF Spec, RequestInv

\* Of all payloads GitLab sends about a merge request, exactly those that tell
\* that it was opened, reopened, readied or pushed to while open and ready
\* become full reviews, in whatever order they arrive (webhook.py:45-85).
THEOREM ReviewsTriggeredAsDocumented == Spec => []TriggersAsDocumented
<1>1. RequestInv => TriggersAsDocumented
  BY DEF RequestInv, Told, ToldApart, Handled, TriggersAsDocumented
<1> QED
  BY <1>1, RequestStart, RequestStep, PTL DEF Spec

\* However long the merge request goes through drafts, pushes, closing and
\* reopening: once every payload was handled, a review of its head has been
\* asked for if it is open and ready.
THEOREM ReadyHeadIsRequested == Spec => []HeadIsRequested
<1>1. RequestInv => HeadIsRequested
  <2> SUFFICES ASSUME RequestInv, pending = {}, mr.state = "opened", ~mr.draft
               PROVE  \E i \in Reviews : sent[i].sha = mr.head
    BY DEF HeadIsRequested
  <2>1. PICK i \in 1..Len(sent) : IsReview(sent[i]) /\ sent[i].sha = mr.head
    BY DEF RequestInv, HeadAnnounced
  <2>2. i \in events
    BY <2>1 DEF RequestInv, Told, ToldApart, Handled, IsReview
  <2> QED
    BY <2>1, <2>2 DEF Reviews, IsReview
<1> QED
  BY <1>1, RequestStart, RequestStep, PTL DEF Spec
-----------------------------------------------------------------------------
(***************************************************************************)
(* The bot's talk with itself.                                             *)
(***************************************************************************)

\* Notes of humans the handler has yet to see.
NewNotes == NotesBy("human") \cap pending

\* A note of the bot is paid for by a note it answered: one of a human, or one
\* of its own that was let in because the lookup failed.
Balanced ==
  Cardinality(NotesBy("bot")) + Cardinality(unanswered) + Cardinality(NewNotes)
    <= Cardinality(NotesBy("human")) + misses

BalanceInv == RequestInv /\ Balanced

\* All of these are finite.
LEMMA NotesAreFinite ==
  ASSUME TypeOK
  PROVE  /\ IsFiniteSet(NotesBy("bot")) /\ Cardinality(NotesBy("bot")) \in Nat
         /\ IsFiniteSet(NotesBy("human")) /\ Cardinality(NotesBy("human")) \in Nat
         /\ IsFiniteSet(unanswered) /\ Cardinality(unanswered) \in Nat
         /\ IsFiniteSet(NewNotes) /\ Cardinality(NewNotes) \in Nat
<1>1. IsFiniteSet(1..Len(sent))
  <2>1. Len(sent) \in Nat
    BY DEF TypeOK
  <2> QED
    BY <2>1, FS_Interval
<1>2. /\ NotesBy("bot") \subseteq 1..Len(sent) /\ NotesBy("human") \subseteq 1..Len(sent)
      /\ unanswered \subseteq 1..Len(sent) /\ NewNotes \subseteq 1..Len(sent)
  BY DEF TypeOK, NotesBy, NewNotes
<1> QED
  BY <1>1, <1>2, FS_Subset, FS_CardinalityType

\* What a payload more does to the sets of notes.
LEMMA NotesAfterSending ==
  ASSUME TypeOK, NEW p \in Payload, Sent(p), NEW author \in {"human", "bot"}
  PROVE  /\ Len(sent') \notin NotesBy(author) /\ Len(sent') \notin NewNotes
         /\ p.object_kind = "note" /\ p.author = author =>
              NotesBy(author)' = NotesBy(author) \cup {Len(sent')}
         /\ p.object_kind # "note" \/ p.author # author => NotesBy(author)' = NotesBy(author)
         /\ p.object_kind = "note" /\ p.author = "human" =>
              NewNotes' = NewNotes \cup {Len(sent')}
         /\ p.object_kind # "note" \/ p.author # "human" => NewNotes' = NewNotes
<1>1. /\ sent'[Len(sent')] = p
      /\ \A i \in 1..Len(sent) : sent'[i] = sent[i]
      /\ 1..Len(sent') = (1..Len(sent)) \cup {Len(sent')}
      /\ Len(sent') \notin 1..Len(sent)
      /\ pending' = pending \cup {Len(sent')}
  BY SentGrows
<1>2. \A a : NotesBy(a)' = {i \in 1..Len(sent') : sent'[i].object_kind = "note" /\ sent'[i].author = a}
  BY DEF NotesBy
<1>3. \A a : /\ p.object_kind = "note" /\ p.author = a =>
                  NotesBy(a)' = NotesBy(a) \cup {Len(sent')}
             /\ p.object_kind # "note" \/ p.author # a => NotesBy(a)' = NotesBy(a)
  BY <1>1, <1>2 DEF NotesBy
<1>4. \A a : NotesBy(a) \subseteq 1..Len(sent)
  BY DEF NotesBy
<1>5. NewNotes' = NotesBy("human")' \cap pending'
  BY DEF NewNotes
<1>6. /\ p.object_kind = "note" /\ p.author = "human" => NewNotes' = NewNotes \cup {Len(sent')}
      /\ p.object_kind # "note" \/ p.author # "human" => NewNotes' = NewNotes
  BY <1>1, <1>3, <1>4, <1>5 DEF NewNotes
<1> QED
  BY <1>1, <1>3, <1>4, <1>6 DEF NewNotes

LEMMA BalanceStart == Init => BalanceInv
<1> SUFFICES ASSUME Init PROVE Balanced
  BY RequestStart DEF BalanceInv
<1>1. Len(sent) = 1 /\ sent[1].object_kind = "merge_request" /\ unanswered = {} /\ misses = 0
  BY DEF Init
<1>2. NotesBy("bot") = {} /\ NotesBy("human") = {} /\ NewNotes = {}
  BY <1>1 DEF NotesBy, NewNotes
<1> QED
  BY <1>1, <1>2, FS_EmptySet DEF Balanced

\* The sizes after a step, from what becomes of the sets.
LEMMA OneMore ==
  ASSUME NEW S, IsFiniteSet(S), NEW x, x \notin S
  PROVE  Cardinality(S \cup {x}) = Cardinality(S) + 1
  BY FS_AddElement

LEMMA OneLess ==
  ASSUME NEW S, IsFiniteSet(S), NEW x \in S
  PROVE  Cardinality(S \ {x}) = Cardinality(S) - 1
  BY FS_RemoveElement

LEMMA BalanceStep == BalanceInv /\ [Next]_vars => BalanceInv'
<1> SUFFICES ASSUME BalanceInv, [Next]_vars PROVE Balanced'
  BY RequestStep DEF BalanceInv
<1>0. TypeOK /\ Balanced /\ misses \in Nat
  BY DEF BalanceInv, RequestInv, TypeOK
<1> DEFINE bot == Cardinality(NotesBy("bot"))
           human == Cardinality(NotesBy("human"))
           open == Cardinality(unanswered)
           new == Cardinality(NewNotes)
<1>1. /\ bot \in Nat /\ human \in Nat /\ open \in Nat /\ new \in Nat
      /\ IsFiniteSet(NotesBy("bot")) /\ IsFiniteSet(NotesBy("human"))
      /\ IsFiniteSet(unanswered) /\ IsFiniteSet(NewNotes)
  BY <1>0, NotesAreFinite
<1>2. bot + open + new <= human + misses
  BY <1>0 DEF Balanced
<1>3. ASSUME bot' + open' + new' <= human' + misses' PROVE Balanced'
  BY <1>3 DEF Balanced
<1>4. ASSUME UNCHANGED <<sent, pending>>
      PROVE  bot' = bot /\ human' = human /\ new' = new
  BY <1>4 DEF NotesBy, NewNotes
<1>5. ASSUME NEW p \in Payload, Sent(p)
      PROVE  /\ p.object_kind = "merge_request" => bot' = bot /\ human' = human /\ new' = new
             /\ p.object_kind = "note" /\ p.author = "human" =>
                  bot' = bot /\ human' = human + 1 /\ new' = new + 1
             /\ p.object_kind = "note" /\ p.author = "bot" =>
                  bot' = bot + 1 /\ human' = human /\ new' = new
  BY <1>0, <1>1, <1>5, NotesAfterSending, OneMore
<1>6. CASE GitlabStep
  <2>1. open' = open /\ misses' = misses
    BY <1>0, <1>6, GitlabSteps DEF HandlerVars
  <2>2. bot' = bot /\ human' = human /\ new' = new
    <3>1. \/ UNCHANGED <<sent, pending>>
          \/ \E p \in MrPayload : Sent(p) /\ p.object_kind = "merge_request"
      BY <1>0, <1>6, GitlabSteps
    <3> QED
      BY <1>4, <1>5, <3>1 DEF Payload
  <2> HIDE DEF bot, human, open, new
  <2> QED
    BY <1>2, <1>3, <2>1, <2>2
<1>7. CASE /\ \E p \in NotePayload : Sent(p) /\ p.object_kind = "note" /\ p.author = "human"
           /\ UNCHANGED <<mr, HandlerVars>>
  <2>1. open' = open /\ misses' = misses
    BY <1>7 DEF HandlerVars
  <2>2. bot' = bot /\ human' = human + 1 /\ new' = new + 1
    BY <1>5, <1>7 DEF Payload
  <2> HIDE DEF bot, human, open, new
  <2> QED
    BY <1>1, <1>2, <1>3, <2>1, <2>2, <1>0
<1>8. ASSUME NEW i \in 1..Len(sent), i \in unanswered, unanswered' = unanswered \ {i},
             \/ \E p \in NotePayload : Sent(p) /\ p.object_kind = "note" /\ p.author = "bot"
             \/ UNCHANGED <<sent, pending>>,
             UNCHANGED <<mr, events, botUser, failures, misses>>
      PROVE  Balanced'
  <2>1. open' = open - 1 /\ misses' = misses
    BY <1>1, <1>8, OneLess
  <2>2. bot' \in {bot, bot + 1} /\ human' = human /\ new' = new
    BY <1>4, <1>5, <1>8 DEF Payload
  <2>3. bot + (open - 1) + new <= human + misses /\ (bot + 1) + (open - 1) + new <= human + misses
    <3> HIDE DEF bot, human, open, new
    <3> QED
      BY <1>0, <1>1, <1>2
  <2> HIDE DEF bot, human, open, new
  <2> QED
    BY <1>3, <2>1, <2>2, <2>3
<1>9. ASSUME NEW i \in 1..Len(sent), Deliver(i) PROVE Balanced'
  <2>1. /\ i \in pending /\ i \notin unanswered /\ pending' = pending \ {i}
        /\ UNCHANGED <<mr, sent>>
    BY <1>0, <1>9 DEF Deliver, gitlabVars, TypeOK
  <2>2. NotesBy("bot")' = NotesBy("bot") /\ NotesBy("human")' = NotesBy("human")
    BY <2>1 DEF NotesBy
  <2>3. NewNotes' = NewNotes \ {i}
    BY <2>1, <2>2 DEF NewNotes
  <2>4. bot' = bot /\ human' = human
    BY <2>2
  <2>5. CASE sent[i].object_kind = "merge_request"
    <3>1. misses' = misses /\ unanswered' = unanswered
      BY <1>9, <2>5 DEF Deliver
    <3>2. NewNotes' = NewNotes
      BY <2>3, <2>5 DEF NewNotes, NotesBy
    <3>3. open' = open /\ new' = new
      BY <3>1, <3>2
    <3> HIDE DEF bot, human, open, new
    <3> QED
      BY <1>2, <1>3, <2>4, <3>1, <3>3
  <2>6. CASE sent[i].object_kind = "note"
    <3>1. /\ LookUpUser
          /\ IF ParseNote(sent[i], botUser')
             THEN events' = events \cup {i} /\ unanswered' = unanswered \cup {i}
             ELSE UNCHANGED <<events, unanswered>>
      BY <1>9, <2>6 DEF Deliver
    <3>2. misses' \in Nat /\ misses' >= misses /\ (botUser' # TRUE => misses' = misses + 1)
      BY <1>0, <3>1, LookUps
    <3>3. open' = open \/ (open' = open + 1 /\ ParseNote(sent[i], botUser'))
      BY <1>1, <2>1, <3>1, OneMore
    <3>4. CASE sent[i].author = "human"
      <4>1. i \in NewNotes
        BY <2>1, <2>6, <3>4 DEF NewNotes, NotesBy
      <4>2. new' = new - 1
        BY <1>1, <2>3, <4>1, OneLess
      <4> HIDE DEF bot, human, open, new
      <4> QED
        BY <1>0, <1>1, <1>2, <1>3, <2>4, <3>2, <3>3, <4>2
    <3>5. CASE sent[i].author # "human"
      <4>1. NewNotes' = NewNotes
        BY <2>3, <3>5 DEF NewNotes, NotesBy
      <4>2. new' = new
        BY <4>1
      <4>3. sent[i].author = "bot"
        BY <1>0, <2>6, <3>5 DEF TypeOK, MrPayload, NotePayload
      <4>4. open' = open \/ (open' = open + 1 /\ misses' = misses + 1)
        <5>1. ParseNote(sent[i], botUser') => botUser' # TRUE
          BY <4>3 DEF ParseNote
        <5> QED
          BY <3>2, <3>3, <5>1
      <4> HIDE DEF bot, human, open, new
      <4> QED
        BY <1>0, <1>1, <1>2, <1>3, <2>4, <3>2, <4>2, <4>4
    <3> QED
      BY <3>4, <3>5
  <2> QED
    BY <1>9, <2>5, <2>6 DEF Deliver
<1>10. CASE Restart \/ UNCHANGED vars
  <2>1. UNCHANGED <<sent, pending, unanswered, misses>>
    BY <1>10 DEF Restart, vars, gitlabVars
  <2> QED
    BY <1>0, <2>1 DEF Balanced, NotesBy, NewNotes
<1> QED
  BY <1>0, <1>6, <1>7, <1>8, <1>9, <1>10, Senders

\* However many notes are written, delivered late or while the bot's user
\* cannot be looked up: the bot writes no more notes than humans have written,
\* plus one for each lookup that failed (app.py:100-112).
THEOREM BotTalkIsBounded == Spec => []BotDoesNotTalkToItself
<1>1. BalanceInv => BotDoesNotTalkToItself
  <2> SUFFICES ASSUME BalanceInv PROVE BotDoesNotTalkToItself
    OBVIOUS
  <2>1. TypeOK /\ misses \in Nat /\ Balanced
    BY DEF BalanceInv, RequestInv, TypeOK
  <2> QED
    BY <2>1, NotesAreFinite DEF Balanced, BotDoesNotTalkToItself
<1> QED
  BY <1>1, BalanceStart, BalanceStep, PTL DEF Spec
=============================================================================
