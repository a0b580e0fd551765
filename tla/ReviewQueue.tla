----------------------------- MODULE ReviewQueue -----------------------------
(***************************************************************************)
(* What the work queue promises, without rows or ids: a merge request has  *)
(* at most one full review to do and, when it has none, a set of threads   *)
(* to answer; the commits already reviewed are remembered.                 *)
(***************************************************************************)
CONSTANTS
  Mrs,            \* merge requests
  Shas,           \* commits
  Threads,        \* what a reply may ask about
  SameThread(_,_),\* SameThread(t, u): a request about t replaces one about u
  NoReview        \* there is no full review to do

VARIABLES
  full,           \* merge request -> NoReview or [sha, phase]
  replies,        \* merge request -> thread -> phase of the answer
  reviewed        \* merge request -> commits whose review completed

queueVars == <<full, replies, reviewed>>

Phases == {"queued", "running"}
NoReplies == [t \in Threads |-> "idle"]

Init ==
  /\ full = [mr \in Mrs |-> NoReview]
  /\ replies = [mr \in Mrs |-> NoReplies]
  /\ reviewed = [mr \in Mrs |-> {}]

\* A commit is to be reviewed: it replaces whatever was pending.
RequestReview(mr, sha) ==
  /\ sha \notin reviewed[mr]
  /\ full[mr] # NoReview => full[mr].sha # sha
  /\ full' = [full EXCEPT ![mr] = [sha |-> sha, phase |-> "queued"]]
  /\ replies' = [replies EXCEPT ![mr] = NoReplies]
  /\ UNCHANGED reviewed

\* A reply is to be answered, unless a full review will look at it anyway.
RequestReply(mr, thread) ==
  /\ full[mr] = NoReview
  /\ replies' = [replies EXCEPT ![mr] = [t \in Threads |->
       IF t = thread THEN "queued" ELSE IF SameThread(thread, t) THEN "idle" ELSE @[t]]]
  /\ UNCHANGED <<full, reviewed>>

StartReview(mr) ==
  /\ full[mr] # NoReview /\ full[mr].phase = "queued"
  /\ full' = [full EXCEPT ![mr].phase = "running"]
  /\ UNCHANGED <<replies, reviewed>>

\* Replies wait for the full reviews of every merge request.
StartReply(mr, thread) ==
  /\ \A m \in Mrs : full[m] # NoReview => full[m].phase = "running"
  /\ replies[mr][thread] = "queued"
  /\ replies' = [replies EXCEPT ![mr][thread] = "running"]
  /\ UNCHANGED <<full, reviewed>>

\* A review that ends without completing may be requested again.
EndReview(mr, completed) ==
  /\ full[mr] # NoReview /\ full[mr].phase = "running"
  /\ full' = [full EXCEPT ![mr] = NoReview]
  /\ reviewed' = [reviewed EXCEPT ![mr] = IF completed THEN @ \cup {full[mr].sha} ELSE @]
  /\ UNCHANGED replies

EndReply(mr, thread) ==
  /\ replies[mr][thread] = "running"
  /\ replies' = [replies EXCEPT ![mr][thread] = "idle"]
  /\ UNCHANGED <<full, reviewed>>

Next ==
  \E mr \in Mrs :
    \/ \E sha \in Shas : RequestReview(mr, sha)
    \/ StartReview(mr)
    \/ \E completed \in BOOLEAN : EndReview(mr, completed)
    \/ \E t \in Threads : RequestReply(mr, t) \/ StartReply(mr, t) \/ EndReply(mr, t)

Spec == Init /\ [][Next]_queueVars
=============================================================================
