---------------------------- MODULE MCPublication ----------------------------
EXTENDS Publication, FindingMatch, TLC

CONSTANTS f1, f2, f3, w1, w2

\* One remark at three places of a file, each within three lines of the next, or with the
\* third in another file and in other words.
Handler(at) ==
  [file |-> [path |-> "Api.py", folded |-> "api.py"], line |-> at,
   title |-> {"error", "ignored"}, body |-> {"caller", "never", "learns"} \cup
     (IF at = 10 THEN {"swallowed"} ELSE IF at = 13 THEN {"handler"} ELSE {"result"})]
Retitled(f, words) == [f EXCEPT !.title = words]
Neighbours ==
  f1 :> Handler(10) @@ f2 :> Retitled(Handler(13), {"exception", "lost"})
    @@ f3 :> Retitled(Handler(16), {"failure", "hidden"})
Apart ==
  [Neighbours EXCEPT ![f3] = [file |-> [path |-> "db.py", folded |-> "db.py"], line |-> 10,
                              title |-> {"missing", "index"}, body |-> {"slow", "query"}]]

\* No two findings resemble each other; f1 and f2 do; f1 and f3 do through f2 only.
Unlike == {}
Alike == {{f1, f2}}
Chain == {{f1, f2}, {f2, f3}}
ASSUME Alike = MatchingPairs(Apart) /\ Chain = MatchingPairs(Neighbours)

\* Reports in which no finding resembles another.
Singles == {<<>>, <<f1>>}
Chained == {<<>>, <<f1>>, <<f2>>, <<f3>>, <<f3, f1>>}

\* What the diff changes: no line near a finding, or lines near f1.
Elsewhere == {{}}
Around == {{}, {f1}}

\* Three events of the environment, whichever they are.
ThreeEvents ==
  budget.pushes + budget.replies + budget.humanThreads + budget.resolves + budget.deletions
      + budget.failures
    >= MaxPushes + MaxReplies + MaxHumanThreads + MaxResolves + MaxDeletions + MaxFailures - 3
=============================================================================
