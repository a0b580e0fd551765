--------------------------- MODULE CouncilProofs ---------------------------
(***************************************************************************)
(* Safety of the council for every set of findings, every similarity of    *)
(* findings and whatever the two CLIs answer.                              *)
(***************************************************************************)
EXTENDS Council, TLAPS

Reviewing == pc \in {"collect", "raising"}
Synthesizing == pc \in {"synthesis", "fallback"}

\* A call in progress is the one its phase is waiting for.
TasksFit ==
  /\ Reviewing => \A p \in Providers : cli[p].task = "review"
  /\ Synthesizing => cli[Synthesizer].task = "synthesis"

AnswersFit ==
  \A p \in Providers : cli[p].state = "answered" =>
    \/ cli[p].task = "review" /\ cli[p].answer \in Seq(Findings)
    \/ cli[p].task = "synthesis" /\ cli[p].answer \in Seq(Attributed) \cup {Invalid}

\* Which CLIs are known to have ended.
IdleCalls ==
  /\ pc = "collect" => \A p \in collected : ~Running(p)
  /\ Synthesizing => ~Running(Other(Synthesizer))
  /\ pc \in {"reconcile", "done", "failed"} => \A p \in Providers : ~Running(p)

\* A provider is in the list of failures when it was collected without a review.
FailuresFit ==
  /\ pc = "collect" => \A p \in Providers :
       /\ p \in collected => (p \in failures <=> results[p] = None)
       /\ p \notin collected => p \notin failures /\ results[p] = None
  /\ Synthesizing \/ pc = "reconcile" => failures = {} /\ \A p \in Providers : results[p] # None
  /\ DegradedResultSaysSo

\* The findings dealt with so far are covered.
FindingsKept ==
  /\ pc \notin {"reconcile", "done", "failed"} => \A p \in Providers : dealt[p] = 0
  /\ pc = "reconcile" => \A p \in Providers :
       /\ dealt[p] <= Len(results[p])
       /\ \A i \in 1..dealt[p] : FindingIsCovered(p, results[p][i])
  /\ NoFindingIsDropped

CouncilInv ==
  TypeOK /\ TasksFit /\ AnswersFit /\ IdleCalls /\ FailuresFit /\ FindingsKept
-----------------------------------------------------------------------------
\* The other provider is one of the two.
LEMMA OtherIsProvider ==
  \A p \in Providers : Other(p) \in Providers /\ Other(p) # p /\ Providers = {p, Other(p)}
  BY DEF Providers, Other

\* What a synthesizer returns is a list of findings with sources.
LEMMA SynthesesAreAttributed == Syntheses \subseteq Seq(Attributed)
<1>1. SUFFICES ASSUME NEW s \in Syntheses PROVE s \in Seq(Attributed)
  OBVIOUS
<1>2. s \in Seq({a \in Attributed : a.sources # {}})
  BY CouncilAssumption
<1>3. QED BY <1>2

\* The findings of one review are a result of the council.
LEMMA AloneIsAttributed ==
  ASSUME NEW review \in Seq(Findings) PROVE Alone(review) \in Seq(Attributed)
<1>1. \A i \in DOMAIN review : [about |-> review[i], sources |-> {}] \in Attributed
  BY DEF Attributed
<1>2. QED BY <1>1 DEF Alone

\* The first call of a task is a call.
LEMMA StartIsCall ==
  ASSUME NEW task \in {"review", "synthesis"} PROVE Start(task) \in Call
  BY DEF Start, Call

\* The council begins with nothing dealt with and both reviews running.
LEMMA CouncilInit == Init => CouncilInv
<1>1. Start("review") \in Call
  BY StartIsCall
<1>2. Init => TypeOK
  BY <1>1 DEF Init, TypeOK, Pcs
<1>3. Init => TasksFit /\ AnswersFit /\ IdleCalls
  BY DEF Init, TasksFit, AnswersFit, IdleCalls, Reviewing, Synthesizing, Start
<1>4. Init => FailuresFit /\ FindingsKept
  BY DEF Init, FailuresFit, FindingsKept, DegradedResultSaysSo, NoFindingIsDropped, Synthesizing
<1>5. QED BY <1>2, <1>3, <1>4 DEF CouncilInv
-----------------------------------------------------------------------------
\* The end of a call, or its second attempt, changes nothing but the call.
LEMMA CallInvStep ==
  ASSUME CouncilInv, NEW p \in Providers, Running(p),
         NEW c \in Call, cli' = [cli EXCEPT ![p] = c], c.task = cli[p].task,
         c.state = "answered" =>
           \/ c.task = "review" /\ c.answer \in Seq(Findings)
           \/ c.task = "synthesis" /\ c.answer \in Seq(Attributed) \cup {Invalid},
         UNCHANGED <<pc, primary, collected, results, failures, findings, dealt>>
  PROVE  CouncilInv'
<1>1. TypeOK'
  BY DEF CouncilInv, TypeOK
<1>2. cli'[p] = c /\ \A q \in Providers \ {p} : cli'[q] = cli[q]
  BY DEF CouncilInv, TypeOK
<1>3. Synthesizer \in Providers /\ Other(Synthesizer) \in Providers
  BY OtherIsProvider DEF CouncilInv, TypeOK, Synthesizer
<1>4. TasksFit'
  BY <1>2, <1>3 DEF CouncilInv, TasksFit, Reviewing, Synthesizing, Synthesizer
<1>5. AnswersFit'
  BY <1>2 DEF CouncilInv, AnswersFit
<1>6. IdleCalls'
  BY <1>2, <1>3 DEF CouncilInv, TypeOK, IdleCalls, Synthesizing, Synthesizer, Running
<1>7. FailuresFit'
  BY DEF CouncilInv, FailuresFit, DegradedResultSaysSo, Synthesizing
<1>8. FindingsKept'
  BY DEF CouncilInv, FindingsKept, NoFindingIsDropped, FindingIsCovered
<1>9. QED BY <1>1, <1>4, <1>5, <1>6, <1>7, <1>8 DEF CouncilInv

LEMMA CliStepInv ==
  ASSUME CouncilInv, NEW p \in Providers, CliStep(p) PROVE CouncilInv'
<1>1. cli[p] \in Call
  BY DEF CouncilInv, TypeOK
<1> DEFINE Ended(state, answer) == [cli[p] EXCEPT !.state = state, !.answer = answer]
<1>2. ASSUME NEW state \in {"answered", "failed"}, NEW answer, Ends(p, state, answer),
             answer \in Seq(Findings) \cup Seq(Attributed) \cup {None, Invalid},
             state = "answered" =>
               \/ cli[p].task = "review" /\ answer \in Seq(Findings)
               \/ cli[p].task = "synthesis" /\ answer \in Seq(Attributed) \cup {Invalid}
      PROVE  CouncilInv'
  <2>1. Ended(state, answer) \in Call
    BY <1>1, <1>2 DEF Call
  <2>2. /\ Ended(state, answer).task = cli[p].task
        /\ Ended(state, answer).state = state
        /\ Ended(state, answer).answer = answer
    BY <1>1 DEF Call
  <2>3. cli' = [cli EXCEPT ![p] = Ended(state, answer)]
    BY <1>1, <1>2 DEF Ends, CouncilInv, TypeOK, Call
  <2>4. Running(p) /\ UNCHANGED <<pc, primary, collected, results, failures, findings, dealt>>
    BY <1>2 DEF Ends
  <2> HIDE DEF Ended
  <2>5. QED BY <1>2, <2>1, <2>2, <2>3, <2>4, CallInvStep
<1>3. CASE Answer(p)
  <2>1. PICK answer \in IF cli[p].task = "review" THEN Reviews ELSE Syntheses :
          Ends(p, "answered", answer)
    BY <1>3 DEF Answer
  <2>2. \/ cli[p].task = "review" /\ answer \in Seq(Findings)
        \/ cli[p].task = "synthesis" /\ answer \in Seq(Attributed)
    BY <1>1, <2>1, CouncilAssumption, SynthesesAreAttributed DEF Call
  <2>3. QED BY <1>2, <2>1, <2>2
<1>4. CASE AnswerInvalid(p)
  <2>1. CASE cli[p].task = "review"
    BY <1>2, <1>4, <2>1 DEF AnswerInvalid
  <2>2. CASE cli[p].task = "synthesis"
    BY <1>2, <1>4, <2>2 DEF AnswerInvalid
  <2>3. QED BY <1>1, <2>1, <2>2 DEF Call
<1>5. CASE Retry(p)
  <2> DEFINE again == [cli[p] EXCEPT !.attempt = 2]
  <2>1. again \in Call /\ again.task = cli[p].task /\ again.state = cli[p].state
    BY <1>1 DEF Call
  <2>2. cli' = [cli EXCEPT ![p] = again]
    BY <1>1, <1>5 DEF Retry, CouncilInv, TypeOK, Call
  <2>3. Running(p) /\ UNCHANGED <<pc, primary, collected, results, failures, findings, dealt>>
    BY <1>5 DEF Retry
  <2>4. again.state # "answered"
    BY <2>1, <2>3 DEF Running
  <2> HIDE DEF again
  <2>5. QED BY <2>1, <2>2, <2>3, <2>4, CallInvStep
<1>6. CASE Fail(p)
  BY <1>2, <1>6 DEF Fail
<1>7. QED BY <1>3, <1>4, <1>5, <1>6 DEF CliStep
-----------------------------------------------------------------------------
\* A step of the council starts with these facts.
LEMMA Known ==
  ASSUME CouncilInv
  PROVE  /\ TypeOK /\ TasksFit /\ AnswersFit /\ IdleCalls /\ FailuresFit /\ FindingsKept
         /\ primary \in Providers
         /\ Synthesizer \in Providers /\ Other(Synthesizer) \in Providers
         /\ Providers = {Synthesizer, Other(Synthesizer)}
         /\ Other(primary) \in Providers /\ Providers = {primary, Other(primary)}
         /\ Other(Other(primary)) = primary
<1>1. primary \in Providers
  BY DEF CouncilInv, TypeOK
<1>2. QED BY <1>1, OtherIsProvider DEF CouncilInv, Synthesizer, Other, Providers

\* The council raises: nothing is promised any more but that all calls are over.
LEMMA RaiseInv ==
  ASSUME CouncilInv, \A p \in Providers : ~Running(p), pc' = "failed", failures' \subseteq Providers,
         UNCHANGED <<primary, cli, collected, results, findings, dealt>>
  PROVE  CouncilInv'
<1>1. TypeOK'
  BY DEF CouncilInv, TypeOK, Pcs
<1>2. TasksFit' /\ AnswersFit' /\ IdleCalls'
  BY DEF CouncilInv, TasksFit, AnswersFit, IdleCalls, Reviewing, Synthesizing, Running
<1>3. FailuresFit' /\ FindingsKept'
  BY DEF CouncilInv, FailuresFit, FindingsKept, Synthesizing, DegradedResultSaysSo, NoFindingIsDropped
<1>4. QED BY <1>1, <1>2, <1>3 DEF CouncilInv

\* Collecting a review or a failure.
LEMMA CollectInv ==
  ASSUME CouncilInv, NEW p \in Providers, CollectResult(p) \/ CollectFailure(p) PROVE CouncilInv'
<1>1. pc = "collect" /\ p \notin collected /\ ~Running(p) /\ collected' = collected \cup {p}
      /\ UNCHANGED <<pc, primary, cli, findings, dealt>>
  BY DEF CollectResult, CollectFailure, Finished
<1>2. \/ failures' = failures /\ results' = [results EXCEPT ![p] = cli[p].answer] /\ cli[p].state = "answered"
      \/ failures' = failures \cup {p} /\ results' = results
  BY DEF CollectResult, CollectFailure
<1>3. cli[p].state = "answered" => cli[p].answer \in Seq(Findings) /\ cli[p].answer # None
  BY <1>1, CouncilAssumption DEF CouncilInv, TasksFit, AnswersFit, Reviewing
<1>4. TypeOK'
  BY <1>1, <1>2, <1>3 DEF CouncilInv, TypeOK
<1>5. TasksFit' /\ AnswersFit' /\ IdleCalls'
  BY <1>1 DEF CouncilInv, TasksFit, AnswersFit, IdleCalls, Reviewing, Synthesizing, Running
<1>6. results \in [Providers -> Seq(Findings) \cup {None}]
  BY DEF CouncilInv, TypeOK
<1>7. FailuresFit'
  BY <1>1, <1>2, <1>3, <1>6 DEF CouncilInv, FailuresFit, DegradedResultSaysSo, Synthesizing
<1>8. FindingsKept'
  BY <1>1 DEF CouncilInv, FindingsKept, NoFindingIsDropped
<1>9. QED BY <1>4, <1>5, <1>7, <1>8 DEF CouncilInv

\* The exception waits in the executor for the other call.
LEMMA RaiseOnFailureInv ==
  ASSUME CouncilInv, NEW p \in Providers, RaiseOnFailure(p) PROVE CouncilInv'
<1>1. TypeOK'
  BY DEF CouncilInv, TypeOK, RaiseOnFailure, Pcs
<1>2. TasksFit' /\ AnswersFit' /\ IdleCalls'
  BY DEF CouncilInv, TasksFit, AnswersFit, IdleCalls, Reviewing, Synthesizing, RaiseOnFailure, Finished
<1>3. FailuresFit' /\ FindingsKept'
  BY DEF CouncilInv, FailuresFit, FindingsKept, Synthesizing, DegradedResultSaysSo,
         NoFindingIsDropped, RaiseOnFailure, Finished
<1>4. QED BY <1>1, <1>2, <1>3 DEF CouncilInv

\* When both futures have been yielded no call runs.
LEMMA CollectedIsIdle ==
  ASSUME CouncilInv, AllCollected PROVE \A p \in Providers : ~Running(p)
  BY DEF AllCollected, CouncilInv, IdleCalls

\* The result is the review of one provider, and the other one is named.
LEMMA SkipSynthesisInv ==
  ASSUME CouncilInv, SkipSynthesis PROVE CouncilInv'
<1>1. PICK p \in Providers : /\ results[p] = None /\ results[Other(p)] # None
                             /\ findings' = Alone(results[Other(p)])
  BY DEF SkipSynthesis
<1>2. pc = "collect" /\ collected = Providers /\ pc' = "done"
      /\ UNCHANGED <<primary, cli, collected, results, failures, dealt>>
  BY DEF SkipSynthesis, AllCollected
<1>3. Other(p) \in Providers /\ Other(p) # p /\ Providers = {p, Other(p)}
  BY OtherIsProvider
<1>4. failures = {p}
  BY <1>1, <1>2, <1>3 DEF CouncilInv, TypeOK, FailuresFit
<1>5. findings' \in Seq(Attributed)
  BY <1>1, <1>3, AloneIsAttributed DEF CouncilInv, TypeOK
<1>6. TypeOK'
  BY <1>2, <1>5 DEF CouncilInv, TypeOK, Pcs
<1>7. \A q \in Providers : ~Running(q)
  BY CollectedIsIdle DEF SkipSynthesis
<1>8. TasksFit' /\ AnswersFit' /\ IdleCalls'
  BY <1>2, <1>7 DEF CouncilInv, TasksFit, AnswersFit, IdleCalls, Reviewing, Synthesizing, Running
<1>9. DegradedResultSaysSo'
  BY <1>1, <1>2, <1>3, <1>4 DEF DegradedResultSaysSo, Alone
<1>10. FailuresFit' /\ FindingsKept'
  BY <1>2, <1>4, <1>9 DEF CouncilInv, FailuresFit, FindingsKept, Synthesizing, NoFindingIsDropped
<1>11. QED BY <1>6, <1>8, <1>10 DEF CouncilInv

\* A synthesis starts while no other call runs.
LEMMA StartCallInv ==
  ASSUME CouncilInv, StartSynthesis \/ FallBack PROVE CouncilInv'
<1>1. pc' = "synthesis" \/ pc' = "fallback"
  BY DEF StartSynthesis, FallBack
<1>2. primary' = primary /\ UNCHANGED <<collected, results, failures, findings, dealt>>
  BY DEF StartSynthesis, FallBack
<1>3. Synthesizer' \in Providers /\ Other(Synthesizer') = Other(Synthesizer)'
  BY <1>1, <1>2, Known DEF Synthesizer, Other
<1>4. cli' = [cli EXCEPT ![Synthesizer'] = Start("synthesis")]
  BY <1>2 DEF StartSynthesis, FallBack, Synthesizer
<1>5. Start("synthesis") \in Call /\ Start("synthesis").task = "synthesis"
      /\ Start("synthesis").state = "running"
  BY StartIsCall DEF Start
<1>6. cli \in [Providers -> Call]
  BY DEF CouncilInv, TypeOK
<1>7. cli'[Synthesizer'] = Start("synthesis")
      /\ \A q \in Providers \ {Synthesizer'} : cli'[q] = cli[q]
  BY <1>3, <1>4, <1>6
<1>8. TypeOK'
  BY <1>1, <1>2, <1>3, <1>4, <1>5 DEF CouncilInv, TypeOK, Pcs
<1>9. ~Running(Other(Synthesizer'))
  <2>1. CASE StartSynthesis
    BY <2>1, <1>3, OtherIsProvider, CollectedIsIdle DEF StartSynthesis
  <2>2. CASE FallBack
    BY <2>2, <1>2, Known DEF FallBack, Synthesizer, Running
  <2>3. QED BY <2>1, <2>2
<1>10. TasksFit'
  BY <1>1, <1>5, <1>7 DEF TasksFit, Reviewing, Synthesizing
<1>11. AnswersFit'
  BY <1>5, <1>7 DEF CouncilInv, AnswersFit
<1>12. Other(Synthesizer') \in Providers /\ Other(Synthesizer') # Synthesizer'
  BY <1>3, OtherIsProvider
<1>13. cli'[Other(Synthesizer')] = cli[Other(Synthesizer')]
  BY <1>7, <1>12
<1>14. IdleCalls'
  BY <1>1, <1>3, <1>9, <1>13 DEF IdleCalls, Synthesizing, Running
<1>15. failures = {} /\ \A p \in Providers : results[p] # None
  BY DEF CouncilInv, TypeOK, FailuresFit, StartSynthesis, FallBack, AllCollected, Synthesizing
<1>16. FailuresFit'
  BY <1>1, <1>2, <1>15 DEF FailuresFit, DegradedResultSaysSo
<1>17. FindingsKept'
  BY <1>1, <1>2 DEF CouncilInv, FindingsKept, NoFindingIsDropped, StartSynthesis, FallBack, AllCollected
<1>18. QED BY <1>8, <1>10, <1>11, <1>14, <1>16, <1>17 DEF CouncilInv

\* When the synthesizer has ended no call runs.
LEMMA SynthesizedIsIdle ==
  ASSUME CouncilInv, Synthesizing, ~Running(Synthesizer) PROVE \A p \in Providers : ~Running(p)
  BY Known DEF IdleCalls, Running

LEMMA TakeSynthesisInv ==
  ASSUME CouncilInv, TakeSynthesis PROVE CouncilInv'
<1>1. Synthesizing /\ cli[Synthesizer].state = "answered" /\ cli[Synthesizer].answer # Invalid
      /\ findings' = cli[Synthesizer].answer /\ pc' = "reconcile"
      /\ UNCHANGED <<primary, cli, collected, results, failures, dealt>>
  BY DEF TakeSynthesis, Synthesizing
<1>2. findings' \in Seq(Attributed)
  BY <1>1, Known DEF TasksFit, AnswersFit
<1>3. TypeOK'
  BY <1>1, <1>2 DEF CouncilInv, TypeOK, Pcs
<1>4. \A p \in Providers : ~Running(p)
  BY <1>1, SynthesizedIsIdle DEF Running
<1>5. TasksFit' /\ AnswersFit' /\ IdleCalls'
  BY <1>1, <1>4 DEF CouncilInv, TasksFit, AnswersFit, IdleCalls, Reviewing, Synthesizing, Running
<1>6. FailuresFit'
  BY <1>1 DEF CouncilInv, FailuresFit, DegradedResultSaysSo, Synthesizing
<1>7. \A p \in Providers : dealt[p] = 0 /\ results[p] \in Seq(Findings)
  BY <1>1 DEF CouncilInv, TypeOK, FindingsKept, FailuresFit, Synthesizing
<1>8. FindingsKept'
  BY <1>1, <1>7 DEF FindingsKept, NoFindingIsDropped
<1>9. QED BY <1>3, <1>5, <1>6, <1>8 DEF CouncilInv
-----------------------------------------------------------------------------
\* The finding to be dealt with is one of the review's.
LEMMA BaseIsFinding ==
  ASSUME CouncilInv, NEW p \in Providers, Turn(p) PROVE Base(p) \in Findings
<1>1. results[p] \in Seq(Findings) /\ dealt[p] \in Nat /\ dealt[p] < Len(results[p])
  BY DEF Turn, CouncilInv, TypeOK, FailuresFit
<1>2. QED BY <1>1 DEF Base

\* One finding is dealt with: it is covered, and what was covered stays so.
LEMMA DealtInv ==
  ASSUME CouncilInv, NEW p \in Providers, Turn(p), Dealt(p),
         findings' \in Seq(Attributed),
         \A q \in Providers, f \in Findings : FindingIsCovered(q, f) => FindingIsCovered(q, f)',
         NEW base \in Findings, base = Base(p), FindingIsCovered(p, base)',
         UNCHANGED <<pc, primary, cli, collected, results, failures>>
  PROVE  CouncilInv'
<1>1. pc = "reconcile" /\ dealt[p] < Len(results[p])
      /\ dealt' = [dealt EXCEPT ![p] = @ + 1]
  BY DEF Turn, Dealt
<1>2. \A q \in Providers : results[q] \in Seq(Findings) /\ dealt[q] \in Nat
  BY <1>1 DEF CouncilInv, TypeOK, FailuresFit
<1>3. dealt \in [Providers -> Nat]
  BY DEF CouncilInv, TypeOK
<1>4. TypeOK'
  BY <1>1, <1>3 DEF CouncilInv, TypeOK
<1>5. TasksFit' /\ AnswersFit' /\ IdleCalls'
  BY <1>1 DEF CouncilInv, TasksFit, AnswersFit, IdleCalls, Reviewing, Synthesizing, Running
<1>6. FailuresFit'
  BY <1>1 DEF CouncilInv, FailuresFit, DegradedResultSaysSo, Synthesizing
<1>7. ASSUME NEW q \in Providers
      PROVE  /\ dealt'[q] <= Len(results[q])
             /\ \A i \in 1..dealt'[q] : FindingIsCovered(q, results[q][i])'
  <2>1. /\ dealt[q] <= Len(results[q])
        /\ \A i \in 1..dealt[q] : FindingIsCovered(q, results[q][i])
    BY <1>1 DEF CouncilInv, FindingsKept
  <2>2. \A i \in 1..Len(results[q]) : results[q][i] \in Findings
    BY <1>2
  <2>3. \A i \in 1..dealt[q] : FindingIsCovered(q, results[q][i])'
    <3>1. TAKE i \in 1..dealt[q]
    <3>2. results[q][i] \in Findings /\ FindingIsCovered(q, results[q][i])
      BY <1>2, <2>1, <2>2
    <3>3. results'[q][i] = results[q][i]
      OBVIOUS
    <3>4. QED BY <3>2, <3>3 DEF FindingIsCovered
  <2>4. CASE q = p
    <3>1. dealt'[p] = dealt[p] + 1
      BY <1>1, <1>3
    <3>2. base = results[p][dealt[p] + 1]
      BY DEF Base
    <3>3. \A i \in 1..dealt'[p] : FindingIsCovered(p, results[p][i])'
      <4>1. TAKE i \in 1..dealt'[p]
      <4>2. i \in 1..dealt[p] \/ i = dealt[p] + 1
        BY <1>2, <3>1
      <4>3. CASE i \in 1..dealt[p]
        BY <2>3, <2>4, <4>3
      <4>4. CASE i = dealt[p] + 1
        <5>1. results'[p][i] = base
          BY <3>2, <4>4
        <5>2. QED BY <2>4, <5>1 DEF FindingIsCovered
      <4>5. QED BY <4>2, <4>3, <4>4
    <3>4. dealt'[p] <= Len(results[p])
      BY <1>1, <1>2, <3>1
    <3>5. QED BY <2>4, <3>3, <3>4
  <2>5. CASE q # p
    BY <1>1, <1>3, <2>1, <2>3, <2>5
  <2>6. QED BY <2>4, <2>5
<1>8. FindingsKept'
  BY <1>1, <1>7 DEF FindingsKept, NoFindingIsDropped
<1>9. QED BY <1>4, <1>5, <1>6, <1>8 DEF CouncilInv


\* The finding that matches gets the provider, and loses none.
LEMMA MergeAttributionInv ==
  ASSUME CouncilInv, NEW p \in Providers, MergeAttribution(p) PROVE CouncilInv'
<1>1. PICK i \in Covering(Base(p)) :
        findings' = [findings EXCEPT ![i].sources = @ \cup {p}]
  BY DEF MergeAttribution
<1>2. Turn(p) /\ Dealt(p) /\ UNCHANGED <<pc, primary, cli, collected, results, failures>>
  BY DEF MergeAttribution
<1>3. findings \in Seq(Attributed)
  BY DEF CouncilInv, TypeOK
<1>4. i \in DOMAIN findings /\ findings_match(findings[i].about, Base(p))
  BY <1>1 DEF Covering
<1>5. findings[i] \in Attributed
  BY <1>3, <1>4
<1> DEFINE merged == [findings[i] EXCEPT !.sources = @ \cup {p}]
<1>6. merged \in Attributed /\ merged.about = findings[i].about
      /\ merged.sources = findings[i].sources \cup {p}
  BY <1>5 DEF Attributed
<1>7. findings' = [findings EXCEPT ![i] = merged]
  BY <1>1
<1> HIDE DEF merged
<1>8. findings' \in Seq(Attributed) /\ DOMAIN findings' = DOMAIN findings
      /\ findings'[i] = merged
      /\ \A j \in DOMAIN findings \ {i} : findings'[j] = findings[j]
  BY <1>3, <1>4, <1>6, <1>7
<1>9. ASSUME NEW q \in Providers, NEW f \in Findings, FindingIsCovered(q, f)
      PROVE  FindingIsCovered(q, f)'
  <2>1. PICK j \in DOMAIN findings :
          findings_match(findings[j].about, f) /\ q \in findings[j].sources
    BY <1>9 DEF FindingIsCovered
  <2>2. findings'[j].about = findings[j].about /\ findings[j].sources \subseteq findings'[j].sources
    BY <1>6, <1>8
  <2>3. QED BY <1>8, <2>1, <2>2 DEF FindingIsCovered
<1>10. PICK base \in Findings : base = Base(p)
  BY <1>2, BaseIsFinding
<1>11. FindingIsCovered(p, base)'
  BY <1>4, <1>6, <1>8, <1>10 DEF FindingIsCovered, findings_match
<1>12. QED BY <1>2, <1>8, <1>9, <1>10, <1>11, DealtInv

\* A finding nothing matches is added, with its provider.
LEMMA PreserveFindingInv ==
  ASSUME CouncilInv, NEW p \in Providers, PreserveFinding(p) PROVE CouncilInv'
<1>1. Turn(p) /\ Dealt(p) /\ UNCHANGED <<pc, primary, cli, collected, results, failures>>
  BY DEF PreserveFinding
<1>2. PICK base \in Findings : base = Base(p)
  BY <1>1, BaseIsFinding
<1> DEFINE added == [about |-> base, sources |-> {p}]
<1>3. added \in Attributed /\ added.about = base /\ added.sources = {p}
  BY DEF Attributed
<1>4. findings' = Append(findings, added)
  BY <1>2 DEF PreserveFinding
<1>5. findings \in Seq(Attributed)
  BY DEF CouncilInv, TypeOK
<1> HIDE DEF added
<1>6. /\ findings' \in Seq(Attributed)
      /\ \A j \in DOMAIN findings : j \in DOMAIN findings' /\ findings'[j] = findings[j]
      /\ Len(findings) + 1 \in DOMAIN findings' /\ findings'[Len(findings) + 1] = added
  BY <1>3, <1>4, <1>5
<1>7. ASSUME NEW q \in Providers, NEW f \in Findings, FindingIsCovered(q, f)
      PROVE  FindingIsCovered(q, f)'
  BY <1>6, <1>7 DEF FindingIsCovered
<1>8. FindingIsCovered(p, base)'
  BY <1>3, <1>6 DEF FindingIsCovered, findings_match
<1>9. QED BY <1>1, <1>2, <1>6, <1>7, <1>8, DealtInv

\* The result is complete when every finding has been dealt with.
LEMMA FinishInv ==
  ASSUME CouncilInv, Finish PROVE CouncilInv'
<1>1. pc = "reconcile" /\ pc' = "done" /\ \A p \in Providers : dealt[p] = Len(results[p])
      /\ UNCHANGED <<primary, cli, collected, results, failures, findings, dealt>>
  BY DEF Finish
<1>2. failures = {} /\ \A p \in Providers : results[p] # None /\ results[p] \in Seq(Findings)
  BY <1>1 DEF CouncilInv, TypeOK, FailuresFit
<1>3. TypeOK'
  BY <1>1 DEF CouncilInv, TypeOK, Pcs
<1>4. TasksFit' /\ AnswersFit' /\ IdleCalls'
  BY <1>1 DEF CouncilInv, TasksFit, AnswersFit, IdleCalls, Reviewing, Synthesizing, Running
<1>5. FailuresFit'
  BY <1>1, <1>2 DEF FailuresFit, DegradedResultSaysSo, Synthesizing, Providers
<1>6. ASSUME NEW p \in Providers, NEW i \in DOMAIN results[p]
      PROVE  FindingIsCovered(p, results[p][i])
  <2>1. i \in 1..dealt[p]
    BY <1>1, <1>2
  <2>2. QED BY <1>1, <2>1 DEF CouncilInv, FindingsKept
<1>7. FindingsKept'
  BY <1>1, <1>6 DEF FindingsKept, NoFindingIsDropped, FindingIsCovered
<1>8. QED BY <1>3, <1>4, <1>5, <1>7 DEF CouncilInv
-----------------------------------------------------------------------------
\* The last steps of a review that fails.
LEMMA FailingInv ==
  ASSUME CouncilInv, LeaveExecutor \/ BothFailed \/ SynthesisFails \/ Raise PROVE CouncilInv'
<1>1. pc' = "failed" /\ UNCHANGED <<primary, cli, collected, results, failures, findings, dealt>>
  BY DEF LeaveExecutor, BothFailed, SynthesisFails, Raise
<1>2. \A p \in Providers : ~Running(p)
  <2>1. CASE LeaveExecutor \/ Raise
    BY <2>1 DEF LeaveExecutor, Raise
  <2>2. CASE BothFailed
    BY <2>2, CollectedIsIdle DEF BothFailed
  <2>3. CASE SynthesisFails
    BY <2>3, SynthesizedIsIdle DEF SynthesisFails, Synthesizing, Running
  <2>4. QED BY <2>1, <2>2, <2>3
<1>3. failures' \subseteq Providers
  BY <1>1 DEF CouncilInv, TypeOK
<1>4. QED BY <1>1, <1>2, <1>3, RaiseInv

LEMMA CouncilStepInv == CouncilInv /\ [Next]_vars => CouncilInv'
<1> SUFFICES ASSUME CouncilInv, [Next]_vars PROVE CouncilInv'
  OBVIOUS
<1>1. ASSUME NEW p \in Providers, CliStep(p) PROVE CouncilInv'
  BY <1>1, CliStepInv
<1>2. ASSUME NEW p \in Providers,
             \/ CollectResult(p) \/ CollectFailure(p) \/ RaiseOnFailure(p)
             \/ MergeAttribution(p) \/ PreserveFinding(p)
      PROVE  CouncilInv'
  BY <1>2, CollectInv, RaiseOnFailureInv, MergeAttributionInv, PreserveFindingInv
<1>3. CASE LeaveExecutor \/ BothFailed \/ SynthesisFails \/ Raise
  BY <1>3, FailingInv
<1>4. CASE SkipSynthesis \/ StartSynthesis \/ FallBack \/ TakeSynthesis \/ Finish
  BY <1>4, SkipSynthesisInv, StartCallInv, TakeSynthesisInv, FinishInv
<1>5. CASE UNCHANGED vars
  BY <1>5 DEF vars, CouncilInv, TypeOK, TasksFit, AnswersFit, IdleCalls, FailuresFit, FindingsKept,
       Reviewing, Synthesizing, Synthesizer, Running, DegradedResultSaysSo, NoFindingIsDropped,
       FindingIsCovered
<1>6. QED BY <1>1, <1>2, <1>3, <1>4, <1>5 DEF Next, CouncilStep

\* The strengthened invariant of a council's review.
THEOREM CouncilInvariant == Spec => []CouncilInv
  BY CouncilInit, CouncilStepInv, PTL DEF Spec

\* Calls, results and failures keep their types, whatever the CLIs answer.
THEOREM CouncilTypeCorrect == Spec => []TypeOK
<1>1. CouncilInv => TypeOK
  BY DEF CouncilInv
<1>2. QED BY <1>1, CouncilInvariant, PTL

\* Every finding of both reviews is in a result of both, credited to the reviewer
\* that raised it, whatever the synthesizer left out (_reconcile_council_findings).
THEOREM FindingsAreNotDropped == Spec => []NoFindingIsDropped
<1>1. CouncilInv => NoFindingIsDropped
  BY DEF CouncilInv, FindingsKept
<1>2. QED BY <1>1, CouncilInvariant, PTL

\* A result of one review names the other reviewer as failed; one of both names
\* nobody (provider_failures).
THEOREM DegradedResultsSaySo == Spec => []DegradedResultSaysSo
<1>1. CouncilInv => DegradedResultSaysSo
  BY DEF CouncilInv, FailuresFit
<1>2. QED BY <1>1, CouncilInvariant, PTL

\* However the review ends, no CLI works in the checkout any more.
THEOREM CallsEndWithTheReview == Spec => []NoCallOutlivesTheReview
<1>1. CouncilInv => NoCallOutlivesTheReview
  BY DEF CouncilInv, IdleCalls, NoCallOutlivesTheReview, Over
<1>2. QED BY <1>1, CouncilInvariant, PTL
=============================================================================
