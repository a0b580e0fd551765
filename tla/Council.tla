------------------------------- MODULE Council -------------------------------
(***************************************************************************)
(* One full review by CouncilRunner (review_agent.py): the Codex and the   *)
(* Claude CLI review in two threads, the council collects what they return *)
(* in the order in which they finish, one of them merges the two reviews   *)
(* and the council adds what the merged review left out.  In ReviewService *)
(* and Publication all of this is the step RunAgent.                       *)
(***************************************************************************)
EXTENDS Integers, Sequences

Providers == {"codex", "claude"}
Other(p) == IF p = "codex" THEN "claude" ELSE "codex"

CONSTANTS
  Findings,   \* findings by what they say
  Similar,    \* the pairs {f, g} for which findings_match is true besides f = f
  Reviews,    \* what a reviewer may return: sequences of findings
  Syntheses,  \* what a synthesizer may return: sequences of findings with sources
  None,       \* no answer, no result
  Invalid     \* a JSON object that _parse_review_result_payload refuses

\* A finding of the council's result and the reviewers it is attributed to.
Attributed == [about: Findings, sources: SUBSET Providers]

ASSUME CouncilAssumption ==
  /\ Reviews \subseteq Seq(Findings)
  /\ Syntheses \subseteq Seq({a \in Attributed : a.sources # {}})
  /\ None \notin Seq(Findings) \cup Seq(Attributed)
  /\ Invalid \notin Seq(Findings) \cup Seq(Attributed) \cup {None}

VARIABLES
  pc,         \* where the thread that runs the council stands
  primary,    \* setting COUNCIL_SYNTHESIS_PROVIDER
  cli,        \* provider -> the call of its CLI that runs or ran last
  collected,  \* providers whose future as_completed has yielded
  results,    \* provider -> its review, or None
  failures,   \* provider_failures of the result
  findings,   \* findings of the result
  dealt       \* provider -> findings of its review that were reconciled

vars == <<pc, primary, cli, collected, results, failures, findings, dealt>>
-----------------------------------------------------------------------------
Pcs == {"collect", "raising", "synthesis", "fallback", "reconcile", "done", "failed"}

\* A call makes one or two attempts.
Call == [task: {"review", "synthesis"}, attempt: 1..2,
         state: {"running", "answered", "failed"},
         answer: Seq(Findings) \cup Seq(Attributed) \cup {None, Invalid}]

Start(task) == [task |-> task, attempt |-> 1, state |-> "running", answer |-> None]

Running(p) == cli[p].state = "running"

Over == pc \in {"done", "failed"}

Synthesizer == IF pc = "fallback" THEN Other(primary) ELSE primary

findings_match(f, g) == f = g \/ {f, g} \in Similar

Init ==
  /\ pc = "collect"
  /\ primary \in Providers
  /\ cli = [p \in Providers |-> Start("review")]
  /\ collected = {}
  /\ results = [p \in Providers |-> None]
  /\ failures = {}
  /\ findings = <<>>
  /\ dealt = [p \in Providers |-> 0]
-----------------------------------------------------------------------------
(***************************************************************************)
(* The CLIs.                                                               *)
(***************************************************************************)

\* The attempt of p ends, with its call in the given state.
Ends(p, state, answer) ==
  /\ Running(p)
  /\ cli' = [cli EXCEPT ![p].state = state, ![p].answer = answer]
  /\ UNCHANGED <<pc, primary, collected, results, failures, findings, dealt>>

\* A JSON object with the fields asked for.
Answer(p) ==
  \E answer \in IF cli[p].task = "review" THEN Reviews ELSE Syntheses :
    Ends(p, "answered", answer)

\* A JSON object with the wrong fields fails a review at once; of a synthesis
\* it is looked at only by the council.
AnswerInvalid(p) ==
  IF cli[p].task = "review" THEN Ends(p, "failed", None) ELSE Ends(p, "answered", Invalid)

\* Output that is not JSON is asked for a second time; Claude is also when its
\* CLI fails or times out.
Retry(p) ==
  /\ Running(p)
  /\ cli[p].attempt = 1
  /\ cli' = [cli EXCEPT ![p].attempt = 2]
  /\ UNCHANGED <<pc, primary, collected, results, failures, findings, dealt>>

\* Codex fails or times out, the second attempt is no better, or something else
\* raises: a CLI that cannot be started, a trace or snapshot that cannot be written.
Fail(p) == Ends(p, "failed", None)

CliStep(p) == Answer(p) \/ AnswerInvalid(p) \/ Retry(p) \/ Fail(p)
-----------------------------------------------------------------------------
(***************************************************************************)
(* The council.                                                            *)
(***************************************************************************)

Finished(p) == pc = "collect" /\ p \notin collected /\ ~Running(p)

CollectResult(p) ==
  /\ Finished(p)
  /\ cli[p].state = "answered"
  /\ collected' = collected \cup {p}
  /\ results' = [results EXCEPT ![p] = cli[p].answer]
  /\ UNCHANGED <<pc, primary, cli, failures, findings, dealt>>

CollectFailure_OnlyLogs(p) ==
  /\ Finished(p)
  /\ cli[p].state = "failed"
  /\ collected' = collected \cup {p}
  /\ UNCHANGED <<pc, primary, cli, results, failures, findings, dealt>>

CollectFailure(p) ==
  /\ Finished(p)
  /\ cli[p].state = "failed"
  /\ collected' = collected \cup {p}
  /\ failures' = failures \cup {p}
  /\ UNCHANGED <<pc, primary, cli, results, findings, dealt>>

RaiseOnFailure_AtOnce(p) ==
  /\ Finished(p)
  /\ cli[p].state = "failed"
  /\ pc' = "failed"
  /\ UNCHANGED <<primary, cli, collected, results, failures, findings, dealt>>

\* The failure cannot be written to the trace.  The exception leaves the with
\* block of the executor, which waits for the other thread first.
RaiseOnFailure(p) ==
  /\ Finished(p)
  /\ cli[p].state = "failed"
  /\ pc' = "raising"
  /\ failures' = failures \cup {p}
  /\ UNCHANGED <<primary, cli, collected, results, findings, dealt>>

LeaveExecutor ==
  /\ pc = "raising"
  /\ \A p \in Providers : ~Running(p)
  /\ pc' = "failed"
  /\ UNCHANGED <<primary, cli, collected, results, failures, findings, dealt>>

AllCollected_BothAnswered ==
  pc = "collect" /\ \A p \in Providers : results[p] # None

\* Both futures have been yielded.
AllCollected == pc = "collect" /\ collected = Providers

BothFailed ==
  /\ AllCollected
  /\ \A p \in Providers : results[p] = None
  /\ pc' = "failed"
  /\ UNCHANGED <<primary, cli, collected, results, failures, findings, dealt>>

\* The findings of one review, which are not attributed: a reviewer is asked for
\* no sources.
Alone(review) == [i \in DOMAIN review |-> [about |-> review[i], sources |-> {}]]

\* One reviewer failed: the result is the review of the other.
SkipSynthesis ==
  /\ AllCollected
  /\ \E p \in Providers :
       /\ results[p] = None /\ results[Other(p)] # None
       /\ findings' = Alone(results[Other(p)])
  /\ pc' = "done"
  /\ UNCHANGED <<primary, cli, collected, results, failures, dealt>>

StartSynthesis ==
  /\ AllCollected
  /\ \A p \in Providers : results[p] # None
  /\ pc' = "synthesis"
  /\ cli' = [cli EXCEPT ![primary] = Start("synthesis")]
  /\ UNCHANGED <<primary, collected, results, failures, findings, dealt>>

\* The other provider is tried once.
FallBack ==
  /\ pc = "synthesis"
  /\ cli[primary].state = "failed"
  /\ pc' = "fallback"
  /\ cli' = [cli EXCEPT ![Other(primary)] = Start("synthesis")]
  /\ UNCHANGED <<primary, collected, results, failures, findings, dealt>>

\* The fallback fails too, or the synthesis has the wrong fields.
SynthesisFails ==
  /\ pc \in {"synthesis", "fallback"}
  /\ \/ pc = "fallback" /\ cli[Synthesizer].state = "failed"
     \/ cli[Synthesizer].state = "answered" /\ cli[Synthesizer].answer = Invalid
  /\ pc' = "failed"
  /\ UNCHANGED <<primary, cli, collected, results, failures, findings, dealt>>

TakeSynthesis ==
  /\ pc \in {"synthesis", "fallback"}
  /\ cli[Synthesizer].state = "answered" /\ cli[Synthesizer].answer # Invalid
  /\ findings' = cli[Synthesizer].answer
  /\ pc' = "reconcile"
  /\ UNCHANGED <<primary, cli, collected, results, failures, dealt>>

\* The council raises between two calls, when a trace cannot be written.
Raise ==
  /\ pc \in {"synthesis", "fallback", "reconcile"} \/ AllCollected
  /\ \A p \in Providers : ~Running(p)
  /\ pc' = "failed"
  /\ UNCHANGED <<primary, cli, collected, results, failures, findings, dealt>>
-----------------------------------------------------------------------------
\* _find_covering_finding_index takes the first of these.
Covering(base) == {i \in DOMAIN findings : findings_match(findings[i].about, base)}

Covers(i, base) == i \in Covering(base) /\ \A j \in Covering(base) : i <= j

\* Codex's findings are reconciled before Claude's, each in the order of its review.
Turn(p) ==
  /\ pc = "reconcile"
  /\ dealt[p] < Len(results[p])
  /\ p = "claude" => dealt["codex"] = Len(results["codex"])

Base(p) == results[p][dealt[p] + 1]

Dealt(p) == dealt' = [dealt EXCEPT ![p] = @ + 1]

MergeAttribution_KeepsSources(p) ==
  /\ Turn(p)
  /\ Covering(Base(p)) # {}
  /\ Dealt(p)
  /\ UNCHANGED <<pc, primary, cli, collected, results, failures, findings>>

MergeAttribution(p) ==
  /\ Turn(p)
  /\ \E i \in Covering(Base(p)) :
       /\ Covers(i, Base(p))
       /\ findings' = [findings EXCEPT ![i].sources = @ \cup {p}]
  /\ Dealt(p)
  /\ UNCHANGED <<pc, primary, cli, collected, results, failures>>

PreserveFinding(p) ==
  /\ Turn(p)
  /\ Covering(Base(p)) = {}
  /\ findings' = Append(findings, [about |-> Base(p), sources |-> {p}])
  /\ Dealt(p)
  /\ UNCHANGED <<pc, primary, cli, collected, results, failures>>

Finish ==
  /\ pc = "reconcile"
  /\ \A p \in Providers : dealt[p] = Len(results[p])
  /\ pc' = "done"
  /\ UNCHANGED <<primary, cli, collected, results, failures, findings, dealt>>

CouncilStep ==
  \/ \E p \in Providers :
       \/ CollectResult(p) \/ CollectFailure(p) \/ RaiseOnFailure(p)
       \/ MergeAttribution(p) \/ PreserveFinding(p)
  \/ LeaveExecutor \/ BothFailed \/ SkipSynthesis \/ StartSynthesis \/ FallBack
  \/ SynthesisFails \/ TakeSynthesis \/ Raise \/ Finish

Next == CouncilStep \/ \E p \in Providers : CliStep(p)

Spec == Init /\ [][Next]_vars

\* A CLI ends or is killed after its timeout; the council's thread goes on.
FairSpec == Spec /\ WF_vars(CouncilStep) /\ \A p \in Providers : WF_vars(CliStep(p))
-----------------------------------------------------------------------------
\* Every variable has its type.
TypeOK ==
  /\ pc \in Pcs
  /\ primary \in Providers
  /\ cli \in [Providers -> Call]
  /\ collected \subseteq Providers
  /\ results \in [Providers -> Seq(Findings) \cup {None}]
  /\ failures \subseteq Providers
  /\ findings \in Seq(Attributed)
  /\ dealt \in [Providers -> Nat]

\* What a reviewer found is in the result and attributed to it, in its own words
\* or in those of a finding that matches, although the synthesis may have left
\* it out, and whichever finding it was merged into (_reconcile_council_findings).
FindingIsCovered(p, f) ==
  \E i \in DOMAIN findings : findings_match(findings[i].about, f) /\ p \in findings[i].sources
NoFindingIsDropped ==
  pc = "done" /\ failures = {} =>
    \A p \in Providers : \A i \in DOMAIN results[p] : FindingIsCovered(p, results[p][i])

\* A result with one review names the reviewer that failed, and is what the other
\* one said; a result that names nobody has heard both (README.md:52).
DegradedResultSaysSo ==
  pc = "done" =>
    /\ \A p \in Providers : p \in failures <=> results[p] = None
    /\ failures # Providers
    /\ \A p \in failures : findings = Alone(results[Other(p)])

\* When the council returns or raises no CLI is at work any more, so that the
\* service may remove the checkout (service.py:181).
NoCallOutlivesTheReview == Over => \A p \in Providers : ~Running(p)

\* The review ends, whatever the CLIs do.
ReviewEnds == <>Over
=============================================================================
