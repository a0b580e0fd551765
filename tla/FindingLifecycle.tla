-------------------------- MODULE FindingLifecycle --------------------------
(***************************************************************************)
(* What becomes of the findings of a merge request, as its authors see it: *)
(* a review raises each finding once, in a thread of its own, confirms it  *)
(* under the wording of the day, retires it when it is gone, and is        *)
(* complete only when the findings that are open are those of its report;  *)
(* a discussion dismisses one, and only changes near it bring it back.     *)
(* Publication with one worker implements this, call by call.              *)
(***************************************************************************)
EXTENDS Integers, Sequences

CONSTANTS
  Findings,  \* findings by the fingerprint they were raised under
  Similar,   \* the pairs {f, g} that resemble each other
  None

VARIABLES
  finding,  \* finding -> its status, wording and thread, or None before it is raised
  reviews,  \* the review in progress, if any: what the diff has changes near, and
            \* the findings it has dealt with
  report    \* what the latest complete review reported, or None

vars == <<finding, reviews, report>>
-----------------------------------------------------------------------------
Resembles(f, g) == f = g \/ {f, g} \in Similar

Raised == {f \in Findings : finding[f] # None}
InStatus(status) == {f \in Raised : finding[f].status = status}

Init ==
  /\ finding = [f \in Findings |-> None]
  /\ reviews = {}
  /\ report = None

StartReview ==
  /\ reviews = {}
  /\ \E near \in SUBSET Findings : reviews' = {[near |-> near, dealt |-> {}]}
  /\ UNCHANGED <<finding, report>>

\* The review settles f, which it does once.
Settle(f, review, status, text) ==
  /\ f \notin review.dealt
  /\ reviews' = {[review EXCEPT !.dealt = @ \cup {f}]}
  /\ finding'[f] # None
  /\ finding' = [finding EXCEPT ![f] = [status |-> status, text |-> text,
                                        thread |-> finding'[f].thread]]
  /\ UNCHANGED report

\* A finding is new only if nothing raised before resembles it; it gets a thread
\* in which no other finding is discussed.
Raise(f, review) ==
  /\ \A g \in Raised : ~Resembles(g, f)
  /\ Settle(f, review, "open", f)
  /\ \A g \in Raised : finding[g].thread # finding'[f].thread

InItsThread(f) == finding'[f].thread = finding[f].thread

\* Reported again, in other words perhaps; a dismissed finding only when the diff
\* has changes near the words it was dismissed in.
Confirm(f, review) ==
  /\ f \in Raised
  /\ f \in InStatus("dismissed") => finding[f].text \in review.near
  /\ \E text \in Findings : Resembles(f, text) /\ Settle(f, review, "open", text)
  /\ InItsThread(f)

\* Not reported any more.
Retire(f, review) ==
  /\ f \in InStatus("open")
  /\ Settle(f, review, "resolved", finding[f].text)
  /\ InItsThread(f)

\* The review ends; it is complete only when what is open is what it reported.
CompleteReview ==
  /\ reviews # {}
  /\ reviews' = {}
  /\ report' # None
  /\ {finding[f].text : f \in InStatus("open")} = {report'[i] : i \in DOMAIN report'}
  /\ UNCHANGED finding

AbandonReview ==
  /\ reviews # {}
  /\ reviews' = {}
  /\ UNCHANGED <<finding, report>>

\* A discussion convinces; no review is at work meanwhile.
Dismiss(f) ==
  /\ reviews = {}
  /\ f \in InStatus("open")
  /\ finding' = [finding EXCEPT ![f].status = "dismissed"]
  /\ UNCHANGED <<reviews, report>>

ReviewStep ==
  \E review \in reviews, f \in Findings :
    Raise(f, review) \/ Confirm(f, review) \/ Retire(f, review)

Next ==
  \/ StartReview \/ ReviewStep \/ CompleteReview \/ AbandonReview
  \/ \E f \in Findings : Dismiss(f)

Spec == Init /\ [][Next]_vars
=============================================================================
