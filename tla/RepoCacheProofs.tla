--------------------------- MODULE RepoCacheProofs ---------------------------
(***************************************************************************)
(* The mirror and the checkouts of one repository, for any number of       *)
(* workers, pushes, versions of the target, failures and restarts.         *)
(***************************************************************************)
EXTENDS RepoCache, FiniteSetTheorems, TLAPS

WorkerTypes == worker \in [Workers -> Preparation] /\ litter \subseteq Nat \ {0}

LEMMA BecomesTypes ==
  ASSUME TypeOK, NEW w \in Workers, NEW p \in Preparation, Becomes(w, p)
  PROVE  worker' \in [Workers -> Preparation]
  BY DEF TypeOK, Becomes

\* The three ways in which a worker goes on keep the types.
LEMMA GoToTypes ==
  ASSUME TypeOK, NEW w \in Workers, NEW pc \in Pcs, GoTo(w, pc)
  PROVE  WorkerTypes'
<1>1. [worker[w] EXCEPT !.pc = pc] \in Preparation
  BY DEF TypeOK, Preparation
<1> QED
  BY <1>1, BecomesTypes DEF GoTo, TypeOK, WorkerTypes

LEMMA IdleType == Idle \in Preparation
  BY DEF Idle, Preparation, Pcs, NoRefs, Refs

LEMMA FailTypes ==
  ASSUME TypeOK, NEW w \in Workers, Fail(w)
  PROVE  WorkerTypes'
<1>1. worker[w].dir \in Nat
  BY DEF TypeOK, Preparation
<1> QED
  BY <1>1, IdleType, BecomesTypes DEF TypeOK, Fail, WorkerTypes

LEMMA RefreshedTypes ==
  ASSUME TypeOK, NEW w \in Workers, NEW empty \in BOOLEAN, Refreshed(w, empty)
  PROVE  WorkerTypes'
<1>1. NoRefs \in Refs
  BY DEF NoRefs, Refs
<1>2. [worker[w] EXCEPT !.pc = "mkdtemp", !.asked = 0, !.offer = NoRefs,
                        !.found = NoRefs, !.empty = empty] \in Preparation
  BY <1>1 DEF TypeOK, Preparation, Pcs
<1> QED
  BY <1>2, BecomesTypes DEF TypeOK, Refreshed, WorkerTypes

LEMMA RefTypes ==
  ASSUME TypeOK
  PROVE  /\ Offered \in Refs
         /\ mirror.refs \in Refs
         /\ \A w \in Workers : worker[w].offer \in Refs
<1>1. Newest \in Nat
  BY DEF TypeOK, Newest
<1> QED
  BY <1>1 DEF TypeOK, Offered, Refs, Preparation

\* What is stored in the mirror is a mirror again.
LEMMA MirrorTypes ==
  ASSUME TypeOK
  PROVE  /\ Absent \in [state: MirrorStates, refs: Refs]
         /\ \A s \in MirrorStates : [Absent EXCEPT !.state = s] \in [state: MirrorStates, refs: Refs]
         /\ \A offer \in Refs : Filled(offer) \in [state: MirrorStates, refs: Refs]
         /\ \A offer \in Refs : [mirror EXCEPT !.refs.commits = @ \cup offer.commits]
                                  \in [state: MirrorStates, refs: Refs]
  BY DEF TypeOK, Absent, MirrorStates, Refs, NoRefs, Filled

\* There is always a directory name to be found.
LEMMA FreeDirectoryIsFree ==
  ASSUME TypeOK
  PROVE  FreeDirectory \in Nat \ {0} /\ FreeDirectory \notin directories
<1> DEFINE n == Cardinality(directories)
<1>1. IsFiniteSet(directories) /\ n \in Nat
  BY FS_CardinalityType DEF TypeOK
<1>2. IsFiniteSet(1..(n + 1)) /\ Cardinality(1..(n + 1)) = n + 1
  BY <1>1, FS_Interval
<1>3. ~(1..(n + 1) \subseteq directories)
  <2>1. SUFFICES ASSUME 1..(n + 1) \subseteq directories PROVE FALSE
    OBVIOUS
  <2>2. Cardinality(1..(n + 1)) <= n
    BY <1>1, <2>1, FS_Subset
  <2> QED
    BY <1>1, <1>2, <2>2
<1>4. \E d \in 1..(n + 1) : d \notin directories
  BY <1>3
<1> QED
  BY <1>1, <1>4 DEF FreeDirectory
-----------------------------------------------------------------------------
LEMMA TypeStart == Init => TypeOK
<1>1. ASSUME Init PROVE commits \in Seq(Commit) /\ commits # <<>> /\ reachable \subseteq 1..Newest
  <2>1. PICK base \in {0, 1}, named \in {0, 1} : commits = <<[base |-> base, target |-> named]>>
    BY <1>1 DEF Init
  <2>2. [base |-> base, target |-> named] \in Commit
    BY DEF Commit
  <2> QED
    BY <1>1, <2>1, <2>2 DEF Init, Newest
<1>2. ASSUME Init PROVE mirror \in [state: MirrorStates, refs: Refs]
  BY <1>2 DEF Init, Absent, MirrorStates, Refs, NoRefs
<1> QED
  BY <1>1, <1>2, IdleType, RepoAssumption, FS_EmptySet DEF Init, TypeOK

LEMMA TypeStep == TypeOK /\ [Next]_vars => TypeOK'
<1> SUFFICES ASSUME TypeOK, [Next]_vars PROVE TypeOK'
  OBVIOUS
<1> USE RefTypes, MirrorTypes
<1>0. \A w \in Workers : worker[w] \in Preparation
  BY DEF TypeOK
<1>1. ASSUME NEW forced \in BOOLEAN, NEW rebased \in BOOLEAN, NEW named \in BOOLEAN,
             Push(forced, rebased, named)
      PROVE  TypeOK'
  <2>1. Newest \in Nat
    BY DEF TypeOK, Newest
  <2>2. [base |-> IF rebased THEN target ELSE commits[Newest].base,
         target |-> IF named THEN target ELSE 0] \in Commit
    <3>1. commits[Newest] \in Commit
      BY DEF TypeOK, Newest
    <3> QED
      BY <3>1 DEF TypeOK, Commit
  <2>3. commits' \in Seq(Commit) /\ commits' # <<>> /\ Newest' = Newest + 1
    BY <1>1, <2>2 DEF Push, TypeOK, Newest
  <2> QED
    BY <1>1, <2>1, <2>3 DEF Push, TypeOK
<1>2. CASE MoveTarget
  BY <1>2 DEF MoveTarget, TypeOK, Newest
<1>3. ASSUME NEW w \in Workers, Start(w) PROVE TypeOK'
  <2>1. Newest \in Nat /\ target \in Nat /\ reviewed \in Nat
    BY DEF TypeOK, Newest
  <2>2. \A v \in Workers : worker[v].asked \in Nat
    BY DEF TypeOK, Preparation
  <2>3. PICK previous \in {0, IncrementalBase(Newest)},
             oldest \in {target} \cup {worker[v].asked : v \in RefreshingNow} :
          Becomes(w, [Idle EXCEPT !.pc = "ensure_mirror", !.sha = Newest, !.asked = target,
                                  !.previous = previous, !.oldest = oldest])
    BY <1>3 DEF Start
  <2>4. previous \in Nat /\ oldest \in Nat
    BY <2>1, <2>2 DEF IncrementalBase, RefreshingNow
  <2>5. [Idle EXCEPT !.pc = "ensure_mirror", !.sha = Newest, !.asked = target,
                     !.previous = previous, !.oldest = oldest] \in Preparation
    BY <2>1, <2>4, IdleType DEF Preparation, Pcs
  <2>6. worker' \in [Workers -> Preparation]
    BY <2>3, <2>5, BecomesTypes
  <2> QED
    BY <1>3, <2>6 DEF Start, TypeOK, OwnOnly, originVars, Newest
<1> DEFINE Rest == UNCHANGED <<originVars, directories, reviewed, faults>>
<1>4. ASSUME WorkerTypes', mirror' \in [state: MirrorStates, refs: Refs], Rest PROVE TypeOK'
  BY <1>4 DEF TypeOK, WorkerTypes, originVars, Newest
<1>5. ASSUME NEW w \in Workers, EnsureMirror(w) \/ SetUrl(w) \/ CheckoutCommit(w) PROVE TypeOK'
  <2>1. WorkerTypes'
    BY <1>5, GoToTypes, FailTypes DEF EnsureMirror, SetUrl, CheckoutCommit, Pcs
  <2> QED
    BY <1>4, <1>5, <2>1 DEF EnsureMirror, SetUrl, CheckoutCommit, OwnOnly, TypeOK
<1>6. ASSUME NEW w \in Workers, BeginMirror(w) PROVE TypeOK'
  <2>1. [worker[w] EXCEPT !.pc = "cloning", !.offer = Offered] \in Preparation
    BY <1>0 DEF Preparation, Pcs
  <2>2. WorkerTypes'
    BY <1>6, <2>1, BecomesTypes, FailTypes DEF BeginMirror, WorkerTypes, TypeOK
  <2> QED
    BY <1>4, <1>6, <2>2 DEF BeginMirror, OwnOnly, TypeOK, MirrorStates
<1>7. ASSUME NEW w \in Workers, RemoveMirror(w) PROVE WorkerTypes'
  BY <1>7, IdleType DEF RemoveMirror, WorkerTypes, TypeOK
<1>8. ASSUME NEW w \in Workers, FinishMirror(w) PROVE TypeOK'
  <2>1. WorkerTypes'
    BY <1>8, <1>7, RefreshedTypes DEF FinishMirror
  <2>2. mirror' \in [state: MirrorStates, refs: Refs]
    BY <1>8 DEF FinishMirror, RemoveMirror
  <2> QED
    BY <1>4, <1>8, <2>1, <2>2 DEF FinishMirror, OwnOnly
<1>9. ASSUME NEW w \in Workers, BeginFetch(w) PROVE TypeOK'
  <2>1. [worker[w] EXCEPT !.pc = "fetching", !.offer = Offered, !.found = mirror.refs] \in Preparation
    BY <1>0 DEF Preparation, Pcs
  <2>2. WorkerTypes'
    BY <1>9, <2>1, BecomesTypes, FailTypes DEF BeginFetch, WorkerTypes, TypeOK
  <2> QED
    BY <1>4, <1>9, <2>2 DEF BeginFetch, OwnOnly, TypeOK
<1>10. ASSUME NEW w \in Workers, FinishFetch(w) PROVE TypeOK'
  <2>1. WorkerTypes'
    BY <1>10, RefreshedTypes, FailTypes DEF FinishFetch
  <2> QED
    BY <1>4, <1>10, <2>1 DEF FinishFetch, OwnOnly, TypeOK
<1>11. ASSUME NEW w \in Workers, MakeDirectory(w) PROVE TypeOK'
  <2>1. FreeDirectory \in Nat \ {0}
    BY FreeDirectoryIsFree
  <2>2. [worker[w] EXCEPT !.pc = "clone", !.dir = FreeDirectory] \in Preparation
    BY <1>0, <2>1 DEF Preparation, Pcs
  <2>3. worker' \in [Workers -> Preparation]
    BY <1>11, <2>2, BecomesTypes DEF MakeDirectory
  <2>4. directories' \subseteq Nat \ {0} /\ IsFiniteSet(directories')
    BY <1>11, <2>1, FS_AddElement DEF MakeDirectory, TypeOK
  <2> QED
    BY <1>11, <2>3, <2>4 DEF MakeDirectory, TypeOK, originVars, Newest
<1>12. ASSUME NEW w \in Workers, CloneMirror(w) PROVE TypeOK'
  <2>1. [worker[w] EXCEPT !.pc = "checkout", !.has = mirror.refs.commits] \in Preparation
    <3>1. "checkout" \in Pcs /\ mirror.refs.commits \in SUBSET Nat
      BY DEF Pcs, Refs
    <3> QED
      BY <1>0, <3>1 DEF Preparation
  <2>2. WorkerTypes'
    BY <1>12, <2>1, BecomesTypes, FailTypes DEF CloneMirror, WorkerTypes, TypeOK
  <2> QED
    BY <1>4, <1>12, <2>2 DEF CloneMirror, OwnOnly, TypeOK
<1>13. ASSUME NEW w \in Workers, FetchTarget(w) PROVE TypeOK'
  <2>1. [worker[w] EXCEPT !.pc = "diff", !.target = mirror.refs.target] \in Preparation
    <3>1. "diff" \in Pcs /\ mirror.refs.target \in Nat
      BY DEF Pcs, Refs
    <3> QED
      BY <1>0, <3>1 DEF Preparation
  <2>2. WorkerTypes'
    BY <1>13, <2>1, BecomesTypes, FailTypes DEF FetchTarget, WorkerTypes, TypeOK
  <2> QED
    BY <1>4, <1>13, <2>2 DEF FetchTarget, OwnOnly, TypeOK
<1>14. ASSUME NEW w \in Workers, Diff(w) PROVE TypeOK'
  <2>1. [worker[w] EXCEPT !.pc = "review", !.oldest = 0, !.target = 0, !.has = {},
           !.incremental = worker[w].previous \in worker[w].has \ {worker[w].sha}] \in Preparation
    <3>1. \A b \in BOOLEAN : [worker[w] EXCEPT !.pc = "review", !.oldest = 0, !.target = 0,
                                             !.has = {}, !.incremental = b] \in Preparation
      BY <1>0 DEF Preparation, Pcs
    <3>2. (worker[w].previous \in worker[w].has \ {worker[w].sha}) \in BOOLEAN
      OBVIOUS
    <3> QED
      BY <3>1, <3>2, Zenon
  <2>2. WorkerTypes'
    BY <1>14, <2>1, BecomesTypes DEF Diff, WorkerTypes, TypeOK
  <2> QED
    BY <1>4, <1>14, <2>2 DEF Diff, OwnOnly, TypeOK
<1>15. ASSUME NEW w \in Workers, Review(w) PROVE TypeOK'
  <2>1. PICK completed \in BOOLEAN :
          /\ reviewed' = IF completed THEN worker[w].sha ELSE reviewed
          /\ Close(w, completed)
    BY <1>15 DEF Review
  <2>2. worker' \in [Workers -> Preparation]
    BY <2>1, IdleType, BecomesTypes DEF Close
  <2>3. reviewed' \in Nat
    BY <2>1 DEF TypeOK, Preparation
  <2>4. directories' \subseteq Nat \ {0} /\ IsFiniteSet(directories')
    BY <2>1, FS_RemoveElement DEF Close, TypeOK
  <2> QED
    BY <1>15, <2>2, <2>3, <2>4 DEF Review, TypeOK, originVars, Newest
<1>16. ASSUME NEW w \in Workers, GitFails(w) PROVE TypeOK'
  <2>1. WorkerTypes' /\ mirror' \in [state: MirrorStates, refs: Refs]
    BY <1>7, <1>16, FailTypes DEF GitFails, RemoveMirror, TypeOK
  <2>2. faults' \in Nat
    BY <1>16 DEF GitFails, TypeOK
  <2> QED
    BY <1>16, <2>1, <2>2 DEF GitFails, TypeOK, WorkerTypes, originVars, Newest
<1>17. CASE Restart
  <2>1. worker' \in [Workers -> Preparation]
    BY <1>17, IdleType DEF Restart
  <2>2. mirror' \in [state: MirrorStates, refs: Refs]
    BY <1>17 DEF Restart, TypeOK, MirrorStates
  <2>3. litter' \subseteq Nat \ {0} /\ faults' \in Nat
    BY <1>17 DEF Restart, TypeOK, Preparation
  <2> QED
    BY <1>17, <2>1, <2>2, <2>3 DEF Restart, TypeOK, originVars, Newest
<1>18. CASE UNCHANGED vars
  BY <1>18 DEF vars, originVars, TypeOK, Newest
<1> QED
  BY <1>1, <1>2, <1>3, <1>5, <1>6, <1>8, <1>9, <1>10, <1>11, <1>12, <1>13, <1>14, <1>15, <1>16,
     <1>17, <1>18 DEF Next, WorkerStep

\* Mirror, checkouts and the local state of every worker keep their types.
THEOREM TypeCorrect == Spec => []TypeOK
  BY TypeStart, TypeStep, PTL DEF Spec
-----------------------------------------------------------------------------
(***************************************************************************)
(* How the workers move.                                                   *)
(***************************************************************************)

LEMMA BecomesAt ==
  ASSUME TypeOK, NEW w \in Workers, NEW p, Becomes(w, p)
  PROVE  worker'[w] = p /\ \A v \in Workers : v # w => worker'[v] = worker[v]
  BY DEF TypeOK, Becomes

LEMMA GoToAt ==
  ASSUME TypeOK, NEW w \in Workers, NEW pc, GoTo(w, pc)
  PROVE  /\ worker'[w] = [worker[w] EXCEPT !.pc = pc]
         /\ worker'[w].pc = pc
         /\ \A v \in Workers : v # w => worker'[v] = worker[v]
<1>1. worker[w] \in Preparation
  BY DEF TypeOK
<1>2. worker'[w] = [worker[w] EXCEPT !.pc = pc]
  BY BecomesAt DEF GoTo
<1> QED
  BY <1>1, <1>2, BecomesAt DEF GoTo, Preparation

LEMMA FailAt ==
  ASSUME TypeOK, NEW w \in Workers, Fail(w)
  PROVE  worker'[w] = Idle /\ \A v \in Workers : v # w => worker'[v] = worker[v]
  BY BecomesAt DEF Fail

LEMMA RefreshedAt ==
  ASSUME TypeOK, NEW w \in Workers, NEW empty, Refreshed(w, empty)
  PROVE  /\ worker'[w].pc = "mkdtemp"
         /\ worker'[w].asked = 0
         /\ worker'[w].offer = NoRefs
         /\ worker'[w].sha = worker[w].sha
         /\ worker'[w].previous = worker[w].previous
         /\ worker'[w].oldest = worker[w].oldest
         /\ worker'[w].dir = worker[w].dir
         /\ worker'[w].has = worker[w].has
         /\ worker'[w].incremental = worker[w].incremental
         /\ \A v \in Workers : v # w => worker'[v] = worker[v]
<1>1. worker[w] \in Preparation
  BY DEF TypeOK
<1>2. worker'[w] = [worker[w] EXCEPT !.pc = "mkdtemp", !.asked = 0, !.offer = NoRefs,
                                     !.found = NoRefs, !.empty = empty]
  BY BecomesAt DEF Refreshed
<1> QED
  BY <1>1, <1>2, BecomesAt DEF Refreshed, Preparation

\* Where a worker starts.
LEMMA StartAt ==
  ASSUME TypeOK, NEW w \in Workers, Start(w)
  PROVE  /\ worker'[w].pc = "ensure_mirror"
         /\ worker'[w].sha = Newest
         /\ worker'[w].previous \in {0, IncrementalBase(Newest)}
         /\ worker'[w].asked = target
         /\ worker'[w].oldest \in {target} \cup {worker[v].asked : v \in RefreshingNow}
         /\ \A v \in RefreshingNow : worker'[w].oldest <= worker[v].asked
         /\ worker'[w].dir = 0
         /\ worker'[w].has = {}
         /\ worker'[w].offer = NoRefs
         /\ worker'[w].empty = FALSE
         /\ worker'[w].incremental = FALSE
         /\ \A v \in Workers : v # w => worker'[v] = worker[v]
         /\ UNCHANGED <<originVars, mirror, directories, reviewed, litter>>
<1>1. PICK previous \in {0, IncrementalBase(Newest)},
           oldest \in {target} \cup {worker[v].asked : v \in RefreshingNow} :
        /\ \A v \in RefreshingNow : oldest <= worker[v].asked
        /\ Becomes(w, [Idle EXCEPT !.pc = "ensure_mirror", !.sha = Newest, !.asked = target,
                                   !.previous = previous, !.oldest = oldest])
  BY DEF Start
<1>2. worker'[w] = [Idle EXCEPT !.pc = "ensure_mirror", !.sha = Newest, !.asked = target,
                                !.previous = previous, !.oldest = oldest]
  BY <1>1, BecomesAt
<1>3. worker'[w] = [pc |-> "ensure_mirror", sha |-> Newest, previous |-> previous,
                    oldest |-> oldest, asked |-> target, offer |-> NoRefs, found |-> NoRefs,
                    empty |-> FALSE, dir |-> 0, has |-> {}, target |-> 0, incremental |-> FALSE]
  BY <1>2 DEF Idle
<1>4. \A v \in Workers : v # w => worker'[v] = worker[v]
  BY <1>1, BecomesAt
<1> QED
  BY <1>1, <1>3, <1>4 DEF Start, OwnOnly

\* No worker moves but the one at work, and those whose mirror is removed.
LEMMA OthersStay ==
  ASSUME TypeOK, NEW w \in Workers, Start(w) \/ WorkerStep(w) \/ GitFails(w),
         NEW v \in Workers, v # w
  PROVE  worker'[v] = worker[v] \/ (At(v, "fetching") /\ worker'[v] = Idle)
<1>1. ASSUME NEW p, Becomes(w, p) PROVE worker'[v] = worker[v]
  BY <1>1, BecomesAt
<1>2. ASSUME RemoveMirror(w) PROVE worker'[v] = worker[v] \/ (At(v, "fetching") /\ worker'[v] = Idle)
  BY <1>2 DEF RemoveMirror
<1>3. ASSUME Start(w) \/ WorkerStep(w) \/ GitFails(w)
      PROVE  RemoveMirror(w) \/ \E p : Becomes(w, p)
  BY <1>3 DEF WorkerStep, Start, EnsureMirror, BeginMirror, FinishMirror, SetUrl, BeginFetch,
     FinishFetch, MakeDirectory, CloneMirror, CheckoutCommit, FetchTarget, Diff, Review, GitFails,
     GoTo, Fail, Refreshed, Close
<1> QED
  BY <1>1, <1>2, <1>3
-----------------------------------------------------------------------------
(***************************************************************************)
(* No checkout is made from a broken mirror.                               *)
(***************************************************************************)

BrokenInv == TypeOK /\ NoCheckoutFromBrokenMirror

\* A mirror is broken by a restart only.
LEMMA BrokenByRestart ==
  ASSUME TypeOK, Next, ~Restart, mirror'.state = "broken"
  PROVE  mirror.state = "broken" /\ mirror' = mirror
<1>1. ASSUME NEW offer, mirror' = Filled(offer) PROVE FALSE
  BY <1>1 DEF Filled
<1>2. ASSUME mirror' = Absent \/ mirror' = [Absent EXCEPT !.state = "unfinished"] PROVE FALSE
  BY <1>2 DEF Absent
<1>3. ASSUME NEW w \in Workers, FinishMirror(w) PROVE FALSE
  <2>1. ASSUME NEW c, mirror.state = "complete", mirror' = [mirror EXCEPT !.refs.commits = c]
        PROVE FALSE
    BY <2>1 DEF TypeOK, Refs
  <2> QED
    BY <1>1, <1>2, <1>3, <2>1 DEF FinishMirror, RemoveMirror
<1>4. ASSUME NEW w \in Workers, BeginMirror(w) \/ FinishFetch(w) \/ GitFails(w)
      PROVE  mirror' = mirror
  BY <1>1, <1>2, <1>4 DEF BeginMirror, FinishFetch, GitFails, RemoveMirror
<1>5. mirror' = mirror
  BY <1>3, <1>4 DEF Next, WorkerStep, Push, MoveTarget, Start, EnsureMirror, SetUrl, BeginFetch,
     MakeDirectory, CloneMirror, CheckoutCommit, FetchTarget, Diff, Review
<1> QED
  BY <1>5

LEMMA BrokenStep == BrokenInv /\ [Next]_vars => BrokenInv'
<1> SUFFICES ASSUME BrokenInv, [Next]_vars, mirror'.state = "broken"
             PROVE  \A v \in Workers :
                      worker'[v].pc \in {"idle", "ensure_mirror", "clone_mirror", "set_url"}
  BY TypeStep DEF BrokenInv, NoCheckoutFromBrokenMirror
<1>1. TypeOK
  BY DEF BrokenInv
<1>2. CASE Restart
  BY <1>2 DEF Restart, Idle
<1>3. CASE UNCHANGED vars
  BY <1>3 DEF vars, BrokenInv, NoCheckoutFromBrokenMirror
<1>4. CASE Next /\ ~Restart
  <2> DEFINE Waiting == {"idle", "ensure_mirror", "clone_mirror", "set_url"}
  <2>1. mirror.state = "broken" /\ \A v \in Workers : worker[v].pc \in Waiting
    BY <1>1, <1>4, BrokenByRestart DEF BrokenInv, NoCheckoutFromBrokenMirror
  <2>2. CASE \/ \E forced, rebased, named \in BOOLEAN : Push(forced, rebased, named)
             \/ MoveTarget
    BY <2>1, <2>2 DEF Push, MoveTarget
  <2>3. ASSUME NEW w \in Workers, Start(w) \/ WorkerStep(w) \/ GitFails(w)
        PROVE  worker'[w].pc \in Waiting
    <3>1. ASSUME Start(w) PROVE worker'[w].pc \in Waiting
      BY <1>1, <3>1, StartAt
    <3>2. ASSUME Fail(w) PROVE worker'[w].pc \in Waiting
      BY <1>1, <3>2, BecomesAt DEF Fail, Idle
    <3>3. ASSUME EnsureMirror(w) PROVE worker'[w].pc \in Waiting
      BY <1>1, <3>3, GoToAt DEF EnsureMirror
    <3>4. ASSUME SetUrl(w) \/ BeginMirror(w) PROVE Fail(w)
      BY <2>1, <3>4 DEF SetUrl, BeginMirror
    <3>5. ASSUME GitFails(w) PROVE Fail(w)
      BY <2>1, <3>5 DEF GitFails, At
    <3>6. ASSUME WorkerStep(w) PROVE EnsureMirror(w) \/ SetUrl(w) \/ BeginMirror(w)
      BY <2>1, <3>6 DEF WorkerStep, FinishMirror, BeginFetch, FinishFetch, MakeDirectory,
         CloneMirror, CheckoutCommit, FetchTarget, Diff, Review, At
    <3> QED
      BY <2>3, <3>1, <3>2, <3>3, <3>4, <3>5, <3>6
  <2>4. ASSUME NEW w \in Workers, Start(w) \/ WorkerStep(w) \/ GitFails(w), NEW v \in Workers, v # w
        PROVE  worker'[v].pc \in Waiting
    BY <1>1, <2>1, <2>4, OthersStay DEF Idle
  <2> QED
    BY <1>4, <2>2, <2>3, <2>4 DEF Next
<1> QED
  BY <1>2, <1>3, <1>4

\* A mirror that a killed command left broken yields no checkout, ever.
THEOREM NoCheckoutFromBroken == Spec => []NoCheckoutFromBrokenMirror
<1>1. Init => BrokenInv
  BY TypeStart DEF Init, BrokenInv, NoCheckoutFromBrokenMirror, Absent
<1> QED
  BY <1>1, BrokenStep, PTL DEF Spec, BrokenInv
-----------------------------------------------------------------------------
(***************************************************************************)
(* Which directories are in the cache.                                     *)
(***************************************************************************)

\* A worker has a directory from mkdtemp on, and only there.
DirectoriesExist ==
  \A w \in Workers : worker[w].dir # 0 =>
    /\ worker[w].dir \in directories
    /\ worker[w].pc \in {"clone", "checkout", "fetch_target", "diff", "review"}

DirectoryInv == TypeOK /\ DirectoriesExist /\ DirectoriesAreAccountedFor

\* Held and litter, one directory at a time.
LEMMA Accounted ==
  ASSUME TypeOK
  PROVE  DirectoriesAreAccountedFor <=>
           /\ \A d \in directories : d \in litter <=> \A w \in Workers : worker[w].dir # d
           /\ litter \subseteq directories
           /\ \A w, v \in Workers : w # v /\ worker[w].dir = worker[v].dir => worker[w].dir = 0
<1>1. \A d \in Nat \ {0} : d \in Held <=> \E w \in Workers : worker[w].dir = d
  BY DEF Held
<1>2. directories \subseteq Nat \ {0} /\ litter \subseteq Nat \ {0}
  BY DEF TypeOK
<1>3. directories \ Held = litter <=>
        /\ \A d \in directories : d \in litter <=> \A w \in Workers : worker[w].dir # d
        /\ litter \subseteq directories
  <2>1. ASSUME directories \ Held = litter
        PROVE  /\ \A d \in directories : d \in litter <=> \A w \in Workers : worker[w].dir # d
               /\ litter \subseteq directories
    BY <1>1, <1>2, <2>1
  <2>2. ASSUME /\ \A d \in directories : d \in litter <=> \A w \in Workers : worker[w].dir # d
               /\ litter \subseteq directories
        PROVE  directories \ Held = litter
    BY <1>1, <1>2, <2>2
  <2> QED
    BY <2>1, <2>2
<1> QED
  BY <1>3 DEF DirectoriesAreAccountedFor

\* What a step does to the directory of the worker that makes it.
LEMMA DirectoryMoves ==
  ASSUME DirectoryInv, NEW w \in Workers, Start(w) \/ WorkerStep(w) \/ GitFails(w)
  PROVE  \/ /\ UNCHANGED <<directories, litter>>
            /\ worker'[w].dir = worker[w].dir
            /\ \/ worker'[w].dir = 0
               \/ worker'[w].pc \in {"clone", "checkout", "fetch_target", "diff", "review"}
         \/ Fail(w) /\ UNCHANGED directories
         \/ MakeDirectory(w)
         \/ Review(w)
<1> DEFINE With == {"clone", "checkout", "fetch_target", "diff", "review"}
           Keeps == /\ UNCHANGED <<directories, litter>>
                    /\ worker'[w].dir = worker[w].dir
                    /\ worker'[w].dir = 0 \/ worker'[w].pc \in With
<1>1. TypeOK /\ worker[w] \in Preparation
  BY DEF DirectoryInv, TypeOK
<1>2. worker[w].pc \notin With => worker[w].dir = 0
  BY DEF DirectoryInv, DirectoriesExist
<1>3. ASSUME Start(w) PROVE Keeps
  <2>1. worker[w].dir = 0
    BY <1>2, <1>3 DEF Start, At
  <2> QED
    BY <1>1, <1>3, <2>1, StartAt
<1>4. ASSUME NEW pc, GoTo(w, pc), worker[w].pc \notin With \/ pc \in With, UNCHANGED directories
      PROVE  Keeps
  <2>1. worker'[w].dir = worker[w].dir /\ worker'[w].pc = pc
    BY <1>1, <1>4, GoToAt DEF Preparation
  <2> QED
    BY <1>2, <1>4, <2>1 DEF GoTo
<1>5. ASSUME NEW empty, Refreshed(w, empty), worker[w].pc \notin With, UNCHANGED directories
      PROVE  Keeps
  BY <1>1, <1>2, <1>5, RefreshedAt DEF Refreshed
<1>6. ASSUME RemoveMirror(w), worker[w].pc \notin With, UNCHANGED directories
      PROVE  Keeps
  <2>1. worker'[w] = Idle
    BY <1>6 DEF RemoveMirror
  <2> QED
    BY <1>2, <1>6, <2>1 DEF RemoveMirror, Idle
<1>7. ASSUME EnsureMirror(w) \/ SetUrl(w) \/ CheckoutCommit(w)
      PROVE  Keeps \/ (Fail(w) /\ UNCHANGED directories)
  BY <1>4, <1>7 DEF EnsureMirror, SetUrl, CheckoutCommit, OwnOnly, At
<1>8. ASSUME NEW p \in Preparation, Becomes(w, p), UNCHANGED <<directories, litter>>,
             p.dir = worker[w].dir, worker[w].pc \notin With \/ p.pc \in With
      PROVE  Keeps
  BY <1>1, <1>2, <1>8, BecomesAt
<1>9. ASSUME BeginMirror(w) \/ BeginFetch(w)
      PROVE  Keeps \/ (Fail(w) /\ UNCHANGED directories)
  <2>1. ASSUME NEW refs \in Refs, NEW found \in Refs, NEW pc \in Pcs
        PROVE  /\ [worker[w] EXCEPT !.pc = pc, !.offer = refs] \in Preparation
               /\ [worker[w] EXCEPT !.pc = pc, !.offer = refs].dir = worker[w].dir
               /\ [worker[w] EXCEPT !.pc = pc, !.offer = refs, !.found = found] \in Preparation
               /\ [worker[w] EXCEPT !.pc = pc, !.offer = refs, !.found = found].dir = worker[w].dir
    BY <1>1 DEF Preparation
  <2>2. Offered \in Refs /\ mirror.refs \in Refs /\ {"cloning", "fetching"} \subseteq Pcs
    BY <1>1, RefTypes DEF Pcs
  <2> QED
    BY <1>8, <1>9, <2>1, <2>2 DEF BeginMirror, BeginFetch, OwnOnly, At
<1>10. ASSUME FinishMirror(w) \/ FinishFetch(w)
      PROVE  Keeps \/ (Fail(w) /\ UNCHANGED directories)
  BY <1>5, <1>6, <1>10 DEF FinishMirror, FinishFetch, OwnOnly, At
<1>11. ASSUME CloneMirror(w) \/ FetchTarget(w) \/ Diff(w)
      PROVE  Keeps \/ (Fail(w) /\ UNCHANGED directories)
  <2>1. ASSUME NEW p, Becomes(w, p), UNCHANGED <<directories, litter>>, p.dir = worker[w].dir,
               p.pc \in With
        PROVE  Keeps
    BY <1>1, <2>1, BecomesAt
  <2>2. ASSUME CloneMirror(w) PROVE Keeps \/ (Fail(w) /\ UNCHANGED directories)
    <3> DEFINE p == [worker[w] EXCEPT !.pc = "checkout", !.has = mirror.refs.commits]
    <3>1. p.dir = worker[w].dir /\ p.pc = "checkout"
      BY <1>1 DEF Preparation
    <3>2. \/ Fail(w) /\ UNCHANGED directories
          \/ Becomes(w, p) /\ UNCHANGED <<directories, litter>>
      BY <2>2 DEF CloneMirror, OwnOnly
    <3> HIDE DEF p
    <3> QED
      BY <2>1, <3>1, <3>2
  <2>3. ASSUME FetchTarget(w) PROVE Keeps \/ (Fail(w) /\ UNCHANGED directories)
    <3> DEFINE p == [worker[w] EXCEPT !.pc = "diff", !.target = mirror.refs.target]
    <3>1. p.dir = worker[w].dir /\ p.pc = "diff"
      BY <1>1 DEF Preparation
    <3>2. \/ Fail(w) /\ UNCHANGED directories
          \/ Becomes(w, p) /\ UNCHANGED <<directories, litter>>
      BY <2>3 DEF FetchTarget, OwnOnly
    <3> HIDE DEF p
    <3> QED
      BY <2>1, <3>1, <3>2
  <2>4. ASSUME Diff(w) PROVE Keeps
    <3> DEFINE b == worker[w].previous \in worker[w].has \ {worker[w].sha}
               p == [worker[w] EXCEPT !.pc = "review", !.oldest = 0, !.target = 0, !.has = {},
                                      !.incremental = b]
    <3>1. p.dir = worker[w].dir /\ p.pc = "review"
      BY <1>1 DEF Preparation
    <3>2. Becomes(w, p) /\ UNCHANGED <<directories, litter>>
      BY <2>4 DEF Diff, OwnOnly
    <3> HIDE DEF p
    <3> QED
      BY <2>1, <3>1, <3>2
  <2> QED
    BY <1>11, <2>2, <2>3, <2>4
<1>12. ASSUME GitFails(w) PROVE Keeps \/ (Fail(w) /\ UNCHANGED directories)
  BY <1>6, <1>12 DEF GitFails, At
<1> QED
  BY <1>3, <1>7, <1>9, <1>10, <1>11, <1>12 DEF WorkerStep

\* Nobody's directory changes.
LEMMA DirectoriesKept ==
  ASSUME DirectoryInv, TypeOK', UNCHANGED <<directories, litter>>,
         \A v \in Workers : /\ worker'[v].dir = worker[v].dir
                            /\ worker'[v] = worker[v] \/ worker'[v].dir = 0
                                \/ worker'[v].pc \in {"clone", "checkout", "fetch_target", "diff", "review"}
  PROVE  DirectoryInv'
<1>1. DirectoriesExist'
  BY DEF DirectoryInv, DirectoriesExist
<1>2. Held' = Held
  BY DEF Held
<1>3. DirectoriesAreAccountedFor'
  BY <1>2 DEF DirectoryInv, DirectoriesAreAccountedFor
<1> QED
  BY <1>1, <1>3 DEF DirectoryInv

LEMMA DirectoryStep == DirectoryInv /\ [Next]_vars => DirectoryInv'
<1> SUFFICES ASSUME DirectoryInv, [Next]_vars PROVE DirectoryInv'
  OBVIOUS
<1>1. TypeOK /\ TypeOK'
  BY TypeStep DEF DirectoryInv
<1>2. /\ \A d \in directories : d \in litter <=> \A w \in Workers : worker[w].dir # d
      /\ litter \subseteq directories
      /\ \A w, v \in Workers : w # v /\ worker[w].dir = worker[v].dir => worker[w].dir = 0
  BY <1>1, Accounted DEF DirectoryInv
<1>3. \A w \in Workers : worker[w].dir # 0 => worker[w].dir \in directories
  BY DEF DirectoryInv, DirectoriesExist
<1>4. Idle.dir = 0
  BY DEF Idle
<1>5. ASSUME DirectoriesExist',
             \A d \in directories' : d \in litter' <=> \A w \in Workers : worker'[w].dir # d,
             litter' \subseteq directories',
             \A w, v \in Workers : w # v /\ worker'[w].dir = worker'[v].dir => worker'[w].dir = 0
      PROVE  DirectoryInv'
  <2>1. \A d \in Nat \ {0} : d \in Held' <=> \E w \in Workers : worker'[w].dir = d
    BY DEF Held
  <2>2. directories' \subseteq Nat \ {0} /\ litter' \subseteq Nat \ {0}
    BY <1>1 DEF TypeOK
  <2>3. directories' \ Held' = litter'
    BY <1>5, <2>1, <2>2
  <2> QED
    BY <1>1, <1>5, <2>3 DEF DirectoryInv, DirectoriesAreAccountedFor
<1>6. CASE \/ \E forced, rebased, named \in BOOLEAN : Push(forced, rebased, named)
           \/ MoveTarget
           \/ UNCHANGED vars
  <2>1. UNCHANGED <<worker, directories, litter>>
    BY <1>6 DEF Push, MoveTarget, vars
  <2> QED
    BY <1>1, <2>1, DirectoriesKept
<1>7. CASE Restart
  <2>1. /\ litter' = litter \cup ({worker[w].dir : w \in Workers} \ {0})
        /\ directories' = directories
        /\ \A w \in Workers : worker'[w].dir = 0
    BY <1>4, <1>7 DEF Restart
  <2>2. \A d \in directories : d \in litter'
    BY <1>1, <1>2, <2>1 DEF TypeOK
  <2>3. 0 \notin directories
    BY <1>1 DEF TypeOK
  <2> QED
    BY <1>2, <1>3, <1>5, <2>1, <2>2, <2>3 DEF DirectoriesExist
<1>8. ASSUME NEW w \in Workers, Start(w) \/ WorkerStep(w) \/ GitFails(w) PROVE DirectoryInv'
  <2>1. CASE /\ UNCHANGED <<directories, litter>>
             /\ worker'[w].dir = worker[w].dir
             /\ \/ worker'[w].dir = 0
                \/ worker'[w].pc \in {"clone", "checkout", "fetch_target", "diff", "review"}
    <3>1. ASSUME NEW v \in Workers, v # w
          PROVE  worker'[v].dir = worker[v].dir /\ (worker'[v] = worker[v] \/ worker'[v].dir = 0)
      <4>1. worker[v].pc = "fetching" => worker[v].dir = 0
        BY DEF DirectoryInv, DirectoriesExist
      <4> QED
        BY <1>1, <1>4, <1>8, <3>1, <4>1, OthersStay DEF At
    <3> QED
      BY <1>1, <2>1, <3>1, DirectoriesKept
  <2>2. CASE Fail(w) /\ UNCHANGED directories
    <3>1. worker'[w] = Idle /\ \A v \in Workers : v # w => worker'[v] = worker[v]
      BY <1>1, <2>2, FailAt
    <3>2. litter' = litter \cup ({worker[w].dir} \ {0}) /\ directories' = directories
      BY <2>2 DEF Fail
    <3>3. \A d \in directories : d # 0
      BY <1>1 DEF TypeOK
    <3>4. DirectoriesExist'
      BY <1>4, <3>1, <3>2 DEF DirectoryInv, DirectoriesExist
    <3>5. \A d \in directories' : d \in litter' <=> \A v \in Workers : worker'[v].dir # d
      BY <1>2, <1>4, <3>1, <3>2, <3>3
    <3>6. litter' \subseteq directories'
      BY <1>2, <1>3, <3>2
    <3>7. \A u, v \in Workers : u # v /\ worker'[u].dir = worker'[v].dir => worker'[u].dir = 0
      BY <1>2, <1>4, <3>1
    <3> QED
      BY <1>5, <3>4, <3>5, <3>6, <3>7
  <2>3. CASE MakeDirectory(w)
    <3>1. /\ directories' = directories \cup {FreeDirectory} /\ litter' = litter
          /\ worker[w].pc = "mkdtemp"
          /\ worker'[w] = [worker[w] EXCEPT !.pc = "clone", !.dir = FreeDirectory]
          /\ \A v \in Workers : v # w => worker'[v] = worker[v]
      BY <1>1, <2>3, BecomesAt DEF MakeDirectory, At
    <3>2. worker'[w].pc = "clone" /\ worker'[w].dir = FreeDirectory
      BY <1>1, <3>1 DEF TypeOK, Preparation
    <3>3. FreeDirectory \in Nat \ {0} /\ FreeDirectory \notin directories
      BY <1>1, FreeDirectoryIsFree
    <3>4. worker[w].dir = 0
      BY <3>1 DEF DirectoryInv, DirectoriesExist
    <3>5. DirectoriesExist'
      BY <3>1, <3>2 DEF DirectoryInv, DirectoriesExist
    <3>6. \A d \in directories' : d \in litter' <=> \A v \in Workers : worker'[v].dir # d
      <4>1. ASSUME NEW d \in directories
            PROVE  d \in litter' <=> \A v \in Workers : worker'[v].dir # d
        <5>1. d # 0 /\ d # FreeDirectory
          BY <1>1, <3>3 DEF TypeOK
        <5>2. (\A v \in Workers : worker'[v].dir # d) <=> (\A v \in Workers : worker[v].dir # d)
          <6>1. \A v \in Workers : worker'[v].dir # d <=> worker[v].dir # d
            <7> TAKE v \in Workers
            <7>1. CASE v = w
              BY <3>2, <3>4, <5>1, <7>1
            <7>2. CASE v # w
              BY <3>1, <7>2
            <7> QED
              BY <7>1, <7>2
          <6> QED
            BY <6>1
        <5>3. d \in litter <=> \A v \in Workers : worker[v].dir # d
          BY <1>2
        <5> QED
          BY <3>1, <5>2, <5>3
      <4>2. FreeDirectory \notin litter' /\ ~\A v \in Workers : worker'[v].dir # FreeDirectory
        BY <1>2, <3>1, <3>2, <3>3
      <4> QED
        BY <3>1, <4>1, <4>2
    <3>7. litter' \subseteq directories'
      BY <1>2, <3>1
    <3>8. \A u, v \in Workers : u # v /\ worker'[u].dir = worker'[v].dir => worker'[u].dir = 0
      <4>1. \A v \in Workers : v # w => worker'[v].dir = worker[v].dir /\ worker[v].dir # FreeDirectory
        BY <1>3, <3>1, <3>3
      <4> QED
        BY <1>2, <3>2, <4>1
    <3> QED
      BY <1>5, <3>5, <3>6, <3>7, <3>8
  <2>4. CASE Review(w)
    <3>1. PICK completed \in BOOLEAN : Close(w, completed)
      BY <2>4 DEF Review
    <3>2. /\ directories' = directories \ {worker[w].dir}
          /\ worker'[w] = Idle
          /\ \A v \in Workers : v # w => worker'[v] = worker[v]
      BY <1>1, <3>1, BecomesAt DEF Close
    <3>3. litter' = litter
      BY <2>4 DEF Review
    <3>4. \A d \in directories : d # 0
      BY <1>1 DEF TypeOK
    <3>5. DirectoriesExist'
      BY <1>2, <1>4, <3>2 DEF DirectoryInv, DirectoriesExist
    <3>6. \A d \in directories' : d \in litter' <=> \A v \in Workers : worker'[v].dir # d
      BY <1>2, <1>4, <3>2, <3>3, <3>4
    <3>7. litter' \subseteq directories'
      BY <1>2, <3>2, <3>3
    <3>8. \A u, v \in Workers : u # v /\ worker'[u].dir = worker'[v].dir => worker'[u].dir = 0
      BY <1>2, <1>4, <3>2
    <3> QED
      BY <1>5, <3>5, <3>6, <3>7, <3>8
  <2> QED
    BY <1>8, <2>1, <2>2, <2>3, <2>4, DirectoryMoves
<1> QED
  BY <1>6, <1>7, <1>8 DEF Next

\* Every directory of the cache is in the hands of exactly one worker, or was left by a
\* preparation that failed half-way or was killed; no other litter, however many there are.
THEOREM DirectoriesAccounted == Spec => []DirectoriesAreAccountedFor
<1>1. Init => DirectoryInv
  <2>1. ASSUME Init PROVE DirectoryInv
    <3>1. TypeOK /\ \A w \in Workers : worker[w].dir = 0
      BY <2>1, TypeStart DEF Init, Idle
    <3> QED
      BY <2>1, <3>1 DEF Init, DirectoryInv, DirectoriesExist, DirectoriesAreAccountedFor
  <2> QED
    BY <2>1
<1> QED
  BY <1>1, DirectoryStep, PTL DEF Spec, DirectoryInv
-----------------------------------------------------------------------------
(***************************************************************************)
(* What a step does to the worker that makes it and to the mirror.         *)
(***************************************************************************)

\* The task of a preparation, which only its diff and its end change.
SameTask(w) ==
  /\ worker'[w].sha = worker[w].sha
  /\ worker'[w].previous = worker[w].previous
  /\ worker'[w].oldest = worker[w].oldest
  /\ worker'[w].incremental = worker[w].incremental

SameContents(w) == worker'[w].has = worker[w].has /\ worker'[w].target = worker[w].target
SameRequest(w) ==
  /\ worker'[w].offer = worker[w].offer
  /\ worker'[w].asked = worker[w].asked
  /\ worker'[w].empty = worker[w].empty

\* Only the pc moves.
Walks(w) ==
  /\ \/ worker[w].pc = "ensure_mirror" /\ worker'[w].pc \in {"clone_mirror", "set_url"}
     \/ worker[w].pc = "set_url" /\ worker'[w].pc = "fetch"
     \/ worker[w].pc = "mkdtemp" /\ worker'[w].pc = "clone"
     \/ worker[w].pc = "checkout" /\ worker'[w].pc = "fetch_target"
  /\ SameTask(w) /\ SameContents(w) /\ SameRequest(w)
  /\ UNCHANGED mirror

Quits(w) == worker'[w] = Idle /\ UNCHANGED mirror

\* A clone of the mirror or a fetch begins.
Asks(w) ==
  /\ \/ /\ mirror.state = "absent"
        /\ mirror'.state = "unfinished" /\ mirror'.refs = NoRefs
        /\ worker[w].pc = "clone_mirror" /\ worker'[w].pc = "cloning"
     \/ /\ mirror.state \in {"unfinished", "complete"}
        /\ UNCHANGED mirror
        /\ worker[w].pc = "fetch" /\ worker'[w].pc = "fetching"
  /\ worker'[w].offer = Offered
  /\ worker'[w].asked = worker[w].asked /\ worker'[w].empty = worker[w].empty
  /\ SameTask(w) /\ SameContents(w)

\* It ends, and the mirror is as fresh as this worker makes it.
Refreshes(w) ==
  /\ \/ /\ \/ worker[w].pc = "cloning" /\ mirror.state = "unfinished"
           \/ worker[w].pc = "fetching"
        /\ mirror'.state = "complete"
        /\ mirror'.refs.commits = mirror.refs.commits \cup worker[w].offer.commits
        /\ mirror'.refs.target = worker[w].offer.target
        /\ worker'[w].empty = FALSE
     \/ /\ worker[w].pc = "cloning"
        /\ mirror.state = "complete" /\ mirror'.state = "complete"
        /\ mirror'.refs.commits = mirror.refs.commits \cup worker[w].offer.commits
        /\ mirror'.refs.target = mirror.refs.target
        /\ worker'[w].empty = FALSE
     \/ /\ worker[w].pc = "fetching"
        /\ mirror.state = "unfinished" /\ UNCHANGED mirror
        /\ worker'[w].empty = TRUE
  /\ worker'[w].pc = "mkdtemp" /\ worker'[w].offer = NoRefs /\ worker'[w].asked = 0
  /\ SameTask(w) /\ SameContents(w)

\* The checkout is made, gets its target branch, and is diffed.
Copies(w) ==
  /\ mirror.state # "absent"
  /\ worker[w].pc = "clone" /\ worker'[w].pc = "checkout"
  /\ worker'[w].has = mirror.refs.commits /\ worker'[w].target = worker[w].target
  /\ SameTask(w) /\ SameRequest(w)
  /\ UNCHANGED mirror

GetsTarget(w) ==
  /\ mirror.state = "complete"
  /\ worker[w].pc = "fetch_target" /\ worker'[w].pc = "diff"
  /\ worker'[w].has = worker[w].has /\ worker'[w].target = mirror.refs.target
  /\ SameTask(w) /\ SameRequest(w)
  /\ UNCHANGED mirror

Diffs(w) ==
  /\ worker[w].pc = "diff" /\ worker'[w].pc = "review"
  /\ worker'[w].sha = worker[w].sha /\ worker'[w].previous = worker[w].previous
  /\ worker'[w].oldest = 0 /\ worker'[w].has = {}
  /\ worker'[w].incremental => worker[w].previous \in worker[w].has
  /\ SameRequest(w)
  /\ UNCHANGED mirror

OthersStand(w) == \A v \in Workers : v # w => worker'[v] = worker[v]

\* Every step of a worker is one of these, or removes the mirror.
LEMMA Moves ==
  ASSUME TypeOK, NEW w \in Workers, WorkerStep(w) \/ GitFails(w)
  PROVE  /\ UNCHANGED originVars
         /\ \/ At(w, "cloning") /\ RemoveMirror(w)
            \/ /\ OthersStand(w)
               /\ \/ Walks(w) \/ Quits(w) \/ Asks(w) \/ Refreshes(w)
                  \/ Copies(w) \/ GetsTarget(w) \/ Diffs(w)
<1> DEFINE Moved == /\ OthersStand(w)
                    /\ \/ Walks(w) \/ Quits(w) \/ Asks(w) \/ Refreshes(w)
                       \/ Copies(w) \/ GetsTarget(w) \/ Diffs(w)
           Removed == At(w, "cloning") /\ RemoveMirror(w)
<1>1. worker[w] \in Preparation
  BY DEF TypeOK
<1>2. ASSUME Fail(w), UNCHANGED mirror PROVE Moved
  BY <1>2, FailAt DEF Quits, OthersStand
<1>3. ASSUME NEW pc, GoTo(w, pc), UNCHANGED mirror,
             \/ worker[w].pc = "ensure_mirror" /\ pc \in {"clone_mirror", "set_url"}
             \/ worker[w].pc = "set_url" /\ pc = "fetch"
             \/ worker[w].pc = "checkout" /\ pc = "fetch_target"
      PROVE  Moved
  <2>1. /\ worker'[w] = [worker[w] EXCEPT !.pc = pc]
        /\ worker'[w].pc = pc
        /\ OthersStand(w)
    BY <1>3, GoToAt DEF OthersStand
  <2>2. SameTask(w) /\ SameContents(w) /\ SameRequest(w)
    BY <1>1, <2>1 DEF Preparation, SameTask, SameContents, SameRequest
  <2> QED
    BY <1>3, <2>1, <2>2 DEF Walks
<1>4. ASSUME EnsureMirror(w) \/ SetUrl(w) \/ CheckoutCommit(w) PROVE Moved
  BY <1>2, <1>3, <1>4 DEF EnsureMirror, SetUrl, CheckoutCommit, At
<1>5. ASSUME BeginMirror(w) PROVE Moved
  <2>1. CASE mirror.state = "absent"
    <3>1. worker'[w] = [worker[w] EXCEPT !.pc = "cloning", !.offer = Offered] /\ OthersStand(w)
      BY <1>5, <2>1, BecomesAt DEF BeginMirror, OthersStand
    <3>2. /\ worker'[w].pc = "cloning" /\ worker'[w].offer = Offered
          /\ worker'[w].asked = worker[w].asked /\ worker'[w].empty = worker[w].empty
          /\ SameTask(w) /\ SameContents(w)
      BY <1>1, <3>1 DEF Preparation, SameTask, SameContents
    <3>3. mirror'.state = "unfinished" /\ mirror'.refs = NoRefs
      BY <1>5, <2>1 DEF BeginMirror, Absent
    <3>4. worker[w].pc = "clone_mirror"
      BY <1>5 DEF BeginMirror, At
    <3> QED
      BY <2>1, <3>1, <3>2, <3>3, <3>4 DEF Asks
  <2> QED
    BY <1>2, <1>5, <2>1 DEF BeginMirror
<1>6. ASSUME BeginFetch(w) PROVE Moved
  <2>1. CASE mirror.state \in {"unfinished", "complete"}
    <3>1. /\ worker'[w] = [worker[w] EXCEPT !.pc = "fetching", !.offer = Offered, !.found = mirror.refs]
          /\ OthersStand(w)
      BY <1>6, <2>1, BecomesAt DEF BeginFetch, OthersStand
    <3>2. /\ worker'[w].pc = "fetching" /\ worker'[w].offer = Offered
          /\ worker'[w].asked = worker[w].asked /\ worker'[w].empty = worker[w].empty
          /\ SameTask(w) /\ SameContents(w)
      BY <1>1, <3>1 DEF Preparation, SameTask, SameContents
    <3> QED
      BY <1>6, <2>1, <3>1, <3>2 DEF Asks, BeginFetch, At
  <2> QED
    BY <1>2, <1>6, <2>1 DEF BeginFetch
<1>7. ASSUME NEW empty \in BOOLEAN, Refreshed(w, empty)
      PROVE  /\ worker'[w].pc = "mkdtemp" /\ worker'[w].offer = NoRefs /\ worker'[w].asked = 0
             /\ worker'[w].empty = empty
             /\ SameTask(w) /\ SameContents(w) /\ OthersStand(w)
  <2>1. /\ worker'[w] = [worker[w] EXCEPT !.pc = "mkdtemp", !.asked = 0, !.offer = NoRefs,
                                          !.found = NoRefs, !.empty = empty]
        /\ OthersStand(w)
    BY <1>7, BecomesAt DEF Refreshed, OthersStand
  <2> QED
    BY <1>1, <2>1 DEF Preparation, SameTask, SameContents
<1>8. ASSUME mirror' = Filled(worker[w].offer)
      PROVE  /\ mirror'.state = "complete"
             /\ mirror'.refs.commits = mirror.refs.commits \cup worker[w].offer.commits
             /\ mirror'.refs.target = worker[w].offer.target
  BY <1>8 DEF Filled
<1>9. ASSUME FinishMirror(w) PROVE Moved \/ Removed
  <2>1. CASE mirror.state = "unfinished" /\ mirror' = Filled(worker[w].offer) /\ Refreshed(w, FALSE)
    BY <1>7, <1>8, <1>9, <2>1 DEF Refreshes, FinishMirror, At
  <2>2. CASE /\ mirror.state = "complete"
             /\ mirror' = [mirror EXCEPT !.refs.commits = @ \cup worker[w].offer.commits]
             /\ Refreshed(w, FALSE)
    <3>1. /\ mirror'.state = "complete"
          /\ mirror'.refs.commits = mirror.refs.commits \cup worker[w].offer.commits
          /\ mirror'.refs.target = mirror.refs.target
      BY <2>2 DEF TypeOK, Refs
    <3> QED
      BY <1>7, <1>9, <2>2, <3>1 DEF Refreshes, FinishMirror, At
  <2> QED
    BY <1>9, <2>1, <2>2 DEF FinishMirror
<1>10. ASSUME FinishFetch(w) PROVE Moved
  BY <1>2, <1>7, <1>8, <1>10 DEF Refreshes, FinishFetch, At
<1>11. ASSUME MakeDirectory(w) PROVE Moved
  <2>1. worker'[w] = [worker[w] EXCEPT !.pc = "clone", !.dir = FreeDirectory] /\ OthersStand(w)
    BY <1>11, BecomesAt DEF MakeDirectory, OthersStand
  <2>2. worker'[w].pc = "clone" /\ SameTask(w) /\ SameContents(w) /\ SameRequest(w)
    BY <1>1, <2>1 DEF Preparation, SameTask, SameContents, SameRequest
  <2> QED
    BY <1>11, <2>1, <2>2 DEF Walks, MakeDirectory, At
<1>12. ASSUME CloneMirror(w) PROVE Moved
  <2>1. CASE mirror.state # "absent"
    <3>1. worker'[w] = [worker[w] EXCEPT !.pc = "checkout", !.has = mirror.refs.commits] /\ OthersStand(w)
      BY <1>12, <2>1, BecomesAt DEF CloneMirror, OthersStand
    <3>2. /\ worker'[w].pc = "checkout" /\ worker'[w].has = mirror.refs.commits
          /\ worker'[w].target = worker[w].target
          /\ SameTask(w) /\ SameRequest(w)
      BY <1>1, <3>1 DEF Preparation, SameTask, SameRequest
    <3> QED
      BY <1>12, <2>1, <3>1, <3>2 DEF Copies, CloneMirror, At
  <2> QED
    BY <1>2, <1>12, <2>1 DEF CloneMirror
<1>13. ASSUME FetchTarget(w) PROVE Moved
  <2>1. CASE mirror.state = "complete"
    <3>1. worker'[w] = [worker[w] EXCEPT !.pc = "diff", !.target = mirror.refs.target] /\ OthersStand(w)
      BY <1>13, <2>1, BecomesAt DEF FetchTarget, OthersStand
    <3>2. /\ worker'[w].pc = "diff" /\ worker'[w].has = worker[w].has
          /\ worker'[w].target = mirror.refs.target
          /\ SameTask(w) /\ SameRequest(w)
      BY <1>1, <3>1 DEF Preparation, SameTask, SameRequest
    <3> QED
      BY <1>13, <2>1, <3>1, <3>2 DEF GetsTarget, FetchTarget, At
  <2> QED
    BY <1>2, <1>13, <2>1 DEF FetchTarget
<1>14. ASSUME Diff(w) PROVE Moved
  <2> DEFINE b == worker[w].previous \in worker[w].has \ {worker[w].sha}
             p == [worker[w] EXCEPT !.pc = "review", !.oldest = 0, !.target = 0, !.has = {},
                                    !.incremental = b]
  <2>1. worker'[w] = p /\ OthersStand(w)
    BY <1>14, BecomesAt DEF Diff, OthersStand
  <2>2. /\ p.pc = "review" /\ p.sha = worker[w].sha /\ p.previous = worker[w].previous
        /\ p.oldest = 0 /\ p.has = {} /\ p.incremental = b
        /\ p.offer = worker[w].offer /\ p.asked = worker[w].asked /\ p.empty = worker[w].empty
    <3> HIDE DEF b
    <3> QED
      BY <1>1 DEF Preparation
  <2>3. b => worker[w].previous \in worker[w].has
    OBVIOUS
  <2>4. worker[w].pc = "diff" /\ UNCHANGED mirror
    BY <1>14 DEF Diff, At
  <2> HIDE DEF p, b
  <2> QED
    BY <2>1, <2>2, <2>3, <2>4 DEF Diffs, SameRequest
<1>15. ASSUME Review(w) PROVE Moved
  BY <1>15, BecomesAt DEF Review, Close, Quits, OthersStand
<1>16. ASSUME GitFails(w) PROVE Moved \/ Removed
  BY <1>2, <1>16 DEF GitFails
<1>17. UNCHANGED originVars
  BY DEF WorkerStep, EnsureMirror, BeginMirror, FinishMirror, SetUrl, BeginFetch, FinishFetch,
     MakeDirectory, CloneMirror, CheckoutCommit, FetchTarget, Diff, Review, GitFails, OwnOnly
<1> QED
  BY <1>4, <1>5, <1>6, <1>9, <1>10, <1>11, <1>12, <1>13, <1>14, <1>15, <1>16, <1>17 DEF WorkerStep
-----------------------------------------------------------------------------
(***************************************************************************)
(* Which commits are known, and what a rebase does.                        *)
(***************************************************************************)

\* What the server, the mirror and the checkouts hold was pushed; a previous
\* commit is no newer than the head, and no webhook said that its target moved.
KnownCommits ==
  /\ mirror.refs.commits \subseteq 1..Newest
  /\ reviewed <= Newest
  /\ \A w \in Workers :
       /\ worker[w].offer.commits \subseteq 1..Newest
       /\ worker[w].has \subseteq 1..Newest
       /\ worker[w].sha <= Newest
       /\ worker[w].previous <= worker[w].sha
       /\ worker[w].previous # 0 => ~TargetMoved(worker[w].previous, worker[w].sha)
       /\ worker[w].incremental => worker[w].previous # 0

\* A commit contains no newer version of the target than its webhook named, if
\* it named one, and none that is not there yet.
BasesGrow ==
  /\ \A i \in 1..Newest : /\ commits[i].target # 0 => commits[i].base <= commits[i].target
                          /\ commits[i].base <= target
  /\ \A i, j \in 1..Newest : i <= j => commits[i].base <= commits[j].base

CommitInv == TypeOK /\ KnownCommits /\ BasesGrow

LEMMA CommitTypes ==
  ASSUME TypeOK
  PROVE  /\ Newest \in Nat /\ target \in Nat
         /\ \A i \in 1..Newest : commits[i].base \in Nat /\ commits[i].target \in Nat
<1>1. commits \in Seq(Commit) /\ target \in Nat
  BY DEF TypeOK
<1>2. Newest \in Nat /\ \A i \in 1..Newest : commits[i] \in Commit
  BY <1>1 DEF Newest
<1> QED
  BY <1>1, <1>2 DEF Commit

\* A push keeps what was pushed before.
LEMMA PushAt ==
  ASSUME TypeOK, NEW forced \in BOOLEAN, NEW rebased \in BOOLEAN, NEW named \in BOOLEAN,
         Push(forced, rebased, named)
  PROVE  /\ Newest \in Nat \ {0} /\ Newest' = Newest + 1
         /\ \A i \in 1..Newest : commits'[i] = commits[i]
         /\ commits'[Newest + 1].base = IF rebased THEN target ELSE commits[Newest].base
         /\ commits'[Newest + 1].target = IF named THEN target ELSE 0
         /\ reachable' \subseteq reachable \cup {Newest + 1}
         /\ UNCHANGED <<target, mirror, worker, directories, reviewed>>
<1> DEFINE new == [base |-> IF rebased THEN target ELSE commits[Newest].base,
                   target |-> IF named THEN target ELSE 0]
<1>1. commits' = Append(commits, new) /\ new.target = (IF named THEN target ELSE 0)
      /\ new.base = IF rebased THEN target ELSE commits[Newest].base
  BY DEF Push
<1>2. Newest \in Nat \ {0} /\ commits[Newest] \in Commit
  BY DEF TypeOK, Newest
<1>3. new \in Commit
  BY <1>2 DEF TypeOK, Commit
<1> HIDE DEF new
<1>4. Len(commits') = Len(commits) + 1 /\ commits'[Len(commits) + 1] = new
      /\ \A i \in 1..Len(commits) : commits'[i] = commits[i]
  BY <1>1, <1>3 DEF TypeOK
<1> QED
  BY <1>1, <1>2, <1>4 DEF Newest, Push

LEMMA BasesStep == CommitInv /\ [Next]_vars => BasesGrow'
<1> SUFFICES ASSUME CommitInv, [Next]_vars PROVE BasesGrow'
  OBVIOUS
<1>1. TypeOK /\ BasesGrow
  BY DEF CommitInv
<1>2. /\ Newest \in Nat /\ target \in Nat
      /\ \A i \in 1..Newest : commits[i].base \in Nat /\ commits[i].target \in Nat
  BY <1>1, CommitTypes
<1>3. ASSUME NEW forced \in BOOLEAN, NEW rebased \in BOOLEAN, NEW named \in BOOLEAN,
             Push(forced, rebased, named)
      PROVE  BasesGrow'
  <2> DEFINE n == Newest
  <2>1. /\ n \in Nat \ {0} /\ Newest' = n + 1 /\ target' = target
        /\ \A i \in 1..n : commits'[i] = commits[i]
        /\ commits'[n + 1].base = IF rebased THEN target ELSE commits[n].base
        /\ commits'[n + 1].target \in {0, target}
    BY <1>1, <1>3, PushAt
  <2>2. /\ \A i \in 1..n : /\ commits[i].target # 0 => commits[i].base <= commits[i].target
                          /\ commits[i].base <= target
        /\ \A i, j \in 1..n : i <= j => commits[i].base <= commits[j].base
        /\ \A i \in 1..n : commits[i].base \in Nat /\ commits[i].target \in Nat
    BY <1>1, <1>2 DEF BasesGrow
  <2> HIDE DEF n
  <2>3. \A i \in 1..n : commits[i].base <= commits'[n + 1].base
    <3> TAKE i \in 1..n
    <3>1. commits[i].base <= commits[n].base /\ commits[i].base <= target
      BY <1>2, <2>1, <2>2
    <3> QED
      BY <2>1, <3>1
  <2>4. commits'[n + 1].base <= target /\ commits'[n + 1].base \in Nat
    <3>1. commits[n].base <= target /\ commits[n].base \in Nat
      BY <1>2, <2>1, <2>2
    <3> QED
      BY <1>2, <2>1, <3>1
  <2>5. \A i \in 1..(n + 1) : i \in 1..n \/ i = n + 1
    BY <2>1
  <2>6. \A i \in 1..Newest' : /\ commits'[i].target # 0 => commits'[i].base <= commits'[i].target
                             /\ commits'[i].base <= target'
    BY <1>2, <2>1, <2>2, <2>4, <2>5
  <2>7. ASSUME NEW i \in 1..(n + 1), NEW j \in 1..(n + 1), i <= j
        PROVE  commits'[i].base <= commits'[j].base
    <3>1. CASE j \in 1..n
      BY <2>1, <2>2, <2>7, <3>1
    <3>2. CASE j = n + 1 /\ i \in 1..n
      BY <2>1, <2>3, <3>2
    <3>3. CASE j = n + 1 /\ i = n + 1
      BY <2>4, <3>3
    <3> QED
      BY <2>5, <3>1, <3>2, <3>3
  <2> QED
    BY <2>1, <2>6, <2>7 DEF BasesGrow
<1>4. CASE MoveTarget
  <2>1. target' = target + 1 /\ commits' = commits /\ Newest' = Newest
    BY <1>4 DEF MoveTarget, Newest
  <2> QED
    BY <1>1, <1>2, <2>1 DEF BasesGrow
<1>5. ASSUME UNCHANGED originVars PROVE BasesGrow'
  BY <1>1, <1>5 DEF BasesGrow, originVars, Newest
<1>6. ASSUME NEW w \in Workers, Start(w) \/ WorkerStep(w) \/ GitFails(w) PROVE UNCHANGED originVars
  BY <1>1, <1>6, Moves DEF Start, OwnOnly
<1> QED
  BY <1>3, <1>4, <1>5, <1>6 DEF Next, Restart, vars

\* The part of KnownCommits that is about one worker.
KnownTo(w) ==
  /\ worker[w].offer.commits \subseteq 1..Newest
  /\ worker[w].has \subseteq 1..Newest
  /\ worker[w].sha <= Newest
  /\ worker[w].previous <= worker[w].sha
  /\ worker[w].previous # 0 => ~TargetMoved(worker[w].previous, worker[w].sha)
  /\ worker[w].incremental => worker[w].previous # 0

LEMMA KnownStep == CommitInv /\ [Next]_vars => KnownCommits'
<1> SUFFICES ASSUME CommitInv, [Next]_vars PROVE KnownCommits'
  OBVIOUS
<1>1. TypeOK /\ TypeOK' /\ KnownCommits
  BY TypeStep DEF CommitInv
<1>2. /\ Newest \in Nat \ {0} /\ reviewed \in Nat /\ reachable \subseteq 1..Newest
      /\ \A w \in Workers : worker[w].sha \in Nat /\ worker[w].previous \in Nat
      /\ \A w \in Workers : KnownTo(w)
  BY <1>1 DEF TypeOK, Newest, Preparation, KnownCommits, KnownTo
<1>3. ASSUME mirror'.refs.commits \subseteq 1..Newest', reviewed' <= Newest',
             \A w \in Workers : KnownTo(w)'
      PROVE  KnownCommits'
  BY <1>3 DEF KnownCommits, KnownTo
<1>4. ASSUME NEW forced \in BOOLEAN, NEW rebased \in BOOLEAN, NEW named \in BOOLEAN,
             Push(forced, rebased, named)
      PROVE  KnownCommits'
  <2>1. /\ Newest' = Newest + 1
        /\ \A i \in 1..Newest : commits'[i] = commits[i]
        /\ UNCHANGED <<mirror, worker, reviewed>>
    BY <1>1, <1>4, PushAt
  <2>2. ASSUME NEW w \in Workers PROVE KnownTo(w)'
    <3>1. worker[w].previous # 0 => worker[w].previous \in 1..Newest /\ worker[w].sha \in 1..Newest
      BY <1>2 DEF KnownTo
    <3>2. 1..Newest \subseteq 1..(Newest + 1) /\ worker[w].sha <= Newest + 1
      BY <1>2 DEF KnownTo
    <3> QED
      BY <1>2, <2>1, <3>1, <3>2 DEF KnownTo, TargetMoved
  <2>3. mirror'.refs.commits \subseteq 1..Newest' /\ reviewed' <= Newest'
    BY <1>1, <1>2, <2>1 DEF KnownCommits
  <2> QED
    BY <1>3, <2>2, <2>3
<1>5. ASSUME UNCHANGED originVars, NEW w \in Workers, worker'[w] = worker[w] PROVE KnownTo(w)'
  BY <1>2, <1>5 DEF KnownTo, TargetMoved, originVars, Newest
<1>6. ASSUME UNCHANGED originVars, NEW w \in Workers, worker'[w] = Idle PROVE KnownTo(w)'
  <2>1. /\ worker'[w].offer.commits = {} /\ worker'[w].has = {} /\ worker'[w].sha = 0
        /\ worker'[w].previous = 0 /\ worker'[w].incremental = FALSE
    BY <1>6 DEF Idle, NoRefs
  <2>2. Newest' = Newest
    BY <1>6 DEF originVars, Newest
  <2> QED
    BY <1>2, <2>1, <2>2 DEF KnownTo
<1>7. CASE MoveTarget
  <2>1. UNCHANGED <<commits, mirror, worker, reviewed>> /\ Newest' = Newest
    BY <1>7 DEF MoveTarget, Newest
  <2> QED
    BY <1>1, <2>1 DEF KnownCommits, TargetMoved
<1>8. CASE Restart
  <2>1. UNCHANGED originVars /\ \A w \in Workers : worker'[w] = Idle
    BY <1>8 DEF Restart
  <2>2. mirror'.refs = mirror.refs /\ reviewed' = reviewed /\ Newest' = Newest
    BY <1>1, <1>8 DEF Restart, TypeOK, originVars, Newest
  <2> QED
    BY <1>1, <1>3, <1>6, <2>1, <2>2 DEF KnownCommits
<1>9. ASSUME NEW w \in Workers, Start(w) PROVE KnownCommits'
  <2>1. /\ UNCHANGED originVars /\ \A v \in Workers : v # w => worker'[v] = worker[v]
        /\ UNCHANGED <<mirror, reviewed>>
    BY <1>1, <1>9, StartAt
  <2>2. /\ worker'[w].sha = Newest /\ worker'[w].previous \in {0, IncrementalBase(Newest)}
        /\ worker'[w].has = {} /\ worker'[w].offer.commits = {} /\ worker'[w].incremental = FALSE
    <3>1. NoRefs.commits = {}
      BY DEF NoRefs
    <3> QED
      BY <1>1, <1>9, <3>1, StartAt
  <2>3. Newest' = Newest /\ commits' = commits
    BY <2>1 DEF originVars, Newest
  <2>4. worker'[w].previous # 0 =>
          worker'[w].previous = reviewed /\ ~TargetMoved(reviewed, Newest)
    BY <2>2 DEF IncrementalBase
  <2>5. worker'[w].previous <= Newest
    BY <1>1, <1>2, <2>4 DEF KnownCommits
  <2>6. KnownTo(w)'
    BY <1>2, <2>2, <2>3, <2>4, <2>5 DEF KnownTo, TargetMoved
  <2> QED
    BY <1>1, <1>3, <1>5, <2>1, <2>3, <2>6 DEF KnownCommits
<1>10. ASSUME NEW w \in Workers, WorkerStep(w) \/ GitFails(w) PROVE KnownCommits'
  <2>1. UNCHANGED originVars /\ Newest' = Newest /\ commits' = commits
    BY <1>1, <1>10, Moves DEF originVars, Newest
  <2>2. reviewed' <= Newest'
    <3>1. reviewed' = reviewed \/ reviewed' = worker[w].sha
      BY <1>10 DEF WorkerStep, EnsureMirror, BeginMirror, FinishMirror, SetUrl, BeginFetch,
         FinishFetch, MakeDirectory, CloneMirror, CheckoutCommit, FetchTarget, Diff, Review,
         GitFails, OwnOnly
    <3> QED
      BY <1>1, <1>2, <2>1, <3>1 DEF KnownCommits
  <2>3. CASE RemoveMirror(w)
    <3>1. mirror'.refs.commits = {} /\ \A v \in Workers : worker'[v] = worker[v] \/ worker'[v] = Idle
      BY <2>3 DEF RemoveMirror, Absent, NoRefs
    <3> QED
      BY <1>3, <1>5, <1>6, <2>1, <2>2, <3>1
  <2>4. ASSUME OthersStand(w), mirror'.refs.commits \subseteq 1..Newest, KnownTo(w)'
        PROVE  KnownCommits'
    BY <1>3, <1>5, <2>1, <2>2, <2>4 DEF OthersStand
  <2>5. mirror.refs.commits \subseteq 1..Newest
    BY <1>1 DEF KnownCommits
  <2>6. KnownTo(w)
    BY <1>2
  <2>7. CASE OthersStand(w) /\ Walks(w)
    BY <2>1, <2>4, <2>5, <2>6, <2>7 DEF Walks, SameTask, SameContents, SameRequest, KnownTo, TargetMoved
  <2>8. CASE OthersStand(w) /\ Quits(w)
    BY <1>6, <2>1, <2>4, <2>5, <2>8 DEF Quits
  <2>9. CASE OthersStand(w) /\ Asks(w)
    BY <1>2, <2>1, <2>4, <2>5, <2>6, <2>9
       DEF Asks, SameTask, SameContents, KnownTo, TargetMoved, NoRefs, Offered
  <2>10. CASE OthersStand(w) /\ Refreshes(w)
    <3>1. mirror'.refs.commits \subseteq 1..Newest
      BY <2>5, <2>6, <2>10 DEF Refreshes, KnownTo
    <3> QED
      BY <2>1, <2>4, <2>6, <2>10, <3>1 DEF Refreshes, SameTask, SameContents, KnownTo, TargetMoved, NoRefs
  <2>11. CASE OthersStand(w) /\ (Copies(w) \/ GetsTarget(w))
    BY <2>1, <2>4, <2>5, <2>6, <2>11 DEF Copies, GetsTarget, SameTask, SameRequest, KnownTo, TargetMoved
  <2>12. CASE OthersStand(w) /\ Diffs(w)
    <3>1. worker'[w].incremental => worker[w].previous # 0
      BY <1>2, <2>6, <2>12 DEF Diffs, KnownTo
    <3> QED
      BY <2>1, <2>4, <2>5, <2>6, <2>12, <3>1 DEF Diffs, SameRequest, KnownTo, TargetMoved
  <2> QED
    BY <1>1, <1>10, <2>3, <2>7, <2>8, <2>9, <2>10, <2>11, <2>12, Moves
<1>11. CASE UNCHANGED vars
  BY <1>1, <1>11 DEF vars, originVars, KnownCommits, TargetMoved, Newest
<1> QED
  BY <1>4, <1>7, <1>8, <1>9, <1>10, <1>11 DEF Next

LEMMA CommitStart == Init => CommitInv
<1> SUFFICES ASSUME Init PROVE CommitInv
  OBVIOUS
<1>1. TypeOK
  BY TypeStart
<1>2. PICK base \in {0, 1}, named \in {0, 1} : commits = <<[base |-> base, target |-> named]>>
  BY DEF Init
<1>3. Newest = 1 /\ commits[1].base = base /\ commits[1].target = named /\ target = 1
  BY <1>2 DEF Init, Newest
<1>4. BasesGrow
  BY <1>2, <1>3 DEF BasesGrow
<1>5. \A w \in Workers : worker[w] = Idle
  BY DEF Init
<1>6. KnownCommits
  BY <1>3, <1>5 DEF Init, KnownCommits, Idle, NoRefs, Absent
<1> QED
  BY <1>1, <1>4, <1>6 DEF CommitInv

\* The commit reviewed before contained all of its target, the head's webhook
\* named the same one, and bases only grow: so the head contains the same version.
LEMMA RebaseFollows == CommitInv => RebaseAddsNoNoise
<1> SUFFICES ASSUME CommitInv, NEW w \in Workers, worker[w].incremental,
                    commits[worker[w].previous].target # 0,
                    commits[worker[w].sha].target # 0,
                    commits[worker[w].previous].base = commits[worker[w].previous].target
             PROVE  commits[worker[w].sha].base = commits[worker[w].previous].base
  BY DEF RebaseAddsNoNoise
<1> DEFINE p == worker[w].previous
           s == worker[w].sha
<1>1. /\ worker[w] \in Preparation /\ Newest \in Nat
      /\ \A i \in 1..Newest : commits[i].base \in Nat /\ commits[i].target \in Nat
  BY CommitTypes DEF CommitInv, TypeOK
<1>2. p # 0 /\ p <= s /\ s <= Newest /\ commits[p].target = commits[s].target
  BY DEF CommitInv, KnownCommits, TargetMoved
<1>3. p \in 1..Newest /\ s \in 1..Newest
  BY <1>1, <1>2 DEF Preparation
<1>4. commits[p].base <= commits[s].base /\ commits[s].base <= commits[s].target
  BY <1>2, <1>3 DEF CommitInv, BasesGrow
<1> QED
  BY <1>1, <1>2, <1>3, <1>4

\* When both webhooks named the target and the commit reviewed before was up to
\* date, a rebase onto a moved target adds nothing to the incremental diff,
\* however many pushes, forced or not, lie between the two commits.
THEOREM RebasesAddNoNoise == Spec => []RebaseAddsNoNoise
<1>1. CommitInv /\ [Next]_vars => CommitInv'
  BY TypeStep, KnownStep, BasesStep DEF CommitInv
<1> QED
  BY CommitStart, <1>1, RebaseFollows, PTL DEF Spec
-----------------------------------------------------------------------------
(***************************************************************************)
(* How the head gets into a checkout.                                      *)
(***************************************************************************)

\* While somebody is at work in the mirror it exists, and it is cloned by one
\* worker at a time; that a fetch brought nothing is known when it has ended.
MirrorInUse ==
  /\ \A w \in Workers : worker[w].pc \in {"cloning", "fetching"} => mirror.state # "absent"
  /\ \A w, v \in Workers : At(w, "cloning") /\ At(v, "cloning") => w = v
  /\ mirror.state = "absent" => mirror.refs = NoRefs
  /\ \A w \in Workers : Refreshing(w) => ~worker[w].empty

\* The head of a worker is in what it is offered, then in the mirror or in all
\* that is about to be written to an empty one, then in its checkout.
ArrivesFor(w) ==
  worker[w].sha \in reachable /\ ~worker[w].empty =>
    /\ worker[w].pc \in {"cloning", "fetching"} => worker[w].sha \in worker[w].offer.commits
    /\ worker[w].pc \in {"mkdtemp", "clone"} =>
         \/ worker[w].sha \in mirror.refs.commits
         \/ /\ mirror.refs.commits = {}
            /\ \A v \in Workers : worker[v].pc \in {"cloning", "fetching"} =>
                 worker[w].sha \in worker[v].offer.commits
    /\ worker[w].has # {} => worker[w].sha \in worker[w].has

HeadArrives == \A w \in Workers : ArrivesFor(w)

MirrorInv == CommitInv /\ MirrorInUse /\ HeadArrives

LEMMA InUseStep == MirrorInv /\ [Next]_vars => MirrorInUse'
<1> SUFFICES ASSUME MirrorInv, [Next]_vars PROVE MirrorInUse'
  OBVIOUS
<1>1. TypeOK /\ MirrorInUse
  BY DEF MirrorInv, CommitInv
<1>2. Idle.pc = "idle"
  BY DEF Idle
<1>3. CASE \/ \E forced, rebased, named \in BOOLEAN : Push(forced, rebased, named)
           \/ MoveTarget
           \/ UNCHANGED vars
  <2>1. UNCHANGED <<mirror, worker>>
    BY <1>3 DEF Push, MoveTarget, vars
  <2> QED
    BY <1>1, <2>1 DEF MirrorInUse, At, Refreshing
<1>4. CASE Restart
  <2>1. \A w \in Workers : worker'[w].pc = "idle"
    BY <1>2, <1>4 DEF Restart
  <2>2. mirror' = mirror \/ mirror'.state = "broken"
    BY <1>1, <1>4 DEF Restart, TypeOK
  <2> QED
    BY <1>1, <2>1, <2>2 DEF MirrorInUse, At, Refreshing, InMirror
<1>5. ASSUME NEW w \in Workers, Start(w) PROVE MirrorInUse'
  <2>1. /\ worker'[w].pc = "ensure_mirror" /\ worker'[w].empty = FALSE /\ mirror' = mirror
        /\ \A v \in Workers : v # w => worker'[v] = worker[v]
    BY <1>1, <1>5, StartAt
  <2> QED
    BY <1>1, <2>1 DEF MirrorInUse, At, Refreshing
<1>6. ASSUME NEW w \in Workers, WorkerStep(w) \/ GitFails(w) PROVE MirrorInUse'
  <2>1. CASE At(w, "cloning") /\ RemoveMirror(w)
    <3>1. /\ mirror'.state = "absent" /\ mirror'.refs = NoRefs
          /\ \A v \in Workers : worker'[v] = IF v = w \/ At(v, "fetching") THEN Idle ELSE worker[v]
      BY <2>1 DEF RemoveMirror, Absent
    <3>2. \A v \in Workers : worker'[v].pc \notin {"cloning", "fetching"}
      BY <1>1, <1>2, <2>1, <3>1 DEF MirrorInUse, At
    <3>3. \A v \in Workers : Refreshing(v)' => worker'[v] = worker[v]
      BY <1>2, <3>1 DEF Refreshing, InMirror
    <3> QED
      BY <1>1, <3>1, <3>2, <3>3 DEF MirrorInUse, At, Refreshing
  <2>2. ASSUME OthersStand(w),
               mirror'.state = "absent" => mirror'.refs = NoRefs /\ mirror.state = "absent",
               worker'[w].pc \in {"cloning", "fetching"} => mirror'.state # "absent",
               worker'[w].pc = "cloning" => mirror.state = "absent",
               Refreshing(w)' => Refreshing(w) /\ worker'[w].empty = worker[w].empty
        PROVE  MirrorInUse'
    <3>1. \A v \in Workers : v # w => worker'[v] = worker[v]
      BY <2>2 DEF OthersStand
    <3>2. \A v \in Workers : Refreshing(v)' => ~worker'[v].empty
      BY <1>1, <2>2, <3>1 DEF MirrorInUse, Refreshing
    <3>3. \A v \in Workers : worker'[v].pc \in {"cloning", "fetching"} => mirror'.state # "absent"
      BY <1>1, <2>2, <3>1 DEF MirrorInUse
    <3>4. \A u, v \in Workers : worker'[u].pc = "cloning" /\ worker'[v].pc = "cloning" => u = v
      BY <1>1, <2>2, <3>1 DEF MirrorInUse, At
    <3> QED
      BY <2>2, <3>2, <3>3, <3>4 DEF MirrorInUse, At
  <2>3. CASE OthersStand(w) /\ Asks(w)
    BY <2>2, <2>3 DEF Asks, Refreshing, InMirror
  <2>4. CASE OthersStand(w) /\ Refreshes(w)
    <3>1. Refreshing(w)' => FALSE
      BY <2>4 DEF Refreshes, Refreshing, InMirror
    <3>2. worker'[w].pc = "mkdtemp"
      BY <2>4 DEF Refreshes
    <3>3. mirror'.state # "absent"
      BY <2>4 DEF Refreshes
    <3> QED
      BY <2>2, <2>4, <3>1, <3>2, <3>3
  <2>5. CASE OthersStand(w) /\ (Walks(w) \/ Quits(w) \/ Copies(w) \/ GetsTarget(w) \/ Diffs(w))
    <3>1. mirror' = mirror /\ worker'[w].pc \notin {"cloning", "fetching"}
      BY <1>2, <2>5 DEF Walks, Quits, Copies, GetsTarget, Diffs
    <3>2. Refreshing(w)' => Refreshing(w) /\ worker'[w].empty = worker[w].empty
      BY <1>2, <2>5 DEF Walks, Quits, Copies, GetsTarget, Diffs, SameRequest, Refreshing, InMirror
    <3>3. mirror'.state = "absent" => mirror'.refs = NoRefs /\ mirror.state = "absent"
      BY <1>1, <3>1 DEF MirrorInUse
    <3> QED
      BY <2>2, <2>5, <3>1, <3>2, <3>3
  <2> QED
    BY <1>1, <1>6, <2>1, <2>3, <2>4, <2>5, Moves
<1> QED
  BY <1>3, <1>4, <1>5, <1>6 DEF Next

\* Nothing arrives where nothing is under way.
LEMMA IdleArrives ==
  ASSUME NEW w \in Workers, worker'[w] = Idle
  PROVE  ArrivesFor(w)'
<1>1. worker'[w].pc = "idle" /\ worker'[w].has = {}
  BY DEF Idle
<1> QED
  BY <1>1 DEF ArrivesFor

LEMMA ArrivesStep == MirrorInv /\ [Next]_vars => HeadArrives'
<1> SUFFICES ASSUME MirrorInv, [Next]_vars PROVE HeadArrives'
  OBVIOUS
<1>1. TypeOK /\ KnownCommits /\ MirrorInUse /\ \A w \in Workers : ArrivesFor(w)
  BY DEF MirrorInv, CommitInv, HeadArrives
<1> DEFINE Fetching == {"cloning", "fetching"}
           Arriving == {"mkdtemp", "clone"}
<1>2. ASSUME NEW forced \in BOOLEAN, NEW rebased \in BOOLEAN, NEW named \in BOOLEAN,
             Push(forced, rebased, named)
      PROVE  HeadArrives'
  <2>1. /\ Newest \in Nat /\ reachable' \subseteq reachable \cup {Newest + 1}
        /\ UNCHANGED <<mirror, worker>>
    BY <1>1, <1>2, PushAt
  <2>2. \A w \in Workers : worker[w].sha \in Nat /\ worker[w].sha <= Newest
    BY <1>1 DEF KnownCommits, TypeOK, Preparation
  <2>3. \A w \in Workers : worker'[w].sha \in reachable' => worker[w].sha \in reachable
    BY <2>1, <2>2
  <2>4. \A w \in Workers : ArrivesFor(w)'
    BY <1>1, <2>1, <2>3 DEF ArrivesFor
  <2> QED
    BY <2>4 DEF HeadArrives
<1>3. CASE MoveTarget \/ UNCHANGED vars
  <2>1. UNCHANGED <<mirror, worker, reachable>>
    BY <1>3 DEF MoveTarget, vars, originVars
  <2> QED
    BY <1>1, <2>1 DEF HeadArrives, ArrivesFor
<1>4. CASE Restart
  <2>1. \A w \in Workers : worker'[w] = Idle
    BY <1>4 DEF Restart
  <2> QED
    BY <2>1, IdleArrives DEF HeadArrives
\* The others: their own record stays, and the mirror only gains, or what is
\* written to an empty one holds their head as well.
<1>5. ASSUME NEW w \in Workers, OthersStand(w), reachable' = reachable, ArrivesFor(w)',
             mirror.refs.commits \subseteq mirror'.refs.commits,
             \/ mirror'.refs.commits = mirror.refs.commits
             \/ /\ worker[w].pc \in Fetching
                /\ worker[w].offer.commits \subseteq mirror'.refs.commits,
             \/ worker'[w].pc \notin Fetching
             \/ worker'[w].offer.commits = reachable
      PROVE  HeadArrives'
  <2>1. ASSUME NEW v \in Workers, v # w PROVE ArrivesFor(v)'
    <3>1. SUFFICES ASSUME worker[v].sha \in reachable, ~worker[v].empty
                   PROVE  ArrivesFor(v)'
      BY <1>5, <2>1 DEF ArrivesFor, OthersStand
    <3>2. /\ worker'[v] = worker[v]
          /\ worker[v].pc \in Fetching => worker[v].sha \in worker[v].offer.commits
          /\ worker[v].has # {} => worker[v].sha \in worker[v].has
      BY <1>1, <1>5, <2>1, <3>1 DEF ArrivesFor, OthersStand
    <3>3. ASSUME worker[v].pc \in Arriving, worker[v].sha \notin mirror'.refs.commits
          PROVE  /\ mirror'.refs.commits = {}
                 /\ \A u \in Workers : worker'[u].pc \in Fetching =>
                      worker[v].sha \in worker'[u].offer.commits
      <4>1. /\ mirror.refs.commits = {}
            /\ \A u \in Workers : worker[u].pc \in Fetching => worker[v].sha \in worker[u].offer.commits
        BY <1>1, <1>5, <3>1, <3>3 DEF ArrivesFor
      <4>2. mirror'.refs.commits = mirror.refs.commits
        BY <1>5, <3>3, <4>1
      <4>3. ASSUME NEW u \in Workers, worker'[u].pc \in Fetching
            PROVE  worker[v].sha \in worker'[u].offer.commits
        <5>1. CASE u = w
          BY <1>5, <3>1, <4>3, <5>1
        <5>2. CASE u # w
          BY <1>5, <4>1, <4>3, <5>2 DEF OthersStand
        <5> QED
          BY <5>1, <5>2
      <4> QED
        BY <4>1, <4>2, <4>3
    <3> QED
      BY <3>2, <3>3 DEF ArrivesFor
  <2> QED
    BY <1>5, <2>1 DEF HeadArrives
<1>6. ASSUME NEW w \in Workers, Start(w) PROVE HeadArrives'
  <2>1. /\ worker'[w].pc = "ensure_mirror" /\ worker'[w].has = {}
        /\ mirror' = mirror /\ reachable' = reachable /\ OthersStand(w)
    BY <1>1, <1>6, StartAt DEF OthersStand, originVars
  <2>2. ArrivesFor(w)'
    BY <2>1 DEF ArrivesFor
  <2> QED
    BY <1>5, <2>1, <2>2
<1>7. ASSUME NEW w \in Workers, WorkerStep(w) \/ GitFails(w) PROVE HeadArrives'
  <2>1. reachable' = reachable
    BY <1>1, <1>7, Moves DEF originVars
  <2>2. CASE At(w, "cloning") /\ RemoveMirror(w)
    <3>1. /\ mirror'.refs.commits = {}
          /\ \A v \in Workers : worker'[v] = IF v = w \/ At(v, "fetching") THEN Idle ELSE worker[v]
      BY <2>2 DEF RemoveMirror, Absent, NoRefs
    <3>2. \A v \in Workers : worker'[v].pc \notin Fetching
      BY <1>1, <2>2, <3>1 DEF MirrorInUse, At, Idle
    <3>3. \A v \in Workers : ArrivesFor(v)'
      <4> TAKE v \in Workers
      <4>1. CASE worker'[v] = Idle
        BY <4>1, IdleArrives
      <4>2. CASE worker'[v] = worker[v]
        BY <1>1, <2>1, <3>1, <3>2, <4>2 DEF ArrivesFor
      <4> QED
        BY <3>1, <4>1, <4>2
    <3> QED
      BY <3>3 DEF HeadArrives
  <2>3. CASE OthersStand(w) /\ Quits(w)
    <3>1. worker'[w] = Idle /\ mirror' = mirror
      BY <2>3 DEF Quits
    <3>2. worker'[w].pc \notin Fetching
      BY <3>1 DEF Idle
    <3>3. ArrivesFor(w)'
      BY <3>1, IdleArrives
    <3> QED
      BY <1>5, <2>1, <2>3, <3>1, <3>2, <3>3
  <2>4. CASE OthersStand(w) /\ Walks(w)
    <3>1. worker'[w].pc \notin Fetching /\ mirror' = mirror
      BY <2>4 DEF Walks
    <3>2. \A u \in Workers : worker'[u].pc \in Fetching => worker'[u] = worker[u]
      BY <2>4, <3>1 DEF OthersStand
    <3>3. worker'[w].pc \in Arriving => worker[w].pc = "mkdtemp"
      BY <2>4 DEF Walks
    <3>4. ArrivesFor(w)'
      BY <1>1, <2>1, <2>4, <3>1, <3>2, <3>3
         DEF Walks, SameTask, SameContents, SameRequest, ArrivesFor
    <3> QED
      BY <1>5, <2>1, <2>4, <3>1, <3>4
  <2>5. CASE OthersStand(w) /\ Asks(w)
    <3>1. /\ worker'[w].pc \in Fetching /\ worker'[w].pc \notin Arriving
          /\ worker'[w].offer.commits = reachable
      BY <2>5 DEF Asks, Offered
    <3>2. mirror'.refs.commits = mirror.refs.commits
      BY <1>1, <2>5 DEF Asks, MirrorInUse, NoRefs
    <3>3. ArrivesFor(w)'
      BY <1>1, <2>1, <2>5, <3>1 DEF Asks, SameTask, SameContents, ArrivesFor
    <3> QED
      BY <1>5, <2>1, <2>5, <3>1, <3>2, <3>3
  <2>6. CASE OthersStand(w) /\ Refreshes(w)
    <3>1. worker'[w].pc = "mkdtemp" /\ worker[w].pc \in Fetching
      BY <2>6 DEF Refreshes
    <3>2. \/ mirror'.refs.commits = mirror.refs.commits \cup worker[w].offer.commits
          \/ worker'[w].empty = TRUE /\ mirror' = mirror
      BY <2>6 DEF Refreshes
    <3>3. ArrivesFor(w)'
      <4>1. CASE worker'[w].empty = TRUE
        <5>1. worker'[w].has = worker[w].has /\ worker'[w].sha = worker[w].sha
          BY <2>6 DEF Refreshes, SameTask, SameContents
        <5> QED
          BY <4>1, <5>1 DEF ArrivesFor
      <4>2. CASE worker'[w].empty = FALSE
        <5>1. mirror'.refs.commits = mirror.refs.commits \cup worker[w].offer.commits
          BY <3>2, <4>2
        <5>2. ~worker[w].empty
          BY <1>1, <3>1 DEF MirrorInUse, Refreshing, InMirror
        <5>3. worker'[w].has = worker[w].has /\ worker'[w].sha = worker[w].sha
          BY <2>6 DEF Refreshes, SameTask, SameContents
        <5> QED
          BY <1>1, <2>1, <3>1, <5>1, <5>2, <5>3 DEF ArrivesFor
      <4>3. worker'[w].empty \in BOOLEAN
        BY <2>6 DEF Refreshes
      <4> QED
        BY <4>1, <4>2, <4>3
    <3> QED
      BY <1>5, <2>1, <2>6, <3>1, <3>2, <3>3
  <2>7. CASE OthersStand(w) /\ Copies(w)
    <3>1. ArrivesFor(w)'
      BY <1>1, <2>1, <2>7 DEF Copies, SameTask, SameRequest, ArrivesFor
    <3> QED
      BY <1>5, <2>1, <2>7, <3>1 DEF Copies
  <2>8. CASE OthersStand(w) /\ GetsTarget(w)
    <3>1. ArrivesFor(w)'
      BY <1>1, <2>1, <2>8 DEF GetsTarget, SameTask, SameRequest, ArrivesFor
    <3> QED
      BY <1>5, <2>1, <2>8, <3>1 DEF GetsTarget
  <2>9. CASE OthersStand(w) /\ Diffs(w)
    <3>1. ArrivesFor(w)'
      BY <2>9 DEF Diffs, ArrivesFor
    <3> QED
      BY <1>5, <2>1, <2>9, <3>1 DEF Diffs
  <2> QED
    BY <1>1, <1>7, <2>2, <2>3, <2>4, <2>5, <2>6, <2>7, <2>8, <2>9, Moves
<1> QED
  BY <1>2, <1>3, <1>4, <1>6, <1>7 DEF Next

\* A checkout that lacks its commit was made after the branch was forced away from it, or
\* while a first clone was in progress or after one was killed, whatever the workers do.
THEOREM MissingCommitsWereForcedAway == Spec => []MissingCommitWasForcedAway
<1>1. Init => MirrorInv
  <2>1. ASSUME Init PROVE MirrorInv
    <3>1. CommitInv /\ \A w \in Workers : worker[w].pc = "idle" /\ worker[w].has = {}
      BY <2>1, CommitStart DEF Init, Idle
    <3>2. mirror.refs = NoRefs
      BY <2>1 DEF Init, Absent
    <3> QED
      BY <3>1, <3>2 DEF MirrorInv, MirrorInUse, HeadArrives, ArrivesFor, At, Refreshing, InMirror
  <2> QED
    BY <2>1
<1>2. MirrorInv /\ [Next]_vars => MirrorInv'
  BY TypeStep, KnownStep, BasesStep, InUseStep, ArrivesStep DEF MirrorInv, CommitInv
<1>3. MirrorInv => MissingCommitWasForcedAway
  BY DEF MirrorInv, HeadArrives, ArrivesFor, MissingCommitWasForcedAway
<1> QED
  BY <1>1, <1>2, <1>3, PTL DEF Spec
-----------------------------------------------------------------------------
(***************************************************************************)
(* How new the target branch of a diff is.                                 *)
(***************************************************************************)

\* Who refreshes the mirror does so with a target branch as new as any worker
\* needs it; once it has, the mirror and then the checkout hold one.
FreshFor(w) ==
  /\ worker[w].oldest <= target
  /\ worker[w].asked <= target
  /\ \A v \in Workers : Refreshing(v) => worker[w].oldest <= worker[v].asked
  /\ worker[w].pc \in {"cloning", "fetching"} => worker[w].asked <= worker[w].offer.target
  /\ worker[w].pc \in {"cloning", "mkdtemp", "clone", "checkout", "fetch_target"}
       /\ mirror.state = "complete" => worker[w].oldest <= mirror.refs.target
  /\ At(w, "diff") => worker[w].oldest <= worker[w].target

NobodyFetchesOldTarget == \A w \in Workers : FreshFor(w)

TargetInv == TypeOK /\ NobodyFetchesOldTarget

\* What a step may do to the mirror and to one worker without harm to the others.
LEMMA FreshStays ==
  ASSUME TargetInv, TypeOK', target <= target',
         mirror'.state = "complete" =>
           \/ mirror.state = "complete" /\ mirror'.refs.target = mirror.refs.target
           \/ \A v \in Workers : worker[v].oldest <= mirror'.refs.target,
         \A u \in Workers : Refreshing(u)' =>
           \/ Refreshing(u) /\ worker'[u].asked = worker[u].asked
           \/ worker'[u].asked = target,
         NEW v \in Workers, worker'[v] = worker[v]
  PROVE  FreshFor(v)'
<1>1. /\ FreshFor(v) /\ target \in Nat /\ target' \in Nat
      /\ worker[v].oldest \in Nat /\ worker[v].asked \in Nat
  BY DEF TargetInv, NobodyFetchesOldTarget, TypeOK, Preparation
<1>2. worker[v].oldest <= target' /\ worker[v].asked <= target'
  BY <1>1 DEF FreshFor
<1>3. ASSUME NEW u \in Workers, Refreshing(u)' PROVE worker[v].oldest <= worker'[u].asked
  BY <1>1, <1>3 DEF FreshFor
<1>4. worker[v].pc \in {"cloning", "mkdtemp", "clone", "checkout", "fetch_target"}
        /\ mirror'.state = "complete" => worker[v].oldest <= mirror'.refs.target
  BY <1>1 DEF FreshFor
<1> QED
  BY <1>1, <1>2, <1>3, <1>4 DEF FreshFor, At

LEMMA IdleIsFresh ==
  ASSUME TypeOK', NEW w \in Workers, worker'[w] = Idle
  PROVE  FreshFor(w)'
<1>1. worker'[w].pc = "idle" /\ worker'[w].oldest = 0 /\ worker'[w].asked = 0
  BY DEF Idle
<1>2. target' \in Nat /\ \A v \in Workers : worker'[v].asked \in Nat
  BY DEF TypeOK, Preparation
<1> QED
  BY <1>1, <1>2 DEF FreshFor, At

\* What the worker that has moved keeps.
LEMMA MoverIsFresh ==
  ASSUME TargetInv, TypeOK', target' = target, NEW w \in Workers, OthersStand(w),
         worker'[w].oldest = worker[w].oldest \/ worker'[w].oldest = 0,
         worker'[w].asked = worker[w].asked \/ worker'[w].asked = 0,
         Refreshing(w)' => Refreshing(w) /\ worker'[w].asked = worker[w].asked,
         worker'[w].pc \in {"cloning", "fetching"} => worker'[w].asked <= worker'[w].offer.target,
         worker'[w].pc \in {"cloning", "mkdtemp", "clone", "checkout", "fetch_target"}
           /\ mirror'.state = "complete" => worker'[w].oldest <= mirror'.refs.target,
         At(w, "diff")' => worker'[w].oldest <= worker'[w].target
  PROVE  FreshFor(w)'
<1>1. /\ FreshFor(w) /\ target \in Nat
      /\ \A v \in Workers : worker[v].asked \in Nat /\ worker'[v].asked \in Nat
      /\ worker[w].oldest \in Nat
  BY DEF TargetInv, NobodyFetchesOldTarget, TypeOK, Preparation
<1>2. worker'[w].oldest <= target' /\ worker'[w].asked <= target'
  BY <1>1 DEF FreshFor
<1>3. ASSUME NEW u \in Workers, Refreshing(u)' PROVE worker'[w].oldest <= worker'[u].asked
  <2>1. Refreshing(u) /\ worker'[u].asked = worker[u].asked
    BY <1>3 DEF OthersStand, Refreshing
  <2> QED
    BY <1>1, <2>1 DEF FreshFor
<1> QED
  BY <1>2, <1>3 DEF FreshFor

LEMMA TargetStep == TargetInv /\ [Next]_vars => TargetInv'
<1> SUFFICES ASSUME TargetInv, [Next]_vars PROVE \A v \in Workers : FreshFor(v)'
  BY TypeStep DEF TargetInv, NobodyFetchesOldTarget
<1>1. /\ TypeOK /\ TypeOK' /\ target \in Nat /\ target' \in Nat
      /\ \A w \in Workers : FreshFor(w)
  BY TypeStep DEF TargetInv, NobodyFetchesOldTarget, TypeOK
<1>2. CASE \/ \E forced, rebased, named \in BOOLEAN : Push(forced, rebased, named)
           \/ MoveTarget
           \/ UNCHANGED vars
  <2>1. UNCHANGED <<mirror, worker>> /\ (target' = target \/ target' = target + 1)
    BY <1>2 DEF Push, MoveTarget, vars, originVars
  <2>2. target <= target'
    BY <1>1, <2>1
  <2>3. \A u \in Workers : Refreshing(u)' => Refreshing(u) /\ worker'[u].asked = worker[u].asked
    BY <2>1 DEF Refreshing
  <2> QED
    BY <1>1, <2>1, <2>2, <2>3, FreshStays
<1>3. CASE Restart
  BY <1>1, <1>3, IdleIsFresh DEF Restart
<1>4. ASSUME NEW w \in Workers, Start(w) PROVE \A v \in Workers : FreshFor(v)'
  <2>1. /\ worker'[w].pc = "ensure_mirror" /\ worker'[w].asked = target
        /\ worker'[w].oldest \in {target} \cup {worker[v].asked : v \in RefreshingNow}
        /\ \A v \in RefreshingNow : worker'[w].oldest <= worker[v].asked
        /\ \A v \in Workers : v # w => worker'[v] = worker[v]
        /\ mirror' = mirror /\ target' = target
    BY <1>1, <1>4, StartAt DEF originVars
  <2>2. target <= target'
    BY <1>1, <2>1
  <2>3. \A u \in Workers : Refreshing(u)' =>
          \/ u # w /\ Refreshing(u) /\ worker'[u].asked = worker[u].asked
          \/ worker'[u].asked = target
    BY <2>1 DEF Refreshing
  <2>4. \A v \in Workers : v # w => FreshFor(v)'
    BY <1>1, <2>1, <2>2, <2>3, FreshStays
  <2>5. worker'[w].oldest <= target
    BY <1>1, <2>1 DEF FreshFor, RefreshingNow
  <2>6. \A u \in Workers : Refreshing(u)' => worker'[w].oldest <= worker'[u].asked
    BY <2>1, <2>3, <2>5 DEF RefreshingNow
  <2>7. FreshFor(w)'
    BY <1>1, <2>1, <2>5, <2>6 DEF FreshFor, At
  <2> QED
    BY <2>4, <2>7
<1>5. ASSUME NEW w \in Workers, WorkerStep(w) \/ GitFails(w) PROVE \A v \in Workers : FreshFor(v)'
  <2>1. target' = target /\ target <= target'
    BY <1>1, <1>5, Moves DEF originVars
  <2>2. /\ FreshFor(w) /\ worker[w].oldest \in Nat /\ worker[w].asked \in Nat
        /\ worker[w].offer.target \in Nat
    BY <1>1, RefTypes DEF TypeOK, Preparation, Refs
  <2>3. CASE RemoveMirror(w)
    <3>1. /\ mirror'.state = "absent"
          /\ \A v \in Workers : worker'[v] = worker[v] \/ worker'[v] = Idle
      BY <2>3 DEF RemoveMirror, Absent
    <3>2. Idle.pc = "idle"
      BY DEF Idle
    <3>3. \A u \in Workers : Refreshing(u)' => Refreshing(u) /\ worker'[u].asked = worker[u].asked
      BY <3>1, <3>2 DEF Refreshing, InMirror
    <3> QED
      BY <1>1, <2>1, <3>1, <3>3, FreshStays, IdleIsFresh
  <2>4. ASSUME OthersStand(w), FreshFor(w)',
               Refreshing(w)' => Refreshing(w) /\ worker'[w].asked = worker[w].asked,
               mirror'.state = "complete" =>
                 \/ mirror.state = "complete" /\ mirror'.refs.target = mirror.refs.target
                 \/ \A v \in Workers : worker[v].oldest <= mirror'.refs.target
        PROVE  \A v \in Workers : FreshFor(v)'
    <3>1. \A u \in Workers : Refreshing(u)' => Refreshing(u) /\ worker'[u].asked = worker[u].asked
      BY <2>4 DEF OthersStand, Refreshing
    <3> QED
      BY <1>1, <2>1, <2>4, <3>1, FreshStays DEF OthersStand
  <2>5. CASE OthersStand(w) /\ Quits(w)
    <3>1. worker'[w] = Idle /\ mirror' = mirror
      BY <2>5 DEF Quits
    <3>2. worker'[w].pc = "idle"
      BY <3>1 DEF Idle
    <3>3. FreshFor(w)' /\ ~Refreshing(w)'
      BY <1>1, <3>1, <3>2, IdleIsFresh DEF Refreshing, InMirror
    <3> QED
      BY <2>4, <2>5, <3>1, <3>3
  <2>6. CASE OthersStand(w) /\ Walks(w)
    <3>1. /\ mirror' = mirror /\ worker'[w].pc \notin {"cloning", "fetching", "diff"}
          /\ worker'[w].pc \in {"clone", "fetch_target", "checkout", "mkdtemp"} =>
               worker[w].pc \in {"mkdtemp", "checkout"}
          /\ worker'[w].oldest = worker[w].oldest /\ worker'[w].asked = worker[w].asked
          /\ Refreshing(w)' => Refreshing(w)
      BY <2>6 DEF Walks, SameTask, SameRequest, Refreshing, InMirror
    <3>2. FreshFor(w)'
      BY <1>1, <2>1, <2>2, <2>6, <3>1, MoverIsFresh DEF FreshFor, At
    <3> QED
      BY <2>4, <2>6, <3>1, <3>2
  <2>7. CASE OthersStand(w) /\ Asks(w)
    <3>1. /\ mirror' = mirror \/ mirror'.state = "unfinished"
          /\ worker'[w].pc \in {"cloning", "fetching"} /\ worker'[w].offer.target = target
          /\ worker'[w].pc = "cloning" => mirror'.state = "unfinished"
          /\ worker'[w].oldest = worker[w].oldest /\ worker'[w].asked = worker[w].asked
          /\ Refreshing(w)
      BY <2>7 DEF Asks, SameTask, Refreshing, InMirror, Offered
    <3>2. FreshFor(w)'
      BY <1>1, <2>1, <2>2, <2>7, <3>1, MoverIsFresh DEF FreshFor, At
    <3> QED
      BY <2>4, <2>7, <3>1, <3>2
  <2>8. CASE OthersStand(w) /\ Refreshes(w)
    <3>1. /\ worker'[w].pc = "mkdtemp" /\ worker[w].pc \in {"cloning", "fetching"}
          /\ worker'[w].oldest = worker[w].oldest /\ worker'[w].asked = 0
      BY <2>8 DEF Refreshes, SameTask
    <3>2. Refreshing(w) /\ ~Refreshing(w)'
      BY <3>1 DEF Refreshing, InMirror
    <3>3. \A v \in Workers : worker[v].oldest <= worker[w].offer.target
      <4> TAKE v \in Workers
      <4>1. /\ worker[v].oldest <= worker[w].asked /\ worker[w].asked <= worker[w].offer.target
            /\ worker[v].oldest \in Nat
        BY <1>1, <2>2, <3>1, <3>2 DEF FreshFor, TypeOK, Preparation
      <4> QED
        BY <2>2, <4>1
    <3>4. mirror'.state = "complete" =>
            \/ /\ mirror.state = "complete" /\ mirror'.refs.target = mirror.refs.target
               /\ worker[w].pc = "cloning"
            \/ mirror'.refs.target = worker[w].offer.target
      BY <2>8 DEF Refreshes
    <3>5. mirror'.state = "complete" => worker[w].oldest <= mirror'.refs.target
      BY <2>2, <3>3, <3>4 DEF FreshFor
    <3>6. FreshFor(w)'
      BY <1>1, <2>1, <2>2, <2>8, <3>1, <3>2, <3>5, MoverIsFresh DEF At
    <3> QED
      BY <2>4, <2>8, <3>2, <3>3, <3>4, <3>6
  <2>9. CASE OthersStand(w) /\ (Copies(w) \/ GetsTarget(w) \/ Diffs(w))
    <3>1. /\ mirror' = mirror /\ worker'[w].asked = worker[w].asked
          /\ worker'[w].oldest = worker[w].oldest \/ worker'[w].oldest = 0
          /\ worker'[w].pc \in {"checkout", "diff", "review"}
          /\ worker'[w].pc = "checkout" => worker[w].pc = "clone" /\ worker'[w].oldest = worker[w].oldest
          /\ worker'[w].pc = "diff" =>
               /\ worker[w].pc = "fetch_target" /\ mirror.state = "complete"
               /\ worker'[w].target = mirror.refs.target /\ worker'[w].oldest = worker[w].oldest
      BY <2>9 DEF Copies, GetsTarget, Diffs, SameTask, SameRequest
    <3>2. ~Refreshing(w)'
      BY <3>1 DEF Refreshing, InMirror
    <3>3. FreshFor(w)'
      BY <1>1, <2>1, <2>2, <2>9, <3>1, <3>2, MoverIsFresh DEF FreshFor, At
    <3> QED
      BY <2>4, <2>9, <3>1, <3>2, <3>3
  <2> QED
    BY <1>1, <1>5, <2>3, <2>5, <2>6, <2>7, <2>8, <2>9, Moves
<1> QED
  BY <1>2, <1>3, <1>4, <1>5 DEF Next

\* A diff is taken with a target branch as new as when its preparation began, or when another
\* began that was refreshing the mirror then, for any number of workers.
THEOREM TargetsAreCurrent == Spec => []TargetIsCurrent
<1>1. Init => TargetInv
  <2>1. ASSUME Init PROVE TargetInv
    <3>1. TypeOK /\ target = 1 /\ \A w \in Workers : worker[w] = Idle
      BY <2>1, TypeStart DEF Init
    <3>2. Idle.pc = "idle" /\ Idle.oldest = 0 /\ Idle.asked = 0
      BY DEF Idle
    <3> QED
      BY <3>1, <3>2 DEF TargetInv, NobodyFetchesOldTarget, FreshFor, At
  <2> QED
    BY <2>1
<1>2. TargetInv => TargetIsCurrent
  <2>1. ASSUME TargetInv, NEW w \in Workers, At(w, "diff") PROVE worker[w].target >= worker[w].oldest
    <3>1. worker[w].oldest <= worker[w].target
      BY <2>1 DEF TargetInv, NobodyFetchesOldTarget, FreshFor
    <3>2. worker[w].oldest \in Nat /\ worker[w].target \in Nat
      BY <2>1 DEF TargetInv, TypeOK, Preparation
    <3> QED
      BY <3>1, <3>2
  <2> QED
    BY <2>1 DEF TargetIsCurrent
<1> QED
  BY <1>1, <1>2, TargetStep, PTL DEF Spec
=============================================================================
