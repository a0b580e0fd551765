------------------------------ MODULE RepoCache ------------------------------
(***************************************************************************)
(* The cache of one repository (gitops.py): a bare mirror that all workers *)
(* share, and the temporary checkouts they make from it, one git command a *)
(* step, while the merge request is pushed to and the target branch moves. *)
(* What git does is external: a command may fail, two of them may meet in  *)
(* one mirror, and a killed one leaves what it has done so far.            *)
(***************************************************************************)
EXTENDS Naturals, FiniteSets, Sequences

CONSTANTS
  Workers,        \* worker threads
  MaxPushes,      \* bound: commits of the merge request
  MaxTarget,      \* bound: versions of the target branch
  MaxDirectories, \* bound: review-* directories at one time
  MaxFaults       \* bound: restarts, and commands that fail for a reason outside the model

ASSUME RepoAssumption ==
  {MaxPushes, MaxTarget, MaxDirectories, MaxFaults} \subseteq Nat

VARIABLES
  commits,      \* heads of the merge request in the order they were pushed
  reachable,    \* those the source branch still contains
  target,       \* version of the target branch on GitLab
  mirror,       \* the mirror directory
  worker,       \* worker -> its preparation
  directories,  \* review-* directories in the cache
  reviewed,     \* the commit of the latest completed full review, or 0
  faults,       \* faults still allowed
  litter        \* history: directories of preparations that failed or were killed

originVars == <<commits, reachable, target>>
vars == <<originVars, mirror, worker, directories, reviewed, faults, litter>>
-----------------------------------------------------------------------------
Newest == Len(commits)

\* base: the version of the target branch a commit contains; target: the
\* version its webhook named, or 0 when the payload named none.
Commit == [base: Nat, target: Nat]

\* What the server offers to a fetch or a clone, and what a mirror holds.
Refs == [commits: SUBSET Nat, target: Nat]
NoRefs == [commits |-> {}, target |-> 0]
Offered == [commits |-> reachable, target |-> target]

\* unfinished: git has made the directory but not written a ref.
\* broken: left by a killed command in which every later one fails.
MirrorStates == {"absent", "unfinished", "complete", "broken"}
Absent == [state |-> "absent", refs |-> NoRefs]

\* The mirror keeps the objects of commits that were forced away.
Filled(offer) ==
  [state |-> "complete",
   refs |-> [commits |-> mirror.refs.commits \cup offer.commits, target |-> offer.target]]

\* Where a worker stands: the command it runs next, or has begun.
Pcs == {"idle", "ensure_mirror", "clone_mirror", "cloning", "set_url", "fetch", "fetching",
        "mkdtemp", "clone", "checkout", "fetch_target", "diff", "review"}

Preparation ==
  [pc: Pcs,
   sha: Nat,           \* source_sha, the head that mr_info named
   previous: Nat,      \* previous_reviewed_sha, or 0
   oldest: Nat,        \* history: target when this, or one it overlaps, began
   asked: Nat,         \* history: target when this began
   offer: Refs,        \* what the server offered, until it is in the mirror
   found: Refs,        \* the mirror's refs when the fetch began
   empty: BOOLEAN,     \* history: the fetch found no refs and brought none
   dir: Nat,           \* checkout_dir, or 0
   has: SUBSET Nat,    \* commits in the checkout
   target: Nat,        \* origin/target_branch in the checkout
   incremental: BOOLEAN]

Idle == [pc |-> "idle", sha |-> 0, previous |-> 0, oldest |-> 0, asked |-> 0,
         offer |-> NoRefs, found |-> NoRefs, empty |-> FALSE, dir |-> 0, has |-> {},
         target |-> 0, incremental |-> FALSE]

At(w, pc) == worker[w].pc = pc
Becomes(w, preparation) == worker' = [worker EXCEPT ![w] = preparation]
GoTo(w, pc) ==
  /\ Becomes(w, [worker[w] EXCEPT !.pc = pc])
  /\ UNCHANGED litter

\* An exception leaves prepare_checkout, and nobody has the directory.
Fail(w) ==
  /\ Becomes(w, Idle)
  /\ litter' = litter \cup ({worker[w].dir} \ {0})

\* The mirror is as fresh as this worker will make it.
Refreshed(w, empty) ==
  /\ Becomes(w, [worker[w] EXCEPT !.pc = "mkdtemp", !.asked = 0, !.offer = NoRefs,
                                  !.found = NoRefs, !.empty = empty])
  /\ UNCHANGED litter

\* The pcs at which a git process of the worker is at work in the mirror,
\* and those from which it may still write to it.
InMirror == {"cloning", "set_url", "fetching"}
Refreshing(w) == worker[w].pc \in InMirror \cup {"ensure_mirror", "clone_mirror", "fetch"}
Active(w) == ~At(w, "idle")

OwnOnly == UNCHANGED <<originVars, directories, reviewed, faults>>
-----------------------------------------------------------------------------
Init ==
  /\ \E base, named \in {0, 1} : commits = <<[base |-> base, target |-> named]>>
  /\ reachable = {1}
  /\ target = 1
  /\ mirror = Absent
  /\ worker = [w \in Workers |-> Idle]
  /\ directories = {}
  /\ reviewed = 0
  /\ faults = MaxFaults
  /\ litter = {}

\* A push extends the branch or, when forced, replaces it; it may be rebased,
\* and its webhook may name the target.
Push(forced, rebased, named) ==
  /\ Newest < MaxPushes
  /\ commits' = Append(commits, [base |-> IF rebased THEN target ELSE commits[Newest].base,
                                 target |-> IF named THEN target ELSE 0])
  /\ reachable' = (IF forced THEN {} ELSE reachable) \cup {Newest + 1}
  /\ UNCHANGED <<target, mirror, worker, directories, reviewed, faults, litter>>

\* Another merge request is merged.
MoveTarget ==
  /\ target < MaxTarget
  /\ target' = target + 1
  /\ UNCHANGED <<commits, reachable, mirror, worker, directories, reviewed, faults, litter>>
-----------------------------------------------------------------------------
IncrementalBase_AnyTarget(sha) == reviewed

\* Both webhooks named the target, and not the same version of it.
TargetMoved(previous, sha) ==
  /\ commits[previous].target # 0
  /\ commits[sha].target # 0
  /\ commits[previous].target # commits[sha].target

\* No incremental diff when the target moved between the two webhooks; one that
\* named no target is taken to have named the same.
IncrementalBase(sha) ==
  IF reviewed = 0 \/ TargetMoved(reviewed, sha) THEN 0 ELSE reviewed

RefreshingNow == {w \in Workers : Refreshing(w)}

\* The service has read the head.  A reconcile run asks for no incremental diff.
Start(w) ==
  /\ At(w, "idle")
  /\ Cardinality(directories) < MaxDirectories
  /\ \E previous \in {0, IncrementalBase(Newest)},
        oldest \in {target} \cup {worker[v].asked : v \in RefreshingNow} :
       /\ \A v \in RefreshingNow : oldest <= worker[v].asked
       /\ Becomes(w, [Idle EXCEPT !.pc = "ensure_mirror", !.sha = Newest, !.asked = target,
                                  !.previous = previous, !.oldest = oldest])
  /\ UNCHANGED <<mirror, litter>>
  /\ OwnOnly

EnsureMirror_NoRefresh(w) ==
  /\ At(w, "ensure_mirror")
  /\ GoTo(w, IF mirror.state = "absent" THEN "clone_mirror" ELSE "mkdtemp")
  /\ UNCHANGED mirror
  /\ OwnOnly

\* All that is looked at is whether the directory exists.
EnsureMirror(w) ==
  /\ At(w, "ensure_mirror")
  /\ GoTo(w, IF mirror.state = "absent" THEN "clone_mirror" ELSE "set_url")
  /\ UNCHANGED mirror
  /\ OwnOnly

\* git clone refuses a directory that another worker has made meanwhile.
BeginMirror(w) ==
  /\ At(w, "clone_mirror")
  /\ IF mirror.state = "absent"
     THEN /\ mirror' = [Absent EXCEPT !.state = "unfinished"]
          /\ Becomes(w, [worker[w] EXCEPT !.pc = "cloning", !.offer = Offered])
          /\ UNCHANGED litter
     ELSE Fail(w) /\ UNCHANGED mirror
  /\ OwnOnly

\* A clone that fails removes its directory, under whoever works in it.
RemoveMirror(w) ==
  /\ mirror' = Absent
  /\ worker' = [v \in Workers |->
       IF v = w \/ At(v, "fetching") THEN Idle ELSE worker[v]]
  /\ UNCHANGED litter

\* A clone that finds refs another worker has fetched meanwhile gives up, or
\* leaves them as they are.
FinishMirror(w) ==
  /\ At(w, "cloning")
  /\ \/ /\ mirror.state = "unfinished"
        /\ mirror' = Filled(worker[w].offer)
        /\ Refreshed(w, FALSE)
     \/ /\ mirror.state = "complete"
        /\ mirror' = [mirror EXCEPT !.refs.commits = @ \cup worker[w].offer.commits]
        /\ Refreshed(w, FALSE)
     \/ mirror.state = "complete" /\ RemoveMirror(w)
  /\ OwnOnly

\* A refresh that fails is only logged.
SetUrl_BestEffort(w) ==
  /\ At(w, "set_url")
  /\ GoTo(w, IF mirror.state \in {"unfinished", "complete"} THEN "fetch" ELSE "mkdtemp")
  /\ UNCHANGED mirror
  /\ OwnOnly

SetUrl(w) ==
  /\ At(w, "set_url")
  /\ IF mirror.state \in {"unfinished", "complete"} THEN GoTo(w, "fetch") ELSE Fail(w)
  /\ UNCHANGED mirror
  /\ OwnOnly

BeginFetch(w) ==
  /\ At(w, "fetch")
  /\ IF mirror.state \in {"unfinished", "complete"}
     THEN /\ Becomes(w, [worker[w] EXCEPT !.pc = "fetching", !.offer = Offered,
                                          !.found = mirror.refs])
          /\ UNCHANGED litter
     ELSE Fail(w)
  /\ UNCHANGED mirror
  /\ OwnOnly

\* A mirror whose clone has not recorded what to fetch gets no refs.  Of two
\* fetches at once the later fails, or puts back the refs it was offered.
FinishFetch(w) ==
  /\ At(w, "fetching")
  /\ \/ mirror' = Filled(worker[w].offer) /\ Refreshed(w, FALSE)
     \/ mirror.state = "unfinished" /\ Refreshed(w, TRUE) /\ UNCHANGED mirror
     \/ mirror.refs # worker[w].found /\ Fail(w) /\ UNCHANGED mirror
  /\ OwnOnly
-----------------------------------------------------------------------------
\* mkdtemp finds a name that is not taken.
FreeDirectory == CHOOSE d \in 1..(Cardinality(directories) + 1) : d \notin directories

MakeDirectory(w) ==
  /\ At(w, "mkdtemp")
  /\ directories' = directories \cup {FreeDirectory}
  /\ Becomes(w, [worker[w] EXCEPT !.pc = "clone", !.dir = FreeDirectory])
  /\ UNCHANGED <<originVars, mirror, reviewed, faults, litter>>

CloneMirror(w) ==
  /\ At(w, "clone")
  /\ IF mirror.state = "absent" THEN Fail(w)
     ELSE /\ Becomes(w, [worker[w] EXCEPT !.pc = "checkout", !.has = mirror.refs.commits])
          /\ UNCHANGED litter
  /\ UNCHANGED mirror
  /\ OwnOnly

CheckoutCommit(w) ==
  /\ At(w, "checkout")
  /\ IF worker[w].sha \in worker[w].has THEN GoTo(w, "fetch_target") ELSE Fail(w)
  /\ UNCHANGED mirror
  /\ OwnOnly

\* The result of the fetch is not looked at.
FetchTarget_Unchecked(w) ==
  /\ At(w, "fetch_target")
  /\ Becomes(w, [worker[w] EXCEPT !.pc = "diff", !.target = mirror.refs.target])
  /\ UNCHANGED <<mirror, litter>>
  /\ OwnOnly

\* The remote of the checkout is the mirror.
FetchTarget(w) ==
  /\ At(w, "fetch_target")
  /\ IF mirror.state = "complete"
     THEN /\ Becomes(w, [worker[w] EXCEPT !.pc = "diff", !.target = mirror.refs.target])
          /\ UNCHANGED litter
     ELSE Fail(w)
  /\ UNCHANGED mirror
  /\ OwnOnly

\* The diff of the merge request, and the incremental one when the previous
\* commit is there; that it is not is no failure.
Diff(w) ==
  /\ At(w, "diff")
  /\ Becomes(w, [worker[w] EXCEPT !.pc = "review", !.oldest = 0, !.target = 0, !.has = {},
                    !.incremental = worker[w].previous \in worker[w].has \ {worker[w].sha}])
  /\ UNCHANGED <<mirror, litter>>
  /\ OwnOnly

Close_OnSuccess(w, completed) ==
  /\ directories' = IF completed THEN directories \ {worker[w].dir} ELSE directories
  /\ Becomes(w, Idle)

\* The directory is removed however the reviewers ended.
Close(w, completed) ==
  /\ directories' = directories \ {worker[w].dir}
  /\ Becomes(w, Idle)

\* The reviewers are done with the checkout, or raise.  The run completes
\* unless it is a reconcile run, fails or was superseded by a newer one.
Review(w) ==
  /\ At(w, "review")
  /\ \E completed \in BOOLEAN :
       /\ completed => worker[w].sha > reviewed
       /\ reviewed' = IF completed THEN worker[w].sha ELSE reviewed
       /\ Close(w, completed)
  /\ UNCHANGED <<originVars, mirror, faults, litter>>

\* A git command fails: the network, the disk, or a lock file of another
\* worker that is at work in the mirror.
GitFails(w) ==
  /\ worker[w].pc \in {"clone_mirror", "cloning", "set_url", "fetch", "fetching", "clone",
                       "checkout", "fetch_target", "diff"}
  /\ \/ /\ faults > 0
        /\ faults' = faults - 1
     \/ /\ \E v \in Workers \ {w} : worker[v].pc \in InMirror
        /\ worker[w].pc \in InMirror
        /\ UNCHANGED faults
  /\ IF At(w, "cloning") THEN RemoveMirror(w) ELSE Fail(w) /\ UNCHANGED mirror
  /\ UNCHANGED <<originVars, directories, reviewed>>

\* The container restarts and git is killed with it: a clone leaves half a
\* mirror, any command in the mirror may leave a lock file.
Restart ==
  /\ faults > 0
  /\ \E w \in Workers : Active(w)
  /\ faults' = faults - 1
  /\ \/ UNCHANGED mirror
     \/ /\ mirror.state # "absent"
        /\ \E w \in Workers : worker[w].pc \in InMirror
        /\ mirror' = [mirror EXCEPT !.state = "broken"]
  /\ litter' = litter \cup ({worker[w].dir : w \in Workers} \ {0})
  /\ worker' = [w \in Workers |-> Idle]
  /\ UNCHANGED <<originVars, directories, reviewed>>

WorkerStep(w) ==
  \/ EnsureMirror(w) \/ BeginMirror(w) \/ FinishMirror(w) \/ SetUrl(w)
  \/ BeginFetch(w) \/ FinishFetch(w) \/ MakeDirectory(w) \/ CloneMirror(w)
  \/ CheckoutCommit(w) \/ FetchTarget(w) \/ Diff(w) \/ Review(w)

Next ==
  \/ \E forced, rebased, named \in BOOLEAN : Push(forced, rebased, named)
  \/ MoveTarget
  \/ \E w \in Workers : Start(w) \/ WorkerStep(w) \/ GitFails(w)
  \/ Restart

Spec == Init /\ [][Next]_vars
-----------------------------------------------------------------------------
(***************************************************************************)
(* Properties                                                              *)
(***************************************************************************)

\* Every variable has its type.
TypeOK ==
  /\ commits \in Seq(Commit) /\ commits # <<>>
  /\ reachable \subseteq 1..Newest
  /\ target \in Nat
  /\ mirror \in [state: MirrorStates, refs: Refs]
  /\ worker \in [Workers -> Preparation]
  /\ directories \subseteq Nat \ {0} /\ IsFiniteSet(directories)
  /\ reviewed \in Nat
  /\ faults \in Nat
  /\ litter \subseteq Nat \ {0}

Held == {worker[w].dir : w \in Workers} \ {0}

\* A directory of the cache is in the hands of one worker or was left by a
\* preparation that failed half-way or was killed: a review that got its
\* checkout removes it, however the reviewers end (service.py:180-181).
DirectoriesAreAccountedFor ==
  /\ directories \ Held = litter
  /\ \A w, v \in Workers : w # v /\ worker[w].dir = worker[v].dir => worker[w].dir = 0

\* A checkout lacks the commit it was made for only if that commit was forced
\* away while it was prepared, or if a first clone of the mirror was in
\* progress or had been killed, so that a fetch or the checkout got nothing.
MissingCommitWasForcedAway ==
  \A w \in Workers :
    /\ ~worker[w].empty /\ worker[w].has # {}
    /\ worker[w].sha \notin worker[w].has
    => worker[w].sha \notin reachable

\* The merge base is taken with a target branch as new as when the preparation
\* began, or another one that was refreshing the mirror then: for a worker
\* that is alone, the diff holds no changes of the target.
TargetIsCurrent ==
  \A w \in Workers : At(w, "diff") => worker[w].target >= worker[w].oldest

\* A rebase onto a target that has moved shows in the incremental diff
\* (README.md:142 says it does not) only when one of the two webhooks named no
\* target, or the commit reviewed before was itself behind the one it named.
RebaseAddsNoNoise ==
  \A w \in Workers :
    LET previous == commits[worker[w].previous]
        head     == commits[worker[w].sha] IN
    worker[w].incremental =>
      \/ head.base = previous.base
      \/ previous.target = 0 \/ head.target = 0
      \/ previous.base # previous.target

\* No checkout is made from a mirror that a killed command left broken: its
\* refs are old, and nothing repairs it.
NoCheckoutFromBrokenMirror ==
  mirror.state = "broken" =>
    \A w \in Workers : worker[w].pc \in {"idle", "ensure_mirror", "clone_mirror", "set_url"}
=============================================================================
