--------------------------- MODULE TaskLifecycle ---------------------------
(***************************************************************************)
(* One Task of the repository from its allocation to its cleanup, by the   *)
(* scripts of scripts/task/unified-lifecycle.mjs.  The scripts work on the *)
(* main worktree, where agents leave their documents uncommitted, on the   *)
(* Task branch with its worktree, and on the remote's main, which other    *)
(* clones push to as well and whose CI looks at every push.                *)
(*                                                                         *)
(* A script is one step up to its first push.  What follows a push is a    *)
(* step for every attempt, so that other clones' pushes and lost answers   *)
(* come between.  A script that refuses before it has changed anything is  *)
(* a step that is not taken.                                               *)
(***************************************************************************)
EXTENDS TaskRules

CONSTANTS
  MaxCommits,   \* no script is started once the graph holds this many
  MaxEvidence,  \* evidence commits and planning gates
  MaxTrouble,   \* pushes by other clones, refused hooks, outages of the
                \* network, what agents write that the rules must refuse, and
                \* completions that are asked for without validation
  NoPush,       \* whether scripts are also run without a push
  Product       \* the kinds of change the DEV agent makes

ASSUME BoundsAssumption == {MaxCommits, MaxEvidence, MaxTrouble} \subseteq Nat
ASSUME ProductAssumption == Product \subseteq DevChanges

VARIABLES
  commits,    \* the commits of all clones
  main,       \* head of the local main
  remote,     \* head of the remote's main
  work,       \* the main worktree
  branch,     \* head of the Task branch, NoCommit when there is none
  worktree,   \* "none", "clean" or the uncommitted change in it
  request,    \* head of the open pull request, or NoCommit
  op,         \* the script that is waiting for a push, or Idle
  ci,         \* whether the CI accepted the last push to main
  told,       \* the last commit that a script reported as pushed
  candidate,  \* the last commit that candidate-commit reported
  unchecked,  \* the merges that were committed with --validate false
  evidence, trouble

vars == <<commits, main, remote, work, branch, worktree, request, op, ci, told,
          candidate, unchecked, evidence, trouble>>
bounds == <<evidence, trouble>>
atRemote == <<remote, ci, told>>

-----------------------------------------------------------------------------

Push == IF NoPush THEN BOOLEAN ELSE {TRUE}
Idle == [kind |-> "idle"]
HeadTree == Tree(commits, main)
Changed == ChangedFiles(HeadTree, work)
Clean == Changed = {}
Room == Len(commits) < MaxCommits
NextId == Len(commits) + 1

View(merging) == [graph |-> commits, main |-> main, merging |-> merging,
                  local |-> TRUE, registered |-> branch # NoCommit]
Valid(tree) == CheckTask(View(NoCommit), tree)

(* What the CI checks out: no worktrees, and main is what was pushed. *)
Published == CheckTask([graph |-> commits, main |-> remote, merging |-> NoCommit,
                        local |-> FALSE, registered |-> FALSE], Tree(commits, remote))

Init ==
  /\ commits = <<[parents |-> <<>>, tree |-> Absent, ancestors |-> {1}]>>
  /\ main = 1 /\ remote = 1 /\ work = Absent
  /\ branch = NoCommit /\ worktree = "none" /\ request = NoCommit
  /\ op = Idle /\ ci = TRUE /\ told = NoCommit /\ candidate = NoCommit
  /\ unchecked = {}
  /\ evidence = 0 /\ trouble = 0

-----------------------------------------------------------------------------
(* Agents *)

Mistake(wrong) ==
  /\ wrong => trouble < MaxTrouble
  /\ trouble' = IF wrong THEN trouble + 1 ELSE trouble

Write(file, content) ==
  /\ op = Idle
  /\ work.backlog.status # "absent"
  /\ content # work[file]
  /\ work' = [work EXCEPT ![file] = content]
  /\ UNCHANGED <<commits, main, branch, worktree, request, op, candidate, unchecked, evidence>>
  /\ UNCHANGED atRemote

(* The planner and the main agent settle the class and approve the plans. *)
WritePlan(class, plan, status) ==
  /\ op = Idle
  /\ work.backlog.status = "plan"
  /\ work.PLAN = "draft"
  /\ Mistake(plan = "v2" /\ class = "product")
  /\ work' = [work EXCEPT !.backlog.class = class, !.backlog.status = status,
                          !.PLAN = plan, !.QA_PLAN = "approved"]
  /\ UNCHANGED <<commits, main, branch, worktree, request, op, candidate, unchecked, evidence>>
  /\ UNCHANGED atRemote

Phase == [plan |-> 1, dev |-> 2, qa |-> 3, done |-> 4]

WriteStatus(status) ==
  /\ work.backlog.status # "absent" /\ Phase[status] > Phase[work.backlog.status]
  /\ status \in {"qa", "done"} => work.HANDOVER.cand # NoCommit
  /\ Write("backlog", [work.backlog EXCEPT !.status = status]) /\ UNCHANGED trouble

(* Reviewer and QA work on the candidate that the HANDOVER names.          *)
WriteReview(result) ==
  /\ work.HANDOVER.cand # NoCommit /\ work.REVIEW_RESULT = "pending"
  /\ Mistake(result = "other")
  /\ Write("REVIEW_RESULT", result)

(* QA looks at its plan again when it has seen the implementation. *)
WriteQaResult(result) ==
  /\ work.HANDOVER.cand # NoCommit /\ work.QA_RESULT = "pending"
  /\ Mistake(result = "other")
  /\ op = Idle
  /\ work' = [work EXCEPT !.QA_RESULT = result, !.QA_PLAN = "reviewed"]
  /\ UNCHANGED <<commits, main, branch, worktree, request, op, candidate, unchecked, evidence>>
  /\ UNCHANGED atRemote

WriteHandover(commit) ==
  /\ candidate # NoCommit
  /\ Mistake(commit # branch)
  /\ Write("HANDOVER", [cand |-> commit, complete |-> TRUE])

Fits(change) == (change = "contract") = (work.backlog.class = "safety_contract")

Develop(change) ==
  /\ op = Idle
  /\ worktree = "clean"
  /\ Clean
  /\ change \notin Tree(commits, branch).product
  /\ Mistake(candidate # NoCommit \/ ~Fits(change))
  /\ worktree' = change
  /\ UNCHANGED <<commits, main, work, branch, request, op, candidate, unchecked, evidence>>
  /\ UNCHANGED atRemote

-----------------------------------------------------------------------------
(* task-start: scaffold, backlog entry, branch and worktree, no commit.    *)
TaskStart(same) ==
  /\ op = Idle
  /\ work.backlog.status = "absent"
  /\ Clean
  /\ main = remote
  /\ branch = NoCommit   \* git worktree add -b
  /\ Mistake(same)
  /\ work' = [f \in Files |-> IF f = "product" THEN work.product ELSE Scaffold(same)[f]]
  /\ branch' = main
  /\ worktree' = "clean"
  /\ UNCHANGED <<commits, main, request, op, candidate, unchecked, evidence>>
  /\ UNCHANGED atRemote

-----------------------------------------------------------------------------
(* evidence-commit and planning-gate *)

(* The planning gate moves the Task branch along, without a merge. *)
FastForward ==
  /\ worktree = "clean"
  /\ branch \in Ancestors(commits, main)
  /\ branch' = NextId

(* git commit of the tree; the push is a step of its own, if asked for.    *)
CommitEvidence(tree, planning, push, next) ==
  /\ CheckTask(View(NoCommit), tree)
  /\ commits' = Append(commits, Child(commits, <<main>>, tree))
  /\ main' = NextId
  /\ work' = tree
  /\ op' = IF push THEN [kind |-> "evidence", planning |-> planning, retry |-> 0,
                         outage |-> FALSE, commit |-> NextId, before |-> main,
                         branch |-> branch, next |-> next]
           ELSE Idle

EvidenceCommit(action, push) ==
  /\ op = Idle /\ Room
  /\ evidence < MaxEvidence /\ evidence' = evidence + 1
  /\ ~Clean
  /\ Changed \subseteq AllowedFor[action]
  /\ IF action = "planning-gate" THEN PlanningState(work, Changed) /\ FastForward
     ELSE UNCHANGED branch
  /\ CommitEvidence(work, action = "planning-gate", push, "end")
  /\ UNCHANGED <<worktree, request, candidate, unchecked, trouble>>
  /\ UNCHANGED atRemote

Fault == trouble < MaxTrouble /\ trouble' = trouble + 1

(* An outage may last through all the attempts of one script. *)
Outage == IF op.outage THEN UNCHANGED trouble ELSE Fault

(* What the remote does with a push of the local main. *)
Accepts == remote \in Ancestors(commits, main)
Land == remote' = main /\ ci' = IF remote = main THEN ci ELSE ScopeCheck(commits, remote, main)

PushAccepted ==
  /\ op.kind = "evidence"
  /\ Accepts /\ Land
  /\ told' = op.commit
  /\ op' = IF op.next = "cleanup" THEN [kind |-> "cleanup"] ELSE Idle
  /\ UNCHANGED <<commits, main, work, branch, worktree, request, candidate, unchecked, bounds>>

(* The last attempt failed or the commit cannot be carried over. The       *)
(* planning gate takes its commit back and leaves the documents            *)
(* uncommitted, any other commit stays on the local main.                  *)
GiveUp(graph, head) ==
  /\ op' = Idle
  /\ commits' = graph
  /\ work' = graph[head].tree
  /\ main' = IF op.planning THEN op.before ELSE head
  /\ branch' = IF op.planning THEN op.branch ELSE branch

(* Mutant: the commit reported in the end is the one made before rebasing. *)
RetryForgetful(outage) ==
  LET rebased == Rebase(commits, main, remote')
      view == [View(NoCommit) EXCEPT !.graph = rebased.graph, !.main = rebased.head]
  IN  IF op.retry = 2 \/ ~rebased.clean THEN GiveUp(commits, main)
      ELSE IF ~CheckTask(view, rebased.graph[rebased.head].tree)
        THEN GiveUp(rebased.graph, rebased.head)
      ELSE /\ commits' = rebased.graph
           /\ main' = rebased.head
           /\ work' = rebased.graph[rebased.head].tree
           /\ op' = [op EXCEPT !.retry = @ + 1, !.outage = @ \/ outage]
           /\ branch' = branch

(* Mutant: what was validated before the rebase is not validated again. *)
RetryUnvalidated(outage) ==
  LET rebased == Rebase(commits, main, remote')
  IN  IF op.retry = 2 \/ ~rebased.clean THEN GiveUp(commits, main)
      ELSE /\ commits' = rebased.graph
           /\ main' = rebased.head
           /\ work' = rebased.graph[rebased.head].tree
           /\ op' = [op EXCEPT !.retry = @ + 1, !.outage = @ \/ outage, !.commit = rebased.head]
           /\ branch' = branch

(* Fetch, rebase, validate, and try again at most twice. *)
Retry(outage) ==
  LET rebased == Rebase(commits, main, remote')
      view == [View(NoCommit) EXCEPT !.graph = rebased.graph, !.main = rebased.head]
  IN  IF op.retry = 2 \/ ~rebased.clean THEN GiveUp(commits, main)
      ELSE IF ~CheckTask(view, rebased.graph[rebased.head].tree)
        THEN GiveUp(rebased.graph, rebased.head)
      ELSE /\ commits' = rebased.graph
           /\ main' = rebased.head
           /\ work' = rebased.graph[rebased.head].tree
           /\ op' = [op EXCEPT !.retry = @ + 1, !.outage = @ \/ outage, !.commit = rebased.head]
           /\ branch' = branch

(* The push was refused, failed on the way there, or lost its answer.  In  *)
(* an outage the fetch may fail as well, which ends the script.            *)
PushFailed ==
  /\ op.kind = "evidence"
  /\ \/ ~Accepts /\ UNCHANGED <<remote, ci, trouble>> /\ Retry(FALSE)
     \/ /\ Outage
        /\ UNCHANGED <<remote, ci>> \/ (Accepts /\ Land)
        /\ (Accepts /\ Retry(TRUE)) \/ GiveUp(commits, main)
  /\ UNCHANGED <<worktree, request, told, candidate, unchecked, evidence>>

-----------------------------------------------------------------------------
(* candidate-commit: one product commit on the Task branch. *)
CandidateCommit ==
  /\ op = Idle /\ Room
  /\ worktree \in DevChanges
  /\ Since(commits, MergeBase(commits, main, branch), branch) = {}
  /\ LET old == Tree(commits, branch)
     IN  commits' = Append(commits,
           Child(commits, <<branch>>, [old EXCEPT !.product = @ \cup {worktree}]))
  /\ branch' = NextId
  /\ candidate' = NextId
  /\ worktree' = "clean"
  /\ UNCHANGED <<main, work, request, op, unchecked, bounds>>
  /\ UNCHANGED atRemote

-----------------------------------------------------------------------------
(* completion-gate *)

(* git merge --no-ff --no-commit: the product is merged into the index and *)
(* the worktree, the documents stay as they are.  The gate may be run      *)
(* with --validate false (make completion-gate NO_VALIDATE=1).             *)
CompletionMerge(push, validate) ==
  LET cand == work.HANDOVER.cand
      base == MergeBase(commits, main, cand)
  IN  /\ op = Idle /\ Room
      /\ CompletionReady(commits, main, branch, work)
      /\ Changed \subseteq CompletionAllowed
      /\ work' = [work EXCEPT !.product = @ \cup Introduced(commits, base, cand)]
      /\ op' = [kind |-> "merging", cand |-> cand, before |-> main, start |-> work, push |-> push,
                validate |-> validate]
      /\ Mistake(~validate)
      /\ UNCHANGED <<commits, main, branch, worktree, request, candidate, unchecked, evidence>>
      /\ UNCHANGED atRemote

MarkUnchecked == unchecked' = IF op.validate THEN unchecked ELSE unchecked \cup {NextId}

(* The gate passes the digest of what it commits with or without the       *)
(* check, and for that digest the hook does not check either.              *)
CompletionCommit ==
  /\ op.kind = "merging"
  /\ op.validate => CheckTask(View(op.cand), work)
  /\ MarkUnchecked
  /\ commits' = Append(commits, Child(commits, <<main, op.cand>>, work))
  /\ main' = NextId
  /\ op' = IF op.push THEN [op EXCEPT !.kind = "publishing"] ELSE Idle
  /\ UNCHANGED <<work, branch, worktree, request, candidate, bounds>>
  /\ UNCHANGED atRemote

(* The files that were changed when the gate began get their bytes back.   *)
Snapshot == ChangedFiles(Tree(commits, op.before), op.start)
(* Mutant: what git puts back is left as it is. *)
RestoreNothing(tree) == tree
RestoreBytes(tree) == [f \in Files |-> IF f \in Snapshot THEN op.start[f] ELSE tree[f]]

(* git merge --abort puts back what is staged: the product always, and     *)
(* once the hook runs the documents too.                                   *)
MergeAborted(staged) == [f \in Files |-> IF f \in staged THEN HeadTree[f] ELSE work[f]]

CompletionAbort(staged) ==
  /\ work' = RestoreBytes(MergeAborted(staged))
  /\ op' = Idle
  /\ UNCHANGED <<commits, main, branch, worktree, request, candidate, unchecked, evidence>>
  /\ UNCHANGED atRemote

CompletionInvalid ==
  /\ op.kind = "merging"
  /\ op.validate /\ ~CheckTask(View(op.cand), work)
  /\ CompletionAbort({"product"}) /\ UNCHANGED trouble

(* The pre-commit hook or git itself refuses the commit. *)
CompletionHookRefuses ==
  /\ op.kind = "merging"
  /\ op.validate => CheckTask(View(op.cand), work)
  /\ Fault /\ CompletionAbort(Files)

CompletionPushed ==
  /\ op.kind = "publishing"
  /\ Accepts /\ Land
  /\ told' = main
  /\ op' = Idle
  /\ UNCHANGED <<commits, main, work, branch, worktree, request, candidate, unchecked, bounds>>

(* The answer is lost; the gate asks the remote and finds its commit. *)
CompletionReconciled ==
  /\ op.kind = "publishing"
  /\ Accepts /\ Land /\ Fault
  /\ told' = main
  /\ op' = Idle
  /\ UNCHANGED <<commits, main, work, branch, worktree, request, candidate, unchecked, evidence>>

(* The push did not happen.  Unless the remote is seen where it was when   *)
(* the gate began, the merge stays for somebody to reconcile.              *)
CompletionPushFailed(seen) ==
  /\ op.kind = "publishing"
  /\ \/ ~Accepts /\ UNCHANGED <<remote, ci, trouble>>
     \/ Accepts /\ Fault /\ UNCHANGED <<remote, ci>>
     \/ Accepts /\ Fault /\ seen = NoCommit /\ Land
  /\ op' = Idle
  /\ IF seen = op.before
       THEN /\ main' = op.before
            /\ work' = RestoreBytes([work EXCEPT !.product = Tree(commits, op.before).product])
       ELSE UNCHANGED <<main, work>>
  /\ UNCHANGED <<commits, branch, worktree, request, told, candidate, unchecked, evidence>>

-----------------------------------------------------------------------------
(* task-pr, and the merge of the pull request at the remote *)
TaskPr ==
  /\ op = Idle
  /\ request = NoCommit
  /\ CompositeReady(commits, main, branch, work)
  /\ request' = branch
  /\ UNCHANGED <<commits, main, work, branch, worktree, op, candidate, unchecked, bounds>>
  /\ UNCHANGED atRemote

(* The remote matters to a script that pushes and to one that begins with  *)
(* a clean worktree; what happens to it elsewhere commutes with the steps  *)
(* up to there.                                                            *)
RemoteMatters == IF op = Idle THEN Clean ELSE op.kind \in {"evidence", "publishing"}

(* A branch brings no documents of its own: what the planning gate         *)
(* committed is on the remote, unless it was run without a push, and then  *)
(* the merge is not modelled.                                              *)
MergeRequest ==
  /\ RemoteMatters
  /\ request # NoCommit
  /\ request' = NoCommit
  /\ IF request \in Ancestors(commits, remote) THEN UNCHANGED <<commits, remote, ci>>
     ELSE LET base == MergeBase(commits, remote, request)
              tree == [Tree(commits, remote) EXCEPT !.product = @ \cup Introduced(commits, base, request)]
          IN  /\ ChangedFiles(Tree(commits, base), Tree(commits, request)) \subseteq {"product"}
              /\ commits' = Append(commits, Child(commits, <<remote, request>>, tree))
              /\ remote' = NextId
              /\ ci' = ScopeCheck(commits', remote, NextId)
  /\ UNCHANGED <<main, work, branch, worktree, op, told, candidate, unchecked, bounds>>

-----------------------------------------------------------------------------
(* post-merge writes the backlog first and commits it as main-transition,  *)
(* which may be refused with the backlog already written.                  *)
PostMerge(merge, push) ==
  LET tree == [work EXCEPT !.backlog.merged = merge, !.backlog.status = "qa"]
      changed == ChangedFiles(HeadTree, tree)
  IN  /\ op = Idle /\ Room
      /\ merge \in Ancestors(commits, main)
      /\ IsMerge(commits, merge)
      /\ commits[merge].parents[2] = work.HANDOVER.cand
      /\ work.backlog.merged = NoCommit
      /\ IF changed \subseteq AllowedFor["main-transition"] /\ Valid(tree)
           THEN CommitEvidence(tree, FALSE, push, "end")
           ELSE work' = tree /\ UNCHANGED <<commits, main, op>>
      /\ UNCHANGED <<branch, worktree, request, candidate, unchecked, bounds>>
      /\ UNCHANGED atRemote

-----------------------------------------------------------------------------
(* sync: catch up with the remote; when its CI is green, finish Tasks with *)
(* a recorded merge and release the resources of finished ones.            *)
Synced ==
  /\ op = Idle /\ Clean
  /\ main \in Ancestors(commits, remote) \/ remote \in Ancestors(commits, main)
SyncedHead == IF main \in Ancestors(commits, remote) THEN remote ELSE main
SyncedTree == Tree(commits, SyncedHead)
NewlyDone == SyncedTree.backlog.merged # NoCommit /\ SyncedTree.backlog.status = "qa"

SyncFastForward ==
  /\ Synced
  /\ SyncedHead # main
  /\ main' = SyncedHead
  /\ work' = SyncedTree
  /\ UNCHANGED <<commits, branch, worktree, request, op, candidate, unchecked, bounds>>
  /\ UNCHANGED atRemote

SyncDone(push) ==
  LET tree == [work EXCEPT !.backlog.status = "done"]
  IN  /\ Synced /\ SyncedHead = main /\ ci /\ Room
      /\ NewlyDone
      /\ worktree \in {"none", "clean"}
      /\ IF Valid(tree)
           THEN CommitEvidence(tree, FALSE, push, "cleanup")
           ELSE work' = tree /\ UNCHANGED <<commits, main, op>>
      /\ UNCHANGED <<branch, worktree, request, candidate, unchecked, bounds>>
      /\ UNCHANGED atRemote

(* Mutant: the worktree and the branch are removed by force. *)
SyncCleanupForced(push) ==
  LET tree == [work EXCEPT !.backlog.alloc = FALSE]
  IN  /\ op.kind = "cleanup" \/ (Synced /\ SyncedHead = main /\ ci /\ ~NewlyDone)
      /\ Room
      /\ work.backlog.status = "done" /\ work.backlog.alloc
      /\ worktree' = "none"
      /\ branch' = NoCommit
      /\ CommitEvidence(tree, FALSE, push, "end")
      /\ UNCHANGED <<request, candidate, unchecked, bounds>>
      /\ UNCHANGED atRemote

SyncCleanup(push) ==
  LET tree == [work EXCEPT !.backlog.alloc = FALSE]
  IN  /\ \/ op.kind = "cleanup"
         \/ Synced /\ SyncedHead = main /\ ci /\ ~NewlyDone
      /\ Room
      /\ work.backlog.status = "done" /\ work.backlog.alloc
      /\ worktree = "clean"
      /\ branch \in Ancestors(commits, main)
      /\ worktree' = "none"
      /\ branch' = NoCommit
      /\ IF CheckTask([View(NoCommit) EXCEPT !.registered = FALSE], tree)
           THEN CommitEvidence(tree, FALSE, push, "end")
           ELSE work' = tree /\ op' = Idle /\ UNCHANGED <<commits, main>>
      /\ UNCHANGED <<request, candidate, unchecked, bounds>>
      /\ UNCHANGED atRemote

(* The second half of a sync has nothing it may do. *)
SyncStops ==
  /\ op.kind = "cleanup"
  /\ ~(Room /\ work.backlog.alloc /\ worktree = "clean" /\ branch \in Ancestors(commits, main))
  /\ op' = Idle
  /\ UNCHANGED <<commits, main, work, branch, worktree, request, candidate, unchecked, bounds>>
  /\ UNCHANGED atRemote

-----------------------------------------------------------------------------
(* Another clone publishes the completion of another Task, or evidence of  *)
(* this one.                                                               *)
ForeignPush(file) ==
  /\ RemoteMatters
  /\ Fault
  /\ LET old == Tree(commits, remote)
         tree == IF file = "product" THEN [old EXCEPT !.product = @ \cup {"foreign"}]
                 ELSE [old EXCEPT ![file] = "foreign"]
     IN  /\ file # "product" => old.backlog.status # "absent" /\ old[file] = "pending"
         /\ commits' = Append(commits, Child(commits, <<remote>>, tree))
  /\ remote' = NextId
  /\ ci' = TRUE
  /\ UNCHANGED <<main, work, branch, worktree, request, op, told, candidate, unchecked, evidence>>

Agents ==
  \/ \E class \in Classes, plan \in {"approved", "v2"}, status \in {"plan", "dev"} :
       WritePlan(class, plan, status)
  \/ \E status \in DOMAIN Phase : WriteStatus(status)
  \/ \E result \in {"pass", "other"} : WriteReview(result)
  \/ \E result \in {"pass", "other"} : WriteQaResult(result)
  \/ \E commit \in {branch, main} \ {NoCommit} : WriteHandover(commit)
  \/ \E change \in Product : Develop(change)

Scripts ==
  \/ \E same \in BOOLEAN : TaskStart(same)
  \/ \E action \in DOMAIN AllowedFor, push \in Push : EvidenceCommit(action, push)
  \/ CandidateCommit
  \/ \E push \in Push, validate \in BOOLEAN : CompletionMerge(push, validate)
  \/ TaskPr
  \/ \E merge \in DOMAIN commits, push \in Push : PostMerge(merge, push)
  \/ SyncFastForward
  \/ \E push \in Push : SyncDone(push)
  \/ \E push \in Push : SyncCleanup(push)

Continuations ==
  \/ PushAccepted \/ PushFailed
  \/ CompletionCommit \/ CompletionInvalid \/ CompletionHookRefuses
  \/ CompletionPushed \/ CompletionReconciled
  \/ \E seen \in {remote, NoCommit} : CompletionPushFailed(seen)
  \/ SyncStops

Elsewhere == MergeRequest \/ \E file \in {"product", "REVIEW_RESULT"} : ForeignPush(file)

Next == Agents \/ Scripts \/ Continuations \/ Elsewhere
Spec == Init /\ [][Next]_vars
-----------------------------------------------------------------------------

(* What the remote holds passes the repository's own check of the Task,    *)
(* made from a clone without the Task's branch: whatever was validated     *)
(* before a rebase, or before a merge that somebody else made at the       *)
(* remote, still holds of the head that was pushed in the end.  The one    *)
(* exception is a history with a completion that was committed with        *)
(* --validate false, which nothing looks at before it is pushed.           *)
PublishedValid == unchecked \cap Ancestors(commits, remote) = {} => Published

(* A Task that is published as done has shipped: its candidate, which is   *)
(* the one its HANDOVER names or, once post-merge has recorded a merge,    *)
(* the one merged there, is one product commit whose change is still in    *)
(* the product.  Unless post-merge vouches for it, exactly one merge on    *)
(* main has brought it.                                                    *)
DoneShipsCandidate ==
  LET tree == Tree(commits, remote)
      merged == tree.backlog.merged
      cand == IF merged = NoCommit THEN tree.HANDOVER.cand ELSE commits[merged].parents[2]
  IN  tree.backlog.status = "done" =>
        /\ cand # NoCommit
        /\ ChangedFiles(Tree(commits, commits[cand].parents[1]), Tree(commits, cand)) = {"product"}
        /\ Tree(commits, cand).product \subseteq tree.product
        /\ merged = NoCommit => Cardinality(MergesOf(commits, remote, cand)) = 1

(* No script loses what the DEV agent has made: an uncommitted change      *)
(* leaves the Task worktree only into a commit of the branch, and the      *)
(* branch gives up product changes only when main has them.                *)
DevWorkKept ==
  [][ LET onMain == Tree(commits', main').product
          onBranch == IF branch' = NoCommit THEN {} ELSE Tree(commits', branch').product
      IN  /\ worktree \in DevChanges /\ worktree' # worktree => worktree \in onBranch
          /\ branch # NoCommit => Tree(commits, branch).product \subseteq onBranch \cup onMain ]_vars

(* A completion that ends without its merge on main has put back the head  *)
(* and every byte that was there when it began, and the remote does not    *)
(* hold its merge.  A planning gate that gives up has put back main and    *)
(* the Task branch and has kept the documents it was to commit.            *)
CompletionPutsBack ==
  /\ op.kind = "merging" /\ commits' = commits => main' = op.before /\ work' = op.start
  /\ op.kind = "publishing" =>
       \/ main' = main /\ work' = Tree(commits, main)
       \/ main' = op.before /\ work' = op.start /\ main \notin Ancestors(commits', remote')
GateGivesUp == op.kind = "evidence" /\ op.planning /\ told' # main
HeadsPutBack == GateGivesUp => main' = op.before /\ branch' = op.branch
DocumentsKept == GateGivesUp => \A f \in Documents : work'[f] = work[f]

FailureRestores == [][ op' = Idle => CompletionPutsBack /\ HeadsPutBack /\ DocumentsKept ]_vars

(* A head that a script reported as pushed is part of the remote's main    *)
(* and of the local one for good.                                          *)
ToldIsPublished ==
  told # NoCommit => told \in Ancestors(commits, remote) \cap Ancestors(commits, main)

(* The CI accepts the completion of a product Task that completion-gate    *)
(* has reported as pushed: the standard path ends with its merge.          *)
CompletionAccepted ==
  LET tree == Tree(commits, told)
  IN  told # NoCommit /\ remote = told /\ IsMerge(commits, told)
        /\ tree.backlog.class = "product" /\ tree.backlog.status = "done" => ci
=============================================================================
