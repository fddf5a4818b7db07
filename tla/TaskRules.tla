------------------------------ MODULE TaskRules ------------------------------
(***************************************************************************)
(* What scripts/task demands of one Task: the rules of check-task.mjs over *)
(* its documents and the Git history, the scopes of the evidence actions   *)
(* of unified-lifecycle.mjs and the scope check of the CI.                 *)
(*                                                                         *)
(* A tree maps every document of the Task, and the product, to a content.  *)
(* Contents are reduced to what the rules tell apart: "approved" stands    *)
(* for the status, the approver and the time together, "other" for a pass  *)
(* signed by somebody who is not assigned, "foreign" for a review written  *)
(* in another clone.  The product is the set of changes it holds.  A graph *)
(* is a sequence of commits; the id of a commit is its index, so a         *)
(* parent's id is below its child's.                                       *)
(***************************************************************************)
EXTENDS Naturals, Sequences, FiniteSets

NoCommit == 0

(* The Task's entry of backlog.yaml and its documents. TASK.md is folded   *)
(* into PLAN, because only its exclusion clause is checked.                *)
Documents == {"backlog", "PLAN", "QA_PLAN", "REVIEW_RESULT", "QA_RESULT", "HANDOVER"}
Files == Documents \cup {"product"}

(* Product changes: one below the safety contract's paths, one elsewhere,  *)
(* one by another Task.                                                    *)
DevChanges == {"contract", "code"}
Changes == DevChanges \cup {"foreign"}

Statuses == {"absent", "plan", "dev", "qa", "done"}
Classes == {"product", "safety_contract"}

(* What task-start writes for the Task. *)
Scaffold(shared) ==
  [backlog |-> [status |-> "plan", class |-> "product", alloc |-> TRUE,
                shared |-> shared, merged |-> NoCommit],
   PLAN |-> "draft", QA_PLAN |-> "draft",
   REVIEW_RESULT |-> "pending", QA_RESULT |-> "pending",
   HANDOVER |-> [cand |-> NoCommit, complete |-> FALSE],
   product |-> {}]

(* The tree before task-start, which has none of the documents. *)
Absent == [Scaffold(FALSE) EXCEPT !.backlog.status = "absent", !.backlog.alloc = FALSE, !.PLAN = "none"]

ChangedFiles(old, new) == {f \in Files : old[f] # new[f]}

-----------------------------------------------------------------------------
(* Git *)

Tree(graph, c) == graph[c].tree
Ancestors(graph, c) == graph[c].ancestors
IsMerge(graph, c) == Len(graph[c].parents) = 2

Child(graph, parents, tree) ==
  [parents |-> parents, tree |-> tree,
   ancestors |-> {Len(graph) + 1} \cup UNION {Ancestors(graph, parents[i]) : i \in DOMAIN parents}]

(* git merge-base, and the commits of git rev-list base..c *)
MergeBase(graph, a, b) ==
  CHOOSE m \in Ancestors(graph, a) \cap Ancestors(graph, b) :
    \A n \in Ancestors(graph, a) \cap Ancestors(graph, b) : n <= m
Since(graph, base, c) == Ancestors(graph, c) \ Ancestors(graph, base)

(* git rev-list --first-parent *)
FirstParentLine(graph, c) ==
  LET line[i \in DOMAIN graph] ==
        {i} \cup IF graph[i].parents = <<>> THEN {} ELSE line[graph[i].parents[1]]
  IN  line[c]

(* The merges on a line of main whose second parent is the candidate. *)
MergesOf(graph, tip, candidate) ==
  {m \in FirstParentLine(graph, tip) : IsMerge(graph, m) /\ graph[m].parents[2] = candidate}

(* git diff base...c, for the product *)
Introduced(graph, base, c) == Tree(graph, c).product \ Tree(graph, base).product

(* git rebase onto another head: every commit that is not a merge is       *)
(* applied again, in order.  A document that the two sides changed in      *)
(* different ways conflicts, a commit that is already in its place stays,  *)
(* and one that changes nothing any more is dropped.                       *)
Pick(done, c) ==
  LET old == Tree(done.graph, done.graph[c].parents[1])
      new == Tree(done.graph, c)
      here == Tree(done.graph, done.head)
      touched == ChangedFiles(old, new)
      result == [f \in Files |->
                   IF f = "product" THEN here.product \cup (new.product \ old.product)
                   ELSE IF f \in touched THEN new[f] ELSE here[f]]
  IN  IF ~done.clean \/ (\E f \in touched \cap Documents : here[f] \notin {old[f], new[f]})
      THEN [done EXCEPT !.clean = FALSE]
      ELSE IF done.graph[c].parents = <<done.head>> THEN [done EXCEPT !.head = c]
      ELSE IF result = here THEN done
      ELSE [clean |-> TRUE, head |-> Len(done.graph) + 1,
            graph |-> Append(done.graph, Child(done.graph, <<done.head>>, result))]

Rebase(graph, head, onto) ==
  LET mine == {c \in Since(graph, onto, head) : ~IsMerge(graph, c)}
      step[n \in 0 .. Len(graph)] ==
        IF n = 0 THEN [clean |-> TRUE, head |-> onto, graph |-> graph]
        ELSE IF n \in mine THEN Pick(step[n - 1], n) ELSE step[n - 1]
  IN  step[Len(graph)]

-----------------------------------------------------------------------------
(* check-task.mjs.  A view says where the check runs: the graph, the head  *)
(* of main, MERGE_HEAD or NoCommit, and whether branch and worktree must   *)
(* be, and are, registered in this clone.                                  *)

PlanApproved(tree) == tree.PLAN \in {"approved", "v2"}
QaPlanApproved(tree) == tree.QA_PLAN \in {"approved", "reviewed"}

(* The fields of the second contract version belong to safety contracts.   *)
PlanContract(tree) == tree.PLAN = "v2" => tree.backlog.class = "safety_contract"

(* A product Task may not gain a legacy completion field. *)
LegacyUnchanged(view, tree) ==
  \/ tree.backlog.class = "safety_contract"
  \/ tree.backlog.merged = NoCommit
  \/ Tree(view.graph, view.main).backlog.merged # NoCommit

DevGate(view, tree) ==
  /\ PlanApproved(tree)
  /\ QaPlanApproved(tree)
  /\ ~tree.backlog.shared
  /\ tree.backlog.status \in {"dev", "qa"} =>
       tree.backlog.alloc /\ (view.local => view.registered)

QaGate(tree) == tree.REVIEW_RESULT = "pass" /\ tree.QA_PLAN = "reviewed"

(* Mutant: after the merge nobody asks how the candidate came to main. *)
ProductBindingOnce(view, candidate) ==
  view.merging = candidate => view.graph[candidate].parents = <<view.main>>

(* During the merge the candidate must sit directly on the head of main;   *)
(* afterwards exactly one merge on main has it as its second parent.       *)
ProductBinding(view, candidate) ==
  IF view.merging = candidate
    THEN view.graph[candidate].parents = <<view.main>>
    ELSE Cardinality(MergesOf(view.graph, view.main, candidate)) = 1

ProductDone(view, tree) ==
  /\ tree.QA_RESULT = "pass"
  /\ tree.HANDOVER.complete
  /\ tree.HANDOVER.cand # NoCommit
  /\ ProductBinding(view, tree.HANDOVER.cand)

(* The first parent of the merge in progress, or of the only merge of the  *)
(* candidate on main; NoCommit when there is none.                         *)
BoundParent(view, candidate) ==
  LET merges == MergesOf(view.graph, view.main, candidate)
  IN  IF view.merging # NoCommit
        THEN IF view.merging = candidate THEN view.main ELSE NoCommit
        ELSE IF Cardinality(merges) = 1
          THEN view.graph[CHOOSE m \in merges : TRUE].parents[1] ELSE NoCommit

SafetyBinding(view, candidate) ==
  LET first == BoundParent(view, candidate)
      base == MergeBase(view.graph, first, candidate)
  IN  /\ first # NoCommit
      /\ Cardinality(Since(view.graph, base, candidate)) = 1
      /\ Introduced(view.graph, base, candidate) = {"contract"}

(* A completed contract with a recorded merge is not looked at again. *)
SafetyDone(view, tree) ==
  /\ tree.HANDOVER.complete
  /\ \/ tree.backlog.merged # NoCommit
     \/ tree.HANDOVER.cand # NoCommit /\ SafetyBinding(view, tree.HANDOVER.cand)

CheckTask(view, tree) ==
  LET status == tree.backlog.status
      safety == tree.backlog.class = "safety_contract"
  IN  status # "absent" =>
        /\ PlanContract(tree)
        /\ LegacyUnchanged(view, tree)
        /\ status \in {"dev", "qa", "done"} => DevGate(view, tree)
        /\ status \in {"qa", "done"} /\ ~safety => QaGate(tree)
        /\ status = "done" =>
             IF safety THEN SafetyDone(view, tree) ELSE ProductDone(view, tree)

-----------------------------------------------------------------------------
(* unified-lifecycle.mjs *)

(* The files each evidence action may change. *)
EvidenceActions == {"planning-gate", "plan", "qa-plan", "review", "qa-result", "handover",
                    "task-start", "main-transition", "sync"}
AllowedFor ==
  [a \in EvidenceActions |->
     CASE a = "plan" -> {"PLAN"}
       [] a = "qa-plan" -> {"QA_PLAN"}
       [] a = "review" -> {"REVIEW_RESULT"}
       [] a = "qa-result" -> {"QA_RESULT"}
       [] a = "handover" -> {"HANDOVER"}
       [] a = "main-transition" -> {"backlog", "HANDOVER"}
       [] OTHER -> Documents]

PlanningState(tree, changed) ==
  /\ changed \cap {"backlog", "PLAN", "QA_PLAN"} # {}
  /\ changed \subseteq AllowedFor["planning-gate"]
  /\ PlanApproved(tree)
  /\ QaPlanApproved(tree)
  /\ tree.backlog.status \in {"plan", "dev"}

(* What a completion may change besides the candidate's product files. *)
CompletionAllowed == Documents \ {"PLAN"}

(* The candidate is the head of the Task branch, one commit beyond main,   *)
(* and changes the product only.                                           *)
OneCandidate(graph, main, branch, candidate) ==
  /\ candidate = branch
  /\ candidate # NoCommit
  /\ Cardinality(Since(graph, MergeBase(graph, main, candidate), candidate)) = 1
  /\ ChangedFiles(Tree(graph, MergeBase(graph, main, candidate)), Tree(graph, candidate)) \subseteq {"product"}

IndependentPass(tree) == tree.REVIEW_RESULT = "pass" /\ tree.QA_RESULT = "pass"

CompletionReady(graph, main, branch, tree) ==
  /\ OneCandidate(graph, main, branch, tree.HANDOVER.cand)
  /\ QaPlanApproved(tree)
  /\ IF tree.backlog.class = "safety_contract" THEN tree.HANDOVER.complete ELSE IndependentPass(tree)

(* assertComposite, before a pull request is opened *)
CompositeReady(graph, main, branch, tree) ==
  OneCandidate(graph, main, branch, tree.HANDOVER.cand) /\ IndependentPass(tree)

(* scope-check --event main --allow-merge true: a merge must be of the     *)
(* candidate that the HANDOVER in its first parent names, anything else    *)
(* must leave the product alone.                                           *)
ScopeCheck(graph, before, head) ==
  IF IsMerge(graph, head)
    THEN LET first == graph[head].parents[1]
             candidate == graph[head].parents[2]
             base == MergeBase(graph, first, candidate)
         IN  /\ Tree(graph, first).HANDOVER.cand = candidate
             /\ Cardinality(Since(graph, base, candidate)) = 1
             /\ ChangedFiles(Tree(graph, base), Tree(graph, candidate)) \subseteq {"product"}
             /\ ChangedFiles(Tree(graph, first), Tree(graph, head))
                  \subseteq CompletionAllowed \cup {"product"}
    ELSE Tree(graph, before).product = Tree(graph, head).product
=============================================================================
