----------------------------- MODULE WorkWriters -----------------------------
(***************************************************************************)
(* The scripts that write one repository at the same time: create-task,    *)
(* worktree, run-work-agent, run-work-config-sync and wiki-index behind    *)
(* the directory lock of lib.mjs, and task-start, which takes no lock.     *)
(* A step is one system call or git command on what the scripts share, or  *)
(* several in a row where only files of the process itself lie between.    *)
(* A process may be killed between any two steps; its lock and its changes *)
(* stay.                                                                   *)
(*                                                                         *)
(* Every process makes one edit, named after it, and has a Task and so a   *)
(* directory below tasks of its own.  A tree holds, for every kind of      *)
(* file, the edits that are in it; an edit that was in the file when it    *)
(* was read and is not when it is written is lost.                         *)
(***************************************************************************)
EXTENDS Naturals, Sequences, FiniteSets

CONSTANTS
  Procs,
  MaxKilled,        \* how many processes are killed
  Free, Unwritten,  \* no lock, and a lock directory without its owner.json
  Dead              \* the pid of a process that has ended long ago

ASSUME WriterConstants ==
  /\ Free # Unwritten /\ Dead \notin {Free, Unwritten}
  /\ {Free, Unwritten, Dead} \cap Procs = {}

VARIABLES
  lock,   \* Free, Unwritten or the pid in owner.json
  log,    \* the trees of the commits on main
  index, work,
  kind,   \* the script a process runs
  pc,
  found,  \* the owner of the lock that a process has read
  seen,   \* the backlog as the process has read it
  before, \* the log when the process began to write
  fault,  \* what the agent below a launcher did wrong, or "none"
  moved,  \* processes whose worktree and branch are changed
  broken  \* history: what the scripts have done to one another

vars == <<lock, log, index, work, kind, pc, found, seen, before, fault, moved, broken>>

(* "lock": a process has removed another lock than the one it had found    *)
(* dead.  "reset": task-start has reset main over a foreign commit.        *)
(* "backlog": its undo has put back a backlog that is not main's.          *)
Damages == {"lock", "reset", "backlog"}
Break(damage, condition) == broken' = IF condition THEN broken \cup {damage} ELSE broken

Kinds == {"create", "worktree", "agent", "config", "wiki", "start"}
Files == {"backlog", "tasks", "wiki", "config"}

(* What a script may commit. *)
Scope == [k \in Kinds |->
            IF k = "create" THEN {"backlog", "tasks"}
            ELSE IF k = "worktree" THEN {"backlog"}
            ELSE IF k = "agent" THEN {"tasks"}
            ELSE IF k = "wiki" THEN {"wiki"}
            ELSE {"config"}]

(* Launchers give the hook their action and its paths. *)
Launchers == {"agent", "config"}

Last(trees) == trees[Len(trees)]
HeadTree == Last(log)
Clean == work = HeadTree /\ index = HeadTree
Touched(old, new) == {f \in Files : old[f] # new[f]}
InScope(p, old, new) ==
  /\ Touched(old, new) \subseteq Scope[kind[p]]
  /\ new.tasks \ old.tasks \subseteq {p}
With(tree, files, p) == [f \in Files |-> IF f \in files THEN tree[f] \cup {p} ELSE tree[f]]
Take(tree, files, other) == [f \in Files |-> IF f \in files THEN other[f] ELSE tree[f]]

Empty == [f \in Files |-> {}]
Ended == {"done", "refused", "failed", "retained", "killed"}
Alive(pid) == pid \in Procs /\ pc[pid] \notin Ended

(* validate-work: every entry of the backlog has its Task's directory.     *)
Validated(tree) ==
  \A p \in tree.backlog : kind[p] \in {"create", "start"} => p \in tree.tasks

Init ==
  /\ lock \in {Free, Dead}
  /\ broken = {}
  /\ log = <<Empty>> /\ index = Empty /\ work = Empty
  /\ kind \in [Procs -> Kinds]
  /\ pc = [p \in Procs |-> "new"]
  /\ found = [p \in Procs |-> Free]
  /\ seen = [p \in Procs |-> {}]
  /\ before = [p \in Procs |-> <<>>]
  /\ fault = [p \in Procs |-> "none"]
  /\ moved = {}

Goto(p, label) == pc' = [pc EXCEPT ![p] = label]
At(p, label) == pc[p] = label
repository == <<log, index, work>>
private == <<found, seen, before, fault, moved, broken>>

-----------------------------------------------------------------------------
(* acquireWorkRepoLock *)

(* Mutant: create-task reads early, too. *)
AllReadEarly == {"worktree", "create"}

(* worktree reads the backlog before it asks for the lock. *)
ReadsEarly == {"worktree"}

Begin(p) ==
  /\ At(p, "new") /\ kind[p] # "start"
  /\ seen' = IF kind[p] \in ReadsEarly THEN [seen EXCEPT ![p] = work.backlog] ELSE seen
  /\ Goto(p, "mkdir")
  /\ UNCHANGED <<lock, repository, kind, found, before, fault, moved, broken>>

Mkdir(p) ==
  /\ At(p, "mkdir")
  /\ IF lock = Free THEN lock' = Unwritten /\ Goto(p, "owner")
     ELSE UNCHANGED lock /\ Goto(p, "held")
  /\ UNCHANGED <<repository, kind, private>>

(* owner.json, if there is one by now. *)
ReadOwner(p) ==
  /\ At(p, "held")
  /\ IF lock \notin {Free, Unwritten}
       THEN found' = [found EXCEPT ![p] = lock] /\ Goto(p, "probe")
       ELSE UNCHANGED found /\ Goto(p, "refused")
  /\ UNCHANGED <<lock, repository, kind, seen, before, fault, moved, broken>>

(* Mutant: An owner that is alive is not asked for. *)
ProbeForced(p) ==
  /\ At(p, "probe")
  /\ Goto(p, "takeover")
  /\ UNCHANGED <<lock, repository, kind, private>>

(* process.kill(pid, 0): only the lock of a dead process may be taken over. *)
Probe(p) ==
  /\ At(p, "probe")
  /\ Goto(p, IF Alive(found[p]) THEN "refused" ELSE "takeover")
  /\ UNCHANGED <<lock, repository, kind, private>>

(* By now another process may hold the lock: one that has taken the dead   *)
(* lock over as well, or one that came after an owner which was still      *)
(* inside when owner.json was read and had ended when it was asked for.    *)
RemoveLock(p) ==
  /\ At(p, "takeover")
  /\ lock' = Free
  /\ Break("lock", lock \notin {Free, found[p]})
  /\ Goto(p, "again")
  /\ UNCHANGED <<repository, kind, found, seen, before, fault, moved>>

MkdirAgain(p) ==
  /\ At(p, "again")
  /\ IF lock = Free THEN lock' = Unwritten /\ Goto(p, "owner")
     ELSE UNCHANGED lock /\ Goto(p, "refused")
  /\ UNCHANGED <<repository, kind, private>>

(* owner.json cannot be written when somebody has removed the directory. *)
WriteOwner(p) ==
  /\ At(p, "owner")
  /\ IF lock = Free THEN UNCHANGED lock /\ Goto(p, "drop")
     ELSE lock' = p /\ Goto(p, "check")
  /\ UNCHANGED <<repository, kind, private>>

(* A writer starts from a clean worktree, and remembers the head.          *)
Check(p) ==
  /\ At(p, "check")
  /\ IF Clean THEN before' = [before EXCEPT ![p] = log] /\ Goto(p, "enter")
     ELSE Goto(p, "drop") /\ UNCHANGED before
  /\ UNCHANGED <<lock, repository, kind, found, seen, fault, moved, broken>>

Inside == {p \in Procs : pc[p] \in {"enter", "write", "child", "add", "commit", "after", "undo", "release"}}

(* The lock directory goes, whoever holds it by now. *)
Release(p) ==
  /\ \/ At(p, "release") /\ Goto(p, "done")
     \/ At(p, "unlock") /\ Goto(p, "failed")
     \/ At(p, "drop") /\ Goto(p, "refused")
  /\ lock' = Free
  /\ UNCHANGED <<repository, kind, private>>

-----------------------------------------------------------------------------
(* What the scripts write *)

Read(p) ==
  /\ At(p, "enter") /\ kind[p] = "create"
  /\ seen' = IF kind[p] \in ReadsEarly THEN seen ELSE [seen EXCEPT ![p] = work.backlog]
  /\ Goto(p, "write")
  /\ UNCHANGED <<lock, repository, kind, found, before, fault, moved, broken>>

(* The new Task's directory and its entry in the backlog as it was read. *)
Create(p) ==
  /\ At(p, "write") /\ kind[p] = "create"
  /\ work' = [work EXCEPT !.backlog = seen[p] \cup {p}, !.tasks = @ \cup {p}]
  /\ Goto(p, "add")
  /\ UNCHANGED <<lock, log, index, kind, private>>

(* git worktree add or remove, and the branch. *)
Allocate(p) ==
  /\ At(p, "enter") /\ kind[p] = "worktree"
  /\ \/ moved' = moved \cup {p} /\ Goto(p, "write")
     \/ UNCHANGED moved /\ Goto(p, "undo")
  /\ UNCHANGED <<lock, repository, kind, found, seen, before, fault, broken>>

Record(p) ==
  /\ At(p, "write") /\ kind[p] = "worktree"
  /\ work' = [work EXCEPT !.backlog = seen[p] \cup {p}]
  /\ Goto(p, "add")
  /\ UNCHANGED <<lock, log, index, kind, private>>

(* The agent below the launcher writes what it was asked to write, or does *)
(* what it must not: it fails, writes more, stages or commits its edit.    *)
Child(p) ==
  /\ At(p, "enter") /\ kind[p] = "agent"
  /\ \E what \in {"none", "exit", "scope", "stage", "commit"} :
       LET files == IF what = "scope" THEN {"tasks", "wiki"} ELSE {"tasks"}
           staged == With(index, files, p)
       IN  /\ fault' = [fault EXCEPT ![p] = what]
           /\ work' = With(work, files, p)
           /\ index' = IF what \in {"stage", "commit"} THEN staged ELSE index
           /\ log' = IF what = "commit" THEN Append(log, staged) ELSE log
  /\ Goto(p, "child")
  /\ UNCHANGED <<lock, kind, found, seen, before, moved, broken>>

ChildOutcome(p) ==
  /\ fault[p] # "exit"
  /\ log = before[p]
  /\ index = HeadTree
  /\ work # HeadTree
  /\ InScope(p, HeadTree, work)

ValidateChild(p) ==
  /\ At(p, "child") /\ kind[p] = "agent"
  /\ Goto(p, IF ChildOutcome(p) THEN "add" ELSE "undo")
  /\ UNCHANGED <<lock, repository, kind, private>>

(* The adapter is rewritten, or is as it should be. *)
SyncAdapter(p) == work' \in {work, With(work, {"config"}, p)}

SyncConfig(p) ==
  /\ At(p, "enter") /\ kind[p] = "config"
  /\ SyncAdapter(p)
  /\ Goto(p, IF work' = work THEN "after" ELSE "write")
  /\ UNCHANGED <<lock, log, index, kind, private>>

(* Only the adapter may have changed. *)
CheckScope(p) ==
  /\ At(p, "write") /\ kind[p] = "config"
  /\ Goto(p, IF Touched(HeadTree, work) \cup Touched(HeadTree, index) = Scope["config"]
               THEN "add" ELSE "undo")
  /\ UNCHANGED <<lock, repository, kind, private>>

RefreshIndex(p) ==
  /\ At(p, "enter") /\ kind[p] = "wiki"
  /\ \/ work' = With(work, {"wiki"}, p) /\ Goto(p, "add")
     \/ UNCHANGED work /\ Goto(p, "release")
  /\ UNCHANGED <<lock, log, index, kind, private>>

(* Mutant: git add --all. *)
AddAll(p) ==
  /\ At(p, "add")
  /\ index' = work
  /\ Goto(p, "commit")
  /\ UNCHANGED <<lock, log, work, kind, private>>

(* git add of the paths that the script has changed. *)
Add(p) ==
  /\ At(p, "add")
  /\ LET tasks == index.tasks \cup (work.tasks \cap {p})
     IN  index' = [Take(index, Scope[kind[p]], work) EXCEPT !.tasks = tasks]
  /\ Goto(p, "commit")
  /\ UNCHANGED <<lock, log, work, kind, private>>

(* work-pre-commit: everything is staged, a launcher stages only what it   *)
(* may, and the backlog is valid.                                          *)
HookAccepts(p) ==
  /\ work = index
  /\ kind[p] \in Launchers => InScope(p, HeadTree, index)
  /\ Validated(index)

(* The validation may find something else, and git has to have something   *)
(* to commit.                                                              *)
Commit(p) ==
  /\ At(p, "commit")
  /\ \/ /\ HookAccepts(p) /\ index # HeadTree
        /\ log' = Append(log, index)
        /\ Goto(p, IF kind[p] \in Launchers THEN "after" ELSE "release")
     \/ UNCHANGED log /\ Goto(p, "undo")
  /\ UNCHANGED <<lock, index, work, kind, private>>

(* Launchers validate once more what they leave behind. *)
After(p) ==
  /\ At(p, "after")
  /\ \/ Clean /\ Validated(work) /\ Goto(p, "release")
     \/ Goto(p, "undo")
  /\ UNCHANGED <<lock, repository, kind, private>>

-----------------------------------------------------------------------------
(* What the scripts take back *)

(* Mutant: A launcher takes back the worktree, not its commit. *)
ResetToHead(trees) ==
  /\ log' = log
  /\ index' = Last(log)
  /\ work' = Last(log)

(* Mutant: What is staged stays staged. *)
ResetSoft(trees) ==
  /\ log' = trees
  /\ work' = Last(trees)
  /\ UNCHANGED index

(* git reset --hard and git clean *)
ResetHard(trees) ==
  /\ log' = trees
  /\ index' = Last(trees)
  /\ work' = Last(trees)

RestoreBacklog(base) == [base EXCEPT !.backlog = HeadTree.backlog]

(* Launchers reset the repository to where they began. *)
UndoLaunch(p) == kind[p] \in Launchers /\ ResetHard(before[p])

(* create-task removes its directory, and leaves it staged. *)
UndoCreate(p) ==
  /\ kind[p] = "create"
  /\ work' = RestoreBacklog([work EXCEPT !.tasks = @ \ {p}])
  /\ index' = RestoreBacklog(index)
  /\ UNCHANGED log

UndoWorktree(p) ==
  /\ kind[p] = "worktree"
  /\ work' = RestoreBacklog(work)
  /\ index' = RestoreBacklog(index)
  /\ UNCHANGED log

(* wiki-index takes nothing back. *)
UndoWiki(p) == kind[p] = "wiki" /\ UNCHANGED repository

Undo(p) ==
  /\ At(p, "undo")
  /\ UndoLaunch(p) \/ UndoCreate(p) \/ UndoWorktree(p) \/ UndoWiki(p)
  /\ moved' = moved \ {p}
  /\ Goto(p, "unlock")
  /\ UNCHANGED <<lock, kind, found, seen, before, fault, broken>>

-----------------------------------------------------------------------------
(* task-start, without the lock *)

(* None of these scripts pushes: the remote's main stays where it was. *)
Remote == <<Empty>>

StartStatus(p) ==
  /\ At(p, "new") /\ kind[p] = "start"
  /\ Goto(p, IF Clean THEN "compare" ELSE "refused")
  /\ UNCHANGED <<lock, repository, kind, private>>

(* The head is the remote's, which may not answer. *)
StartCompare(p) ==
  /\ At(p, "compare")
  /\ \/ log = Remote /\ Goto(p, "head")
     \/ Goto(p, "refused")
  /\ UNCHANGED <<lock, repository, kind, private>>

StartHead(p) ==
  /\ At(p, "head")
  /\ before' = [before EXCEPT ![p] = log]
  /\ Goto(p, "read")
  /\ UNCHANGED <<lock, repository, kind, found, seen, fault, moved, broken>>

(* The backlog is read for the undo and, at once, for the new entry. *)
StartRead(p) ==
  /\ At(p, "read")
  /\ seen' = [seen EXCEPT ![p] = work.backlog]
  /\ Goto(p, "scaffold")
  /\ UNCHANGED <<lock, repository, kind, found, before, fault, moved, broken>>

StartScaffold(p) ==
  /\ At(p, "scaffold")
  /\ work' = [work EXCEPT !.tasks = @ \cup {p}]
  /\ Goto(p, "entry") \/ Goto(p, "revert")
  /\ UNCHANGED <<lock, log, index, kind, private>>

StartWrite(p) ==
  /\ At(p, "entry")
  /\ work' = [work EXCEPT !.backlog = seen[p] \cup {p}]
  /\ Goto(p, "allocate")
  /\ UNCHANGED <<lock, log, index, kind, private>>

(* The sparse worktree and its branch are added together, or taken back. *)
AddWorktree(p) == moved' \in {moved, moved \cup {p}}

(* The worktree is not added, or is added and cannot be reset. *)
StartAllocate(p) ==
  /\ At(p, "allocate")
  /\ \/ AddWorktree(p) /\ p \in moved' /\ Goto(p, "done")
     \/ AddWorktree(p) /\ Goto(p, "revert")
  /\ UNCHANGED <<lock, repository, kind, found, seen, before, fault, broken>>

(* A head that has moved is taken for task-start's own; all is retained if *)
(* the remote does not answer or is not where task-start began.            *)
StartRevert(p) ==
  /\ At(p, "revert")
  /\ IF log = before[p] THEN Goto(p, "reset")
     ELSE Goto(p, "retained") \/ (before[p] = Remote /\ Goto(p, "hard"))
  /\ UNCHANGED <<lock, repository, kind, private>>

(* The worktree and the branch go; git reset --mixed to where it began. *)
StartReset(p) ==
  /\ At(p, "reset")
  /\ moved' = moved \ {p}
  /\ log' = before[p]
  /\ index' = Last(before[p])
  /\ Break("reset", log # before[p])
  /\ Goto(p, "remove")
  /\ UNCHANGED <<lock, work, kind, found, seen, before, fault>>

(* git reset --hard, which leaves the untracked directory. *)
StartResetHard(p) ==
  /\ At(p, "hard")
  /\ moved' = moved \ {p}
  /\ log' = before[p]
  /\ index' = Last(before[p])
  /\ work' = [Last(before[p]) EXCEPT !.tasks = @ \cup (work.tasks \ index.tasks)]
  /\ Break("reset", log # before[p])
  /\ Goto(p, "failed")
  /\ UNCHANGED <<lock, kind, found, seen, before, fault>>

StartRemove(p) ==
  /\ At(p, "remove")
  /\ work' = [work EXCEPT !.tasks = @ \ {p}]
  /\ Goto(p, "restore")
  /\ UNCHANGED <<lock, log, index, kind, private>>

(* git status of the backlog. *)
StartRestore(p) ==
  /\ At(p, "restore")
  /\ Goto(p, IF work.backlog # HeadTree.backlog \/ index.backlog # HeadTree.backlog
                THEN "rewrite" ELSE "failed")
  /\ UNCHANGED <<lock, repository, kind, private>>

(* The backlog as it was read, whatever has become of it. *)
StartRewrite(p) ==
  /\ At(p, "rewrite")
  /\ work' = [work EXCEPT !.backlog = seen[p]]
  /\ Break("backlog", seen[p] # HeadTree.backlog)
  /\ Goto(p, "failed")
  /\ UNCHANGED <<lock, log, index, kind, found, seen, before, fault, moved>>

-----------------------------------------------------------------------------
Killed == {p \in Procs : pc[p] = "killed"}

Kill(p) ==
  /\ pc[p] \notin Ended \cup {"new"}
  /\ Cardinality(Killed) < MaxKilled
  /\ Goto(p, "killed")
  /\ UNCHANGED <<lock, repository, kind, private>>

Locking(p) ==
  \/ Begin(p) \/ Mkdir(p) \/ ReadOwner(p) \/ Probe(p) \/ RemoveLock(p) \/ MkdirAgain(p)
  \/ WriteOwner(p) \/ Check(p) \/ Release(p)
Writing(p) ==
  \/ Read(p) \/ Create(p) \/ Allocate(p) \/ Record(p) \/ Child(p) \/ ValidateChild(p)
  \/ SyncConfig(p) \/ RefreshIndex(p) \/ CheckScope(p) \/ Add(p) \/ Commit(p) \/ After(p)
  \/ Undo(p)
Starting(p) ==
  \/ StartStatus(p) \/ StartCompare(p) \/ StartHead(p) \/ StartRead(p)
  \/ StartScaffold(p) \/ StartWrite(p) \/ StartAllocate(p)
  \/ StartRevert(p) \/ StartReset(p) \/ StartResetHard(p)
  \/ StartRemove(p) \/ StartRestore(p) \/ StartRewrite(p)

Next == \E p \in Procs : Locking(p) \/ Writing(p) \/ Starting(p) \/ Kill(p)
Spec == Init /\ [][Next]_vars

-----------------------------------------------------------------------------
(* At most one writer is inside, also when locks are left behind and taken *)
(* over: acquireWorkRepoLock asks whether the owner is alive.  Except once *)
(* a process has removed another lock than the one it found dead: it goes  *)
(* by the path, and a second process may have taken that lock over, or the *)
(* owner it read of was alive, ended before it was asked for, and another  *)
(* one has come.  The second writer can have got in in no other way.       *)
OneWriter == "lock" \notin broken => Cardinality(Inside) <= 1

Intact == broken = {}
Acts(p) == pc'[p] # pc[p]

(* A script's commit brings its own edit, to the files it is for, and      *)
(* nothing that another process has left in the worktree or the index:     *)
(* scripts stage only their own, and work-pre-commit wants nothing else.   *)
(* worktree is excepted: it reads the backlog before it has the lock, and  *)
(* commits what it read there.  So is all that follows task-start's undo,  *)
(* when it has put back a backlog it read while another script's edit was  *)
(* in it, or reset over a commit.                                          *)
CommitBringsOwn(p) ==
  LET new == Last(log') IN
  /\ Touched(HeadTree, new) \subseteq Scope[kind[p]]
  /\ \A f \in Files : new[f] \ HeadTree[f] \subseteq {p}
CommitsOwn ==
  [][\A p \in Procs :
       Intact' /\ Acts(p) /\ At(p, "commit") /\ log' # log /\ kind[p] # "worktree" =>
         CommitBringsOwn(p)]_vars

(* No script takes from main what another one has committed, by writing    *)
(* what it read too early or by a rollback that reaches too far: worktree  *)
(* excepted, again, and all that follows a task-start's undo that has      *)
(* reset over a commit or put back a backlog that is not main's.           *)
WorkKept ==
  [][\A p \in Procs :
       Intact' /\ Acts(p) /\ kind[p] # "worktree" =>
         \A f \in Files : HeadTree[f] \ Last(log')[f] \subseteq {p}]_vars

(* What a script that has refused or failed wrote is not on main, and no   *)
(* worktree or branch of it is left, even if it failed after its commit,   *)
(* or its agent had committed; unless a worktree has read and committed    *)
(* what it wrote, or a task-start has put it back.                         *)
FailureLeavesNothing ==
  \A p \in Procs :
    /\ Intact /\ pc[p] \in {"refused", "failed"}
    /\ \A other \in Procs \ {p} : kind[other] # "worktree"
    => p \notin moved /\ \A f \in Files : p \notin HeadTree[f]

(* When all have ended and none was killed, no lock is left and the next   *)
(* writer finds a clean repository, except after the scripts that leave it *)
(* dirty: a started Task's documents, a create-task or wiki-index that     *)
(* could not commit, a task-start that could not undo.                     *)
LeavesDirt(p) ==
  \/ kind[p] = "start" /\ pc[p] \in {"done", "failed", "retained"}
  \/ kind[p] \in {"create", "wiki"} /\ pc[p] = "failed"
Quiet == Intact /\ \A p \in Procs : pc[p] \in (Ended \ {"killed"}) \cup {"new"}
Settled == Quiet => lock \in {Free, Dead} /\ (Clean \/ \E p \in Procs : LeavesDirt(p))
=============================================================================
