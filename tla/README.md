# Verification of kakesu

TLA+ models of the stateful parts of kakesu, the TLC instances that check them
and TLAPS proofs about them. Paths are relative to the repository;
`harness/` abbreviates `tools/dev-agent-harness/internal/` and `task/` `scripts/task/`.

To check a module: `tlc -config ControlStore.cfg MCControlStore.tla` (the table of runs
names module and cfg of each). To check proofs: `tlapm ControlStoreProofs.tla`, and so on
for each module whose name ends in `Proofs`. `PROJECT.json` lists the runs, the source lines
behind every definition, the hazards, and for each property a mutation of the
code that it detects.

## 1. Inventory

The program has three bodies of code that keep state: the **core** (Go; the Task
store of the control plane and a frame of planes around it), the **development
agent harness** (Go; a launcher that runs a coding agent without credentials, an
egress broker that holds them, and the store and protocol of push approvals), and
the **Task scripts** (JavaScript; the rules and the Git transactions of the project's
own process). Governance (Rust) and memory (Python) are frames around a constant
decision and an external library.

### 1.1 Parts that are modelled

**Control store** (`core/internal/control/{store,lifecycle,versioned,recovery}.go`).
*State*: a SQLite file with tasks, owners, contracts, progress, two history
tables and an event log per task; a schema version. *Operations*: OpenStore
(migrates versions 1 and 2), CreateTask, TransitionTask, UpdateContract,
UpdateProgress, ReadRecoveredTask, Close. *Hard*: every operation is a deferred
transaction of several statements; several handles on one file race; failures,
cancellations and crashes fall between any two statements and between the commit
and the return; progress positions are checked against a snapshot. *Correct when*:
no agent owns two unfinished tasks; a finished task is released; histories, current
rows and event log agree; what a caller was told is in the log; committed history is
never rewritten; all of it is as if each operation were one step.

**Approval store** (`harness/approvalstate`). *State*: one snapshot file (requests
with digest, times, state, decider), a lock file, a temporary file; in memory the
snapshot, the last time seen, a poison flag. *Operations*: Open, Create, Get,
Approve, Deny, Cancel, MarkStale, ExpireDue, Snapshot, Close. *Hard*: a change is
five system calls, any of which can fail with known or unknown effect; kills, power
loss, clocks set back; the leftover temporary file is looked for before the lock is
taken. *Correct when*: memory and file agree or the store is poisoned; what was told
survives; the file only moves forward; it can be opened again.

**Challenge manager and decision coordinator** (`harness/approvalchallenge`,
`harness/approvaldecision`). *State*: pending challenges with their bindings, the
last time seen, closed. *Operations*: Issue, Consume (releases its mutex while the
passkey verifier runs), Close; Begin and Complete of the coordinator, which read the
store and then issue, or consume and then decide, with no lock over both. *Hard*:
whatever happens in those gaps: a second completion, the opposite decision, a
withdrawal, an expiry, Close, a restart, a poisoned store. *Correct when*: a
challenge is verified at most once, every decision on disk was verified for exactly
this request, decision and operator, and nobody is told of a decision that did not
stand.

**Capability registry and the exchange** (`harness/capability`, `capabilitycontrol`,
`connectsession`, `brokerhttp`, `brokerexchange`, `egresstransaction`,
`upstreamforwarder`). *State*: leases by handle (subject, scope, deadline on two
clocks, uses, epoch). *Operations*: issue, consume, revoke (by handle, by subject,
by epoch); a session carries one of issue, revoke or an exchange. *Hard*: Issue reads
the clocks before it takes the lock; an exchange whose client has given up runs on; a
use is spent before the resolver and the upstream can fail; replies are lost; the
wall clock is set back; the broker restarts. *Correct when*: no more upstream attempts
than uses, each with the subject and scope of the lease, handles are unique, and a
lease that is over stays over.

**Broker listener and proxy bridge** (`harness/brokerlistener`, `harness/proxybridge`).
*State*: a listener, slots, a watcher, a goroutine per connection; in the bridge two
copiers per connection. *Operations*: Serve and what its goroutines do. *Hard*: Accept
races the watcher's close; all slots taken; one direction fails while the other is
blocked on a silent peer; a cancellation after one direction has ended. *Correct when*:
at most MaxConcurrent connections, no connection left when Serve returns, an error
only for a failed Accept, and Serve returns.

**Launch session** (`harness/launchsession`, calls of `harness/controlclient`).
*State*: two leases, a directory with the CA, the bridge, the child. *Operations*:
run, supervise, cleanup. *Hard*: each setup step can fail or find the context done;
child, bridge and caller can end in the same select; control calls are lost or served
late. *Correct when*: nothing lent to the child is taken back while it lives, leases
are revoked after the last connection, nothing is left behind.

**Task lifecycle and Task checks** (`task/unified-lifecycle.mjs`, `task/check-task.mjs`).
*State*: the commits of all clones; local main with its working tree, where agents leave
their documents; the Task branch and its worktree; the remote's main and the pull request.
*Operations*: task-start, planning-gate, evidence-commit, candidate-commit,
completion-gate, task-pr, scope-check in the CI, post-merge, sync; the checks decide from
one tree and the history whether a Task is as its documents claim. *Hard*: each script is a
transaction of Git commands over three heads, whose push may be refused (another clone
pushed), fail, or succeed with its answer lost; it is then retried after a rebase, or
rolled back; a merge may be made at the remote. *Correct when*: what the remote holds
passes the checks, unless a completion was run with `--validate false`; done means that exactly
one merge brought the candidate the documents name; nobody's work is lost; a failed script has
put back what it found.

**Work repository writers** (`task/{lib,create-task,worktree,run-work-agent,
run-work-config-sync,wiki-index,work-pre-commit}.mjs`, the launcher's side of
`agent-routing.mjs`, the comparison of backlog and directories in `validate-work.mjs`).
*State*: a lock directory with the pid of its owner; backlog, Task directories, wiki and
configuration in one working tree, its index and main. *Operations*: the directory lock
with its takeover of a dead owner, and the writing scripts, each a read, a write, an add, a
commit through the hook, or a rollback; task-start, which takes no lock. *Hard*: scripts
run at the same time and may be killed anywhere; agents below a launcher fail, overstep,
stage or commit by themselves; files are read before the lock is taken. *Correct when*: one
writer at a time; a commit holds its own edit and nobody else's; a failure leaves nothing;
the last one out leaves a free lock and a clean tree.

### 1.2 How they interact

```
launchsession --starts--> proxybridge --Unix socket--> brokerlistener
     | issue, revoke (controlclient)                        | one session per connection
     +------------------------------------------> connectsession
                              capabilitycontrol --> capability <-- egresstransaction
                                                                     --> upstreamforwarder
approvaldecision --> approvalchallenge (verifier callback)
       +-----------> approvalstate (file, lock)
```

The control store stands by itself: its callers are the planes of the core, which are
idle services today. The Task scripts meet in one repository: the lifecycle scripts call
the checks before and after each of their commits, and the writers of the Work repository
share its lock and working tree. Components share state only where an arrow ends in a registry or a
file; everything else is a call or a connection.

### 1.3 Parts that are not modelled

`PROJECT.json` lists each with its reason. In short: the run group, the service start with
socket activation, the egress policy and the message envelope have a little behaviour and
are in the plan (section 7); the stub planes, governance and memory have none; the manifest
parser, the upstream transport below its one attempt, peer credentials, proxy CA, user
lookup, provisioning and command-line handling are input and output whose outcomes (success
or failure) the models have as choices; of the Task scripts, `migrate-operations.mjs` is a
one-shot conversion, `init-work`, the backlog viewer and the explorer change nothing the
others read, and the routing tables, the agents' configuration and the syntax of the
documents are pure input and output.

Some parts of modelled components are left out too, because the code makes no promise
there: the lifecycle's actions `bootstrap` and `wiki` do not belong to a Task; nothing
recovers the session of a launcher that was killed; expired leases are not swept; a
temporary file of the approval store left by a kill keeps the store closed by design (the
model has it, no property is about it).

## 2. Modules

| module | models | composed of |
|---|---|---|
| `TaskLedger` | abstract: what the control store promises, one step per operation | |
| `ControlStore` | the control store, statement by statement | implements `TaskLedger` |
| `ApprovalStore` | the approval store, system call by system call | |
| `ApprovalChallenge` | the challenge manager's steps | |
| `ApprovalDecision` | the coordinator | extends `ApprovalChallenge`; the store as its callers see it |
| `CapabilityRegistry` | the registry's critical sections and clocks | |
| `ConnectSession` | sessions, control requests and exchanges | extends `CapabilityRegistry` |
| `DrainingServer` | abstract: what a server promises its owner | |
| `AcceptLoop` | Serve's loop and watcher, common to both servers | |
| `BrokerListener` | broker connections | extends `AcceptLoop`, implements `DrainingServer` |
| `ProxyBridge` | bridge connections and copiers | extends `AcceptLoop`, implements `DrainingServer` |
| `LaunchSession` | the launcher | uses `DrainingServer` as its bridge |
| `ControlStoreProofs`, `ApprovalStoreProofs`, `ApprovalDecisionProofs`, `ConnectSessionProofs`, `LaunchSessionProofs`, `WorkWritersProofs`, `TaskLifecycleProofs` | theorems about the modules of those names | |
| `DrainingServerProofs` | theorems about `AcceptLoop`, `BrokerListener` and `ProxyBridge` | |
| `TaskRules` | the checks of a Task, the scopes of the actions, the CI's scope check | |
| `TaskLifecycle` | the lifecycle scripts of one Task | extends `TaskRules` |
| `WorkWriters` | the writers of the Work repository and their lock | |
| `MC...` | symmetry sets and constraints of the checked instances | |

**ControlStore.** `db` holds the committed rows of each task; the tables keyed by
`(task_id, n)` are functions from `n`. A handle's transaction in `tx` carries its snapshot
of the task (`row`), whether it is still the latest (`fresh`), its stage and the argument.
`Begin...` is the SELECT with the checks that follow it; one action per writing statement;
`Commit`, then `Return` to the caller (`acked` records what callers were told), and
`Rollback` or `Crash` at any stage. SQLite (external) is two rules: the first write of a
deferred transaction fails if another connection has committed since its snapshot or is
writing, and a partial unique index refuses a second active task of an agent. Initial
states are new files and files as versions 1 and 2 left them, with or without tasks.
An early return changes nothing and is a `Begin` that is not enabled.

**ApprovalStore.** `disk` is the file as processes see it, `durable` as a power loss would
leave it; `temp` the temporary file. `phase` is how far a process is: outside, past the
temporary-file check, idle with the lock, temporary file written, renamed. `next` is the
snapshot in flight. Each step of `persist` succeeds, fails without effect, or (from the
rename on) fails with unknown effect and poisons. `Crash` forgets a process's memory,
`PowerLoss` may also undo an unsynced rename. `SetClock` moves the clock either way.
`told` is what callers learnt from a change, or from a read of a synced file: `Read` is the Get
of a record that is not due, and Snapshot. `shown` is what they read of a file whose
rename nobody has synced, because its writer was killed or poisoned; `load` does not sync it
either, so a power loss can take it back (section 4).

**ApprovalChallenge, ApprovalDecision.** `call` is where each caller is: between the read
and the issue of Begin, in the verifier, before the store's decision, before the answer.
`binding`, `invoked`, `verified` and `results` remember what was issued, how often the
verifier ran, what it accepted and what callers were told. The store is one atomic change
that may fail, or be poisoned with or without effect - what `ApprovalStore` establishes.

**CapabilityRegistry, ConnectSession.** One action per critical section of the registry;
`reading` carries the clocks from before Issue's lock to its insert. `conn` is where each
connection is; `lease` and `log` are history variables: what each handle was issued for,
how often, how many upstream attempts were made with it and whether somebody was told it
is over. `End` is every way a connection can stop (reply lost, phase over, upstream
failed): what was spent stays spent.

**AcceptLoop, BrokerListener, ProxyBridge.** The loop's program points, the watcher's
three, and one record per connection goroutine; a connection's `closing` and `closed`
separate the close of its sockets from the release of its slot. In the bridge a copier
ends `ok` (end of stream, half-close passed on), `failed` by itself, or `cut` because its
sockets were closed. `DrainingServer` is the promise both are checked against; `Active`
and `Verdict` are the refinement mapping.

**LaunchSession.** `at` is run's program point including cleanup; the broker's side of a
lease (`lease`, `revocation`) moves on its own, so a request may be served after its caller
has given up. The bridge is an instance of `DrainingServer`, the promise `ProxyBridge`
is shown to keep.

**TaskRules, TaskLifecycle.** A commit is its parents and its tree; a tree holds for each
document of the Task what the rules tell apart, and for the product the set of changes in
it. A graph is a sequence of commits, so a rebase makes new ones and a lost answer leaves
the remote with a commit the script does not know to be there. `CheckTask` is check-task as
a predicate on a tree and what its caller sees of the repository; `ScopeCheck` is the
CI's. A script is one step up to its first push - nobody else writes the clone meanwhile -
and `op` then carries what it needs to continue: the head and bytes to go back to and the
attempts left. `PushAccepted` and `PushFailed` (and for a completion the merge's `Completion...` steps)
are its continuations, between which other clones push. `trouble` counts what goes wrong:
foreign pushes, outages (also of the fetch before a retry), lost answers, refusing hooks,
documents or changes the rules must refuse, a completion run with `--validate false`. That one
commits its merge without the check; `unchecked` remembers such commits. A script that refuses
at the start is a step that is not taken. `Rebase` is git's:
a commit already in its place stays, one that is already upstream is dropped, merges are
flattened, and only documents that the two sides changed differently conflict.

**WorkWriters.** One step per system call or Git command on what the scripts share. `pc` is a
process's place, `kind` its script; each process makes one edit, named after it, so that a tree
is, per kind of file, the set of edits in it, and a lost update is a missing name. `lock` is
free, a directory without owner, or a pid. To read the owner of a lock and to ask whether it is
alive are two steps, and so are the steps of task-start, which has no lock: status, comparison
of the heads, start head, backlog, directory, entry, worktree, and those of its undo. Only its
two reads of the backlog (`unified-lifecycle.mjs:263`, `:264`) are one step: the second one only
reaches an entry that no commit takes, because the new Task is never staged. `fault` is
what the agent below a launcher does wrong. `broken` names the damage that the scripts can do
to one another (section 4), and every property says which it excepts:

* "lock": a process has removed another lock than the one it found dead;
* "reset": task-start's undo has reset main over a commit of somebody else;
* "backlog": its undo has put back a backlog that is not main's.

## 3. Runs

| run | module, cfg | checks | distinct states |
|---|---|---|---|
| `control_store` | MCControlStore, ControlStore | TypeOK, AckedIsDurable, RecoveryNeverCorrupt, LogReplays, Ownership, AppendOnly, ImplementsLedger | 134 k |
| `control_recover` | MCControlStore, ControlStoreRecover | EveryTaskRecoverable: **violated** | |
| `approval_store` | MCApprovalStore, ApprovalStore | TypeOK, MemoryIsDisk, SnapshotsConsistent, ToldIsDurable, OnlyForward | 935 k |
| `approval_reopen` | MCApprovalStore, ApprovalStoreReopen | Reopenable: **violated** | |
| `approval_decision` | MCApprovalDecision, ApprovalDecision | OneShot, DecisionsVerified, ResultsStand, CloseSuppresses | 2.0 M |
| `broker_exchange` | MCConnectSession, ConnectSession | AttemptsPaid, AttemptsAuthorised, OverIsOver | 4.45 M |
| `broker_listener` | MCBrokerListener, BrokerListener | KeepsPromise, AcceptsAgain | 1.3 k |
| `proxy_bridge` | MCProxyBridge, ProxyBridge | CutForCause, KeepsPromise, ServeReturns, FailureEnds | 95 k |
| `launch_session` | MCLaunchSession, LaunchSession | ChildEquipped, RevokedLast, CleanReturn, SessionReturns, BridgeLossStops | 6.6 k |
| `task_lifecycle` | MCTaskLifecycle, TaskLifecycle | PublishedValid, DoneShipsCandidate, ToldIsPublished, DevWorkKept, FailureRestores | 2.49 M |
| `task_completion` | MCTaskLifecycle, TaskCompletion | CompletionAccepted: **violated** | |
| `work_writers` | MCWorkWriters, WorkWriters | OneWriter, FailureLeavesNothing, Settled, CommitsOwn, WorkKept | 3.36 M |

What each shows, with its bounds:

* **control_store**: two handles, enough for a race because a transaction only conflicts
  with the last committer; two tasks of one agent, which is what the unique index is about;
  three events, so one operation follows a creation, can go stale under another, and can
  finish a task and release its agent while the other task is being created. `MaxRun = 1`
  gives the run watermark two values. Deadlock is not checked: a version 1 file in which one
  agent has two unfinished tasks cannot be opened at all, and then nothing happens.
* **control_recover**: one task in a new file (`FreshSpec`); the counterexample is the opening, one
  creation with an incomplete schema, and its commit: what a later read of it then refuses.
* **approval_store**: two processes, so that one can pass the temporary-file check while
  the other holds the lock and dies; two requests; a clock of three instants with a
  lifetime of up to two; three generations, the number of changes the longest scenario
  needs (create, create, decide) and, at the bound, the refusal of the overflow.
* **approval_decision**: two concurrent callers, two challenges that may be for opposite
  decisions or different operators, one request (requests share no state but the clock),
  one pending challenge at a time, so the capacity is reached.
* **broker_exchange**: two connections, subjects and handles, and two scopes: an API scope
  whose leases have two uses, so that the last one can be raced and a lease can outlive one
  exchange, and a Git scope, whose leases have one. A request may name the other scope. Clocks of
  two instants with TTL 1: a lease is either fresh or over, on each clock separately. One draw
  per issue: a redraw keeps the reading of the clocks, so it inserts what a later first draw
  with that reading inserts; the theorems hold for any number of draws.
* **broker_listener**, **proxy_bridge**: one connection more than slots in the former, so
  that the loop waits for a slot; as many as slots in the latter, with two directions each.
  The connections share nothing but the slots.
* **launch_session**: one session; the bridge has two connections.
* **task_lifecycle**: one Task, of either class. The longest standard path has six commits
  (scaffold, planning, candidate, evidence, completion, recorded merge); nine leave three
  to what something going wrong adds: a foreign commit and the two copies that a rebase onto
  it makes, with which a completion can even be flattened after post-merge has recorded it
  (section 4). Two evidence commits; one trouble, at any moment, which may be an unchecked completion. That
  the bound on commits cuts longer histories off is why deadlock is not checked. Scripts are
  run with their push; what a script without one leaves is also what a failed push leaves.
* **task_completion**: the same without any trouble, for which seven commits are enough.
* **work_writers**: three processes of any kinds, from the lock of a process that died before
  (`DeadSpec`; a free one is what is left once that has been taken over and released), and one of
  them killed anywhere: a lock is found dead, taken over, and the new owner
  killed too; two processes that find the same lock need a third to be overtaken by. The
  constraint `Unbroken` stops at a damage, since after it nothing is claimed but OneWriter,
  which excepts "lock" only; the theorems of section 5 go on. A backlog made stale takes four processes to
  reach main, which only the theorems cover. Processes end for good, so deadlock is
  not checked.

Every history or time bound is a CONSTANT: MaxEvents, MaxRun, MaxTime, MaxTTL, MaxRecords,
MaxGeneration, MaxEpoch, MaxIssueTry, MaxCommits, MaxEvidence, MaxTrouble, MaxKilled, and
the sets of handles, challenges, connections and processes. MaxRecords, MaxGeneration,
MaxTTL, MaxPending, MaxConcurrent and MaxIssueTry exist in the code with larger values; the
others bound the exploration only. Symmetry is used where a run has interchangeable values
and no liveness property.

### Fairness

The safety runs assume none. The three liveness runs assume weak fairness of:

* the servers' own goroutines (loop, watcher, context propagation), which the Go
  scheduler runs when they are runnable;
* in `BrokerListener`, each connection's goroutine: a session has a deadline for each
  phase, and the exchange that ignores the phase's context has the resolver's and the
  forwarder's own timeouts;
* in `ProxyBridge`, each connection's steps **except** what its peers do: a peer may stay
  silent for ever (`PeerStep` is not fair), and a dial has a timeout;
* in `LaunchSession`, the launcher's steps (its control calls have deadlines), the death
  of a killed child (SIGKILL), and the bridge's Close, Leave after a cancellation and
  Return, which is what `ServeReturns` of `ProxyBridge` shows. The broker and a child that
  was not told to stop owe nothing.

## 4. Disagreements found

* `control_recover`: CreateTask accepts a contract whose schema reference is incomplete
  (`core/internal/control/store.go:206`) and ReadRecoveredTask rejects it as corruption
  (`recovery.go:110`): such a task is created and can never be read back. UpdateContract
  does check it. `RecoveryNeverCorrupt` shows that, within the bounds checked, this is the only way.
* `approval_reopen`: an operation on one request, recorded when another pending request is
  past its expiry, writes `observed_at >= expires_at` for a pending record
  (`approvalstate/store.go:313`), which the next Open rejects as corrupt (`:679`).
  The plan of that store has every mutation apply the expiry first. `SnapshotsConsistent`
  shows that it is the only inconsistency a snapshot can have.

* `task_completion`: the standard path of a product Task is three commits (planning,
  candidate, merge), and completion-gate writes the candidate's name into the HANDOVER in the
  merge itself. The CI's scope check (`task/unified-lifecycle.mjs:621`) looks for it in the HANDOVER
  of the merge's first parent, which for the standard path was made before the candidate had
  a name - and check-task (`task/check-task.mjs:481`) accepts no other first parent. So the CI
  refuses each standard completion after it was pushed.

The following were met while modelling. The models contain them, or except them where a
property says so; none has a run of its own.

* Get of a record that is not due, and Snapshot, answer from the file as Open read it
  (`approvalstate/store.go:350`, `:468-473`; `load` does no directory sync). When its writer was
  killed between rename and directory sync, a caller may read "approved" and a power loss
  take that back. `ToldIsDurable` asks for less of what was read so (`shown`).
* completion-gate with `--validate false` (`unified-lifecycle.mjs:488`, the CLI at `:714`,
  `NO_VALIDATE` of the Makefile) makes no check, and the hook trusts the digest that it hands
  over (`work-pre-commit.mjs:91-106`): what it publishes may be rejected by check-task. `PublishedValid`
  claims nothing of a head that such a completion is part of; `DoneShipsCandidate` holds
  also then, from the completion's own look at the candidate.
* planning-gate: after a rebase the Task branch stays at the commit before it
  (`unified-lifecycle.mjs:205`, `:215-221`); a rollback after a rebase leaves the fetched
  changes of others in the working tree.
* planning-gate whose last push landed but lost its answer is rolled back locally although
  it is published.
* completion-gate reads head and snapshot before it takes the lock (`:471-477`).
* evidence-commit's rebase of its retry (`:213-221`) flattens an unpushed completion merge:
  the product's change is replayed, the documents that the merge carried are dropped. If
  post-merge (`:649-666`) had recorded that merge, whose push was refused, the recorded
  commit is then not on main; for a safety-contract Task the checks return before they look
  for a merge (`check-task.mjs:193`), and a later done is published. So `DoneShipsCandidate`
  asks for exactly one merge on main only while none is recorded, and in every case for
  the candidate's change in the published product.
* candidate-commit does not ask whether the planning gate was passed.
* post-merge: the recorded merge of a product Task is always rejected by the checks, which
  leaves the backlog changed; it sets "qa" also for a safety-contract Task that is done. For
  a safety-contract Task with a recorded merge the HANDOVER is no longer checked.
* once another Task's commit has advanced main, a product candidate cannot be
  completed with passing validation; it has to be made again.
* sync deletes the branch after a look at the local main only, before the push.
* task-start takes no lock; its undo resets main, also over a commit that another writer has
  made meanwhile (`:317`, `:313`), and leaves the untracked Task directory although its message says
  otherwise. It puts back the backlog as it read it (`:319`), which may hold another's edit
  that was rolled back since, or lack one that was committed; the next create-task commits that.
* the lock (`lib.mjs:153-163`): two processes that find the same dead owner may both go in, and
  so may one that reads the pid of a live owner which ends before it is asked for (`:158`): it removes
  the lock of whoever came next. A process killed between `mkdir` and `owner.json` leaves a
  lock nobody takes over.
* worktree reads the backlog before it takes the lock (`worktree.mjs:23`, `:33`): it commits
  another's failed allocation, or drops what was committed since. Its rollback removes the
  computed branch, not the one it has made (`:92-93`).
* create-task leaves staged files when it fails after `git add`, wiki-index restores
  nothing; the writers after them refuse until somebody cleans up.
* a launcher's rollback (`reset --hard`, `clean -ffd`) removes the uncommitted documents of a
  Task that was started meanwhile.
* validate-work does not report a Task directory without an entry in the backlog.

## 5. Proofs

Thirty-six theorems, each for every value of the constants that satisfies the assumptions of
its module. Each property is also checked by a run, which is where a false one showed first.

`ControlStoreProofs` proves, for any sets of tasks, agents, handles and payloads and any
bounds that satisfy `ControlConstants`:

* **TypeCorrect**, `Spec => []TypeOK`. The inductive invariant `TypeInv` adds that event
  sequences are contiguous from 1 with at least the two events of the creation, in
  committed rows and in the rows of transactions. It is needed because `NextSequence` is a
  maximum: only for a contiguous log is it a number one above the last, and only then is
  the log with the new event contiguous again (`MaxOfInterval`, `NextOfContiguous`,
  `AppendedRow`). Lemmas follow the code's shape: what one statement does to one
  transaction (`TxMoved`, `Wrote`), what the migration does to a row.
* **OwnershipHolds**, `Spec => []Ownership`. `Ownership` is about committed rows, and a
  transaction commits a row it read earlier; so `OwnerInv` says what is true of rows in
  flight: a transaction that may still commit (it holds the write lock, or has written
  nothing and nobody has committed over its snapshot) works on the owner and state of the
  committed row, altered only as far as its stage has come, and the agent of a task being
  created has no active task. A snapshot that has gone stale never gets the lock. With it every action preserves the index condition and the
  equivalence of "active" and "unfinished".
* **AppendOnlyHolds**, `Spec => AppendOnly`. A commit replaces a committed row by the one its
  transaction has worked on, so nothing about the commit itself says that history only
  grows. `HistoryInv` says it of rows in flight: the history of a transaction that may still
  commit is the committed one, with one event more once it has appended it, and its
  contract and progress columns are the committed ones but for the one it replaces, which has passed
  the checks of version and watermarks against them. `CommitFacts` and `StepAppends` turn
  that into what a step does to the file; `QuietSteps` shows that only the opening of the
  store and a commit touch it.
* **AckedIsDurableHolds**, `Spec => []AckedIsDurable`. `Reports` adds to what callers were
  told what callers of committed transactions are about to be told; `ReportInv` says
  that each of them is in the log and that no two are of the same event, since the next
  event gets a number above everything reported.
* **LogReplaysHolds**, `Spec => []LogReplays`, and **RecoveryNeverCorruptHolds**,
  `Spec => []RecoveryNeverCorrupt`, from `TableInv`. A committed row's history tables hold
  every version up to the current one, each contract but the first with its schema
  (`Versioned`), and its log replays to its columns (`Replays`); both are facts about one row.
  What makes them inductive is `WritesTables`: a transaction that may still commit has made
  of the committed row exactly the statements of the stages it is past, an insert into a history, a
  new current version, an event, so that a row whose commit is reached has all of
  them. Every commit is then one of three changes of a row (`MovedReplays`, `RevisedReplays`,
  `ReportedReplays` and their `…Versions`), each proved once from what happens to a log when
  one event is appended (`AppendedLog`, `OtherEvent`, `NextVersionEvent`). Rows of an older
  file have one version of each and no history, and the migration gives it to them
  (`MigratedReplays`, `ColumnKeepsTables`).
* **StoreImplementsLedger**, `Spec => ImplementsLedger`, with the abstract state computed
  from the file alone: a commit is one of the ledger's four operations (`CommitRefines`), the
  adoption of an older file is its first step (`OpenRefines`), all else is a stutter.

The assumption is `ControlConstants`. SQLite's rules are part of the model and therefore of
what is proved: the theorems say that the code's transactions are right if SQLite keeps them.

`ApprovalStoreProofs` proves **TypeCorrect**, **MemoryIsDiskHolds**,
**SnapshotsConsistentHolds**, **ToldIsDurableHolds** and **OnlyForwardHolds**, for any sets of
processes, requests, digests and actors and any bounds that satisfy `ApprovalConstants`. A
snapshot can be in five places: a process's memory, the snapshot it is writing, the reply it
owes for it, the file as processes see it and the file as it survives a power loss. `Later`
orders snapshots (the same one, or a higher generation, no earlier time and every record kept
or moved along the code's transitions), and every operation is shown once to make a snapshot
later than the one it read (`OperationIsGood`). `StoreInv` then says: one owner of the lock;
an owner that is not poisoned has the file in memory, which is the step where poisoning is
needed; what is in flight is later than what was read, is sound, and holds the facts of the
reply; the file is later than the durable file. With it a rename, a sync, a kill at either and
a power loss between them each leave the told facts in the durable file, and what was read of an
unsynced file in that file, until a power loss undoes the rename. `Reopenable`,
which adds that no request is overdue, is false (section 4).

`ApprovalDecisionProofs` proves **OneShotHolds**, **DecisionsVerifiedHolds**,
**ResultsStandHolds** and **CloseSuppressesHolds**, for any numbers of callers, challenges,
requests and operators and any clock, under `ChallengeConstants` and `DecisionConstants`.
`CallInv` says what is true of the challenge a caller holds across the code's unlocked gaps: a
pending one has not been shown to the verifier, one whose caller is past the verifier is
verified. `Claims` adds to what callers were told what they are about to be told: between the
commit and the return, the record may already be withdrawn or expire. `ClaimInv` ties each
claim to its record and says that no two claims for a request differ in their challenge: a
new claim needs a pending record, and no claim stands on one. What may become of a record
(`RecordMoves`) is shown once to keep every claim standing.

`DrainingServerProofs` proves about `AcceptLoop`, `BrokerListener` and `ProxyBridge`, for
every set of connections, finite or not, and every `MaxConcurrent` that satisfies
`LoopConstants`:

* **ListenerKeepsPromise** and **BridgeKeepsPromise**, `Spec => KeepsPromise`: the two
  servers implement `DrainingServer`. The promise is about the connections being served, the
  code counts tokens in a channel. `SlotInv` ties them together: one token for each
  connection that is not finished and one for the loop while it is about to accept, so the
  set of served connections is never larger than the number of tokens. `CauseInv` says
  why anything ends: a cancelled context, a closed listener or the end of the loop has a
  cancellation or a failed Accept before it, `failure` is only set for the latter, and nobody
  is left at the return. What a step of one connection does to the sets (`Update`,
  `WorksOn`, `HangsUp`, `Releases`, `Accepts`) and what a step of the loop maps to
  (`ServerKeepsPromise`) is proved once for both servers.
* **CutForCauseHolds**, `Spec => []CutForCause`: the bridge closes a socket under a direction
  that still carries data only when the other one has failed or the bridge is cancelled.

`ConnectSessionProofs` proves **AttemptsPaidHolds**, **AttemptsAuthorisedHolds** and
**OverIsOverHolds**, for any connections, handles, subjects and scopes and any number of uses.
`SessionInv` ties the three places that know a handle together: a live lease is the one that was
issued, and nobody was told that it is over; a request names a handle that was drawn, and past
Consume the handle's own subject and scope; a handle that was never drawn has no history, which
is what makes an issue that draws it safe. `UseInv` is the budget: attempts made, exchanges on
their way to one, and uses left. `ConsumeTakesOne` moves a use from the lease to the exchange,
`RoundTripKeeps` from the exchange to the attempts, and everything else only takes away
(`NothingSpent`). OverIsOver is about single steps: the only one from "exchange" to "consumed" is
Consume's, which finds the lease live and the clock below its deadline.

`LaunchSessionProofs` proves **ChildEquippedHolds**, **RevokedLastHolds** and
**CleanReturnHolds**, for any set of connections and any limit. None of the three properties is
inductive: each follows from where `run` is. `SessionInv` says what the launcher has acquired
when it gets to a place, who can have been asked to revoke, that a bridge with a verdict has no
connections, and what a result that is still "ordinary" implies on the way out.

`WorkWritersProofs` proves **OneWriterHolds**, `Spec => []OneWriter`, for any number of
processes and kills that satisfies `WriterConstants`. `LockInv` says what the lock directory
holds while a process is at each place: the pid of every process inside, no owner while one
has just made it (and that one is alone), and, for one about to remove a lock, that the pid
it found is of a process that has ended - so that, if the lock is still the one it found, nobody
is inside. It may not be: then the removal is the damage "lock", which the theorem excepts. A
probe only decides about a pid read earlier (`ProbeKeepsLockInv`).

From the exclusion follow **CommitsOwnHolds**, **WorkKeptHolds**, **FailureLeavesNothingHolds** and
**SettledHolds**, but not from it alone: task-start writes the same worktree without the lock, and a
commit takes what was staged several steps earlier. `WriterInv` says how far the worktree and the
index of a writer may be from the tree on which it began (`Writes`): its own edits, outside its scope
an unchanged index, and in the backlog what it found there or an entry of a task-start. Such an
entry cannot be committed, since what task-start scaffolds is never staged (`NothingStaged`) and the
hook validates the backlog against the staged Tasks. Of a task-start's undo nothing is known
from where it began, since others commit, edit and roll back between any two of its steps; but one
that is not a damage resets main to where it is (`ResetKeepsWrites`) or puts back main's own
backlog, which is within what the writer may find there. The three theorems about commits
except all three damages (`Intact`): after "lock" two write at once, "reset" takes a commit
away, and "backlog" gives the next writer an edit that is not main's. `HeadMoves` then
reduces all steps to the three that move main: an agent's own commit, a script's commit, a
launcher's reset. `Private` says at which places a process's edit can be on main (for
FailureLeavesNothing), and `SettleInv` who is answerable for a dirty repository or a lock.

`TaskLifecycleProofs` proves about TaskRules and TaskLifecycle, for any bounds and any set of
product changes that satisfy `BoundsAssumption` and `ProductAssumption`:

* **LifecycleInvHolds**. `GraphOk` says what Git keeps of ancestry through commits, merges and
  rebases, and that no commit takes a product change of its ancestors back; `Extends` that a
  step only adds commits, so that what was true of an old one stays true. Rebase and the
  first-parent line are recursive functions, and induction over data is out of reach: instead,
  the least step of the recursion that does not keep what is claimed is looked at (`Least`,
  from the finite sets' well-founded order), and it does keep it since the one before it did.
  `OpInv` says what a script that waits for a push holds: the head it goes back to, which has
  what was told, and the documents it began with.
* **ToldIsPublishedHolds** is part of it: a rollback goes back to a head that had what was
  told, and a rebase is onto a remote that has it.
* **DevWorkKeptHolds**: the product of a head only grows (`GraphOk`), a candidate commit takes
  the worktree's change into the branch, and sync deletes a branch that main descends from.
* **FailureHeadsHolds**: of `FailureRestores`, all that is about heads and about the completion.
* **PublishedValidHolds**. `ValidInv` says that the remote's head passes check-task in a clone
  without the Task's branch, unless a completion made without the check is among its ancestors
  (`SoundAt`), and so does the local one while an evidence commit or a merge waits to be pushed.
  With or without the check, a done that records no merge has exactly one merge of its
  candidate (`BoundAt`), because completion looks at the candidate itself. The check was made in another view, of the local clone, with the branch, or with the
  merge in progress; `Alike` and the lemmas on carrying a verdict over (`Carries`,
  `MergeCarries`, `TopCarries`) say which differences of views and trees do not matter, among
  them a commit of another Task on top, and a merge at the remote of a branch with product
  changes only.
* **DoneShipsCandidateHolds**. The checks look at the documents; that these speak of a commit
  that main has needs `ShipInv`: every merge brings one product commit and nothing of its own
  (`ShipsAt`), a tree that records a merge has its product (`Records`), and the Task branch
  ends in a commit that main has or in one that no completion mistakes for a candidate
  (`BranchIs`). `RebaseShips` shows that a rebase keeps this and loses no product, not even
  that of a merge it flattens; `OneCandidateShips` that the completion's own look at
  the candidate gives the merge what `ShipsAt` asks for, so it needs no validation.

TLC evaluates all of these assumptions in the runs of their modules.

Only model-checked: `DocumentsKept` of `FailureRestores` (a planning gate that gives up has
kept its documents), which rests on the check of its rebased tree never failing.
Out of the prover's reach, and so left to TLC: the liveness properties (ServeReturns,
AcceptsAgain, FailureEnds, SessionReturns, BridgeLossStops).

## 6. Abstractions

Identifiers, payloads, digests, scopes and subjects are model values: the properties only
compare them. Wire formats, TLS, JSON, file modes and log texts are left out. Random
handles and challenges are values that are never drawn twice, except that a handle may
collide with a live one, which the code handles. Times are small integers on the clocks
the code reads, which may be set back where the code reads the wall clock. Control flow is
not abstracted: an error path that changes state or leaves something behind is an action.

What the models of the Task scripts assume beyond that:

* TaskLifecycle: a pull request is merged at the remote only when the documents below it are
  there, which they are unless the planning gate was run without a push; agents do not edit the clone while a script runs; a task-start that fails
  restores everything (WorkWriters has the cases in which it cannot); other clones push only
  what their own checks accept, and only their pushes that this Task can notice are steps;
  completions of the old layout and blocked Tasks are left out.
  The hook's own validator is not part of `CheckTask`: a completion with `--validate false` is one
  that nothing checks.
* WorkWriters: a process makes one edit in its own Task's directory; the agent below a
  launcher is one that may write that directory only (the scopes of main transitions and
  governance are left out); no child survives its launcher and no pid is used again; these
  scripts never push. A Task is new to its create-task; the code's rollback would also remove a
  directory of that name that was there before. Of the hook, its Wiki actions, its digest and the immutability of
  Decisions are left out. `worktree` is excepted from CommitsOwn and WorkKept.

## 7. Plan

Done: ControlStore with TaskLedger; ApprovalStore; ApprovalChallenge and ApprovalDecision;
CapabilityRegistry and ConnectSession; AcceptLoop with BrokerListener and ProxyBridge under
DrainingServer; LaunchSession; TaskRules and TaskLifecycle; WorkWriters; and the proofs of
section 5.

Next, of the theorems: `DocumentsKept`, the part of `FailureRestores` that is not proved. It
needs that a planning commit on top of a valid head stays valid when it is rebased.

Next, modules, which are small beside those above: **RunGroup** (`core/internal/plane`:
services, the first error, cancellation, wait); **ServiceStart** (`harness/egressservice`,
`harness/socketactivation`: the one-shot take of the activation and the undoing of a failed
start); pure operators for the egress policy's classification, the envelope's validation in
its three languages and the approval manifest's rules, each against a reference definition.
