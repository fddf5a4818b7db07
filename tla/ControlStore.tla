--------------------------- MODULE ControlStore ---------------------------
(***************************************************************************)
(* The durable Task store of the Control Plane                             *)
(* (core/internal/control/{store,lifecycle,versioned,recovery}.go).        *)
(*                                                                         *)
(* Several Store values ("handles", one connection each because of         *)
(* SetMaxOpenConns(1)) have the same SQLite file open.  Every operation is *)
(* one deferred transaction: it reads a snapshot, checks the caller's      *)
(* expected state or version against it, writes in several statements and  *)
(* commits.  Between any two statements another handle may commit, the     *)
(* context may be cancelled, a statement may fail, or the process may die. *)
(*                                                                         *)
(* Abstracted: identifiers are model values; a contract or progress        *)
(* payload is a member of Payloads; of a schema reference only whether     *)
(* schemaPresent accepts it is kept.  An early return (not found, conflict *)
(* with the expected value, disallowed transition, invalid payload) rolls  *)
(* back and changes nothing, so it is a disabled write here; the           *)
(* transaction that met it is ended by Rollback.                           *)
(***************************************************************************)
EXTENDS Integers, FiniteSets, FiniteSetsExt, Functions

CONSTANTS
    Tasks,      \* task IDs callers use
    Agents,     \* owner agent IDs
    Handles,    \* Store values open on the same database file
    Payloads,   \* contract and progress contents
    NoHandle,   \* nobody holds SQLite's write lock
    MaxEvents,  \* bound: events per task
    MaxRun      \* bound: agent-run watermark a caller may report

ASSUME ControlConstants ==
    /\ MaxEvents \in Nat /\ MaxEvents >= 3
    /\ MaxRun \in Nat
    /\ NoHandle \notin Handles

States == {"ready", "running", "waiting", "suspended",
           "reviewing_completion", "completed", "cancelled"}

Terminal == {"completed", "cancelled"}

\* allowedTransitions: the event a transition appends.
EventOf ==
    [ready     |-> [running |-> "TaskStarted", cancelled |-> "TaskCancelled"],
     running   |-> [waiting |-> "TaskWaiting", suspended |-> "TaskSuspended",
                    reviewing_completion |-> "TaskReviewingCompletion",
                    cancelled |-> "TaskCancelled"],
     waiting   |-> [running |-> "TaskResumed", cancelled |-> "TaskCancelled"],
     suspended |-> [running |-> "TaskResumed", cancelled |-> "TaskCancelled"],
     reviewing_completion |->
                   [running |-> "TaskResumed", completed |-> "TaskCompleted",
                    cancelled |-> "TaskCancelled"]]

Allowed(from, to) == from \in DOMAIN EventOf /\ to \in DOMAIN EventOf[from]

LifecycleEvents == {"TaskStarted", "TaskWaiting", "TaskSuspended", "TaskResumed",
                    "TaskReviewingCompletion", "TaskCompleted", "TaskCancelled"}

Event == [type: LifecycleEvents \cup {"TaskCreated", "OwnerAssigned",
                                      "ContractChanged", "ProgressRefreshed"},
          version: Nat]

\* schema: does the schema reference satisfy schemaPresent?
Contract == [version: Nat, schema: BOOLEAN, payload: Payloads]

Progress == [version: Nat, payload: Payloads, task: Nat, run: Nat]

-----------------------------------------------------------------------------
(* A table is a function from its primary key.  The tables keyed by         *)
(* (task_id, n) are gathered per task: contracts is task_contract_history,  *)
(* progresses task_progress_history, events task_events; the other fields   *)
(* are the task's rows in tasks, task_owners (active: released_at IS NULL), *)
(* task_contracts and task_progress.                                        *)

IsTable(table, V) == table \in [DOMAIN table -> V] /\ DOMAIN table \subseteq Nat

IsRow(r) ==
    /\ r \in [state: States, owner: Agents, active: BOOLEAN,
              contract: Contract, contracts: {r.contracts},
              progress: Progress, progresses: {r.progresses},
              events: {r.events}]
    /\ IsTable(r.contracts, Contract)
    /\ IsTable(r.progresses, Progress)
    /\ IsTable(r.events, Event)

Insert(table, key, value) ==
    [k \in DOMAIN table \cup {key} |-> IF k = key THEN value ELSE table[k]]

EmptyTable == [k \in {} |-> k]

Only(key, value) == [k \in {key} |-> value]

\* SELECT COALESCE(MAX(sequence), 0) + 1
NextSequence(events) == IF DOMAIN events = {} THEN 1 ELSE Max(DOMAIN events) + 1

-----------------------------------------------------------------------------
VARIABLES
    schema,  \* schema_version row: 0 (no row yet), 1, 2 or 3
    db,      \* the committed rows, by task
    open,    \* handles whose OpenStore succeeded
    writer,  \* the handle holding SQLite's write lock
    tx,      \* each handle's transaction
    acked    \* what callers have been told succeeded

vars == <<schema, db, open, writer, tx, acked>>

Idle == [op |-> "idle"]

VersionStages == {"read", "history", "current", "event", "done"}

\* fresh: no other handle has committed since this transaction's snapshot.
TxOf(op, stages, args, x) ==
    /\ x \in [op: {op}, task: Tasks, row: {x.row}, fresh: BOOLEAN, stage: stages, arg: args]
    /\ IsRow(x.row)

IsTx(x) ==
    \/ x = Idle
    \/ TxOf("create", {"event", "done"}, Agents, x)
    \/ TxOf("transition", {"read", "state", "event", "owner", "done"},
            [expected: States, target: States], x)
    \/ TxOf("contract", VersionStages, Contract, x)
    \/ TxOf("progress", VersionStages, Progress, x)

Ack == [handle: Handles, task: Tasks, sequence: Nat, event: Event]

-----------------------------------------------------------------------------
(* Rows as CreateTask inserts them, and as earlier schema versions left     *)
(* them: without history tables, a version 2 row possibly after a           *)
(* transition.                                                              *)

CreatedEvents ==
    [n \in {1, 2} |-> [type |-> IF n = 1 THEN "TaskCreated" ELSE "OwnerAssigned",
                       version |-> 0]]

NewRow(agent, contract, progress) ==
    [state |-> "ready", owner |-> agent, active |-> TRUE,
     contract |-> contract, contracts |-> Only(1, contract),
     progress |-> progress, progresses |-> Only(0, progress),
     events |-> CreatedEvents]

FirstContract(ok, payload) == [version |-> 1, schema |-> ok, payload |-> payload]

\* Mutant: versions start one too low.
FirstProgressEarly(payload) == [version |-> -1, payload |-> payload, task |-> 0, run |-> 0]

FirstProgress(payload) == [version |-> 0, payload |-> payload, task |-> 0, run |-> 0]

LegacyRow(agent, ok, payload, state) ==
    [NewRow(agent, FirstContract(ok, payload), FirstProgress(payload)) EXCEPT
        !.state = state,
        !.active = state \notin Terminal,
        !.contracts = EmptyTable,
        !.progresses = EmptyTable,
        !.events = IF state = "ready" THEN @
                   ELSE Insert(@, 3, [type |-> EventOf["ready"][state], version |-> 0])]

LegacyStates(version) == IF version = 1 THEN {"ready"} ELSE {"ready", "running", "cancelled"}

LegacyRows(version) ==
    {LegacyRow(a, ok, p, s) :
        a \in Agents, ok \in BOOLEAN, p \in Payloads, s \in LegacyStates(version)}

\* UNIQUE INDEX one_active_task_per_agent
OneActivePerAgent(d) ==
    \A t, u \in DOMAIN d :
        d[t].active /\ d[u].active /\ d[t].owner = d[u].owner => t = u

Init ==
    /\ \/ schema \in {0, 3} /\ db = EmptyTable
       \/ schema = 1 /\ \E T \in SUBSET Tasks : db \in [T -> LegacyRows(1)]
       \/ /\ schema = 2
          /\ \E T \in SUBSET Tasks : db \in [T -> LegacyRows(2)]
          /\ OneActivePerAgent(db)
    /\ open = {}
    /\ writer = NoHandle
    /\ tx = [h \in Handles |-> Idle]
    /\ acked = {}

-----------------------------------------------------------------------------
(* Opening and closing.  migrate is one transaction; when it fails (two     *)
(* active tasks of one agent in a version 1 file) it is rolled back and     *)
(* OpenStore returns an error.  On a version 3 file it only reads.          *)

\* Mutant: the backfill forgets task_progress_history.
MigrateContractOnly(row) ==
    [row EXCEPT !.contracts = Only(row.contract.version, row.contract)]

MigrateRow(row) ==
    [row EXCEPT !.contracts = Only(row.contract.version, row.contract),
                !.progresses = Only(row.progress.version, row.progress)]

\* Mutant: the backfill runs on every open.
MigratedAlways == [t \in DOMAIN db |-> MigrateRow(db[t])]

Migrated ==
    [t \in DOMAIN db |-> IF schema \in {1, 2} THEN MigrateRow(db[t]) ELSE db[t]]

OpenStore(h) ==
    /\ h \notin open
    /\ OneActivePerAgent(db)
    /\ schema' = 3
    /\ db' = Migrated
    /\ open' = open \cup {h}
    /\ UNCHANGED <<writer, tx, acked>>

Close(h) ==
    /\ h \in open
    /\ tx[h].op = "idle"
    /\ open' = open \ {h}
    /\ UNCHANGED <<schema, db, writer, tx, acked>>

-----------------------------------------------------------------------------
(* SQLite (external): the first write of a deferred transaction needs the   *)
(* write lock and a snapshot nobody has committed over; otherwise the       *)
(* statement fails with BUSY, which classifyCreateError turns into a        *)
(* ConflictError.                                                           *)

FirstWrite(h) == writer = NoHandle /\ tx[h].fresh /\ writer' = h

Ready(h) == h \in open /\ tx[h].op = "idle"

Begin(h, op, task, arg) ==
    /\ Ready(h)
    /\ task \in DOMAIN db
    /\ tx' = [tx EXCEPT ![h] = [op |-> op, task |-> task, row |-> db[task],
                                fresh |-> TRUE, stage |-> "read", arg |-> arg]]
    /\ UNCHANGED <<schema, db, open, writer, acked>>

At(h, op, stage) == tx[h].op = op /\ tx[h].stage = stage

\* A statement of h's transaction: the new row contents and the next stage.
Write(h, row, stage) ==
    /\ tx' = [tx EXCEPT ![h] = [@ EXCEPT !.row = row, !.stage = stage]]
    /\ UNCHANGED <<schema, db, open, acked>>

AppendEvent(row, type, version) ==
    [row EXCEPT !.events = Insert(@, NextSequence(@), [type |-> type, version |-> version])]

Room(row) == NextSequence(row.events) <= MaxEvents

-----------------------------------------------------------------------------
(* CreateTask.  Its first statement is an INSERT, so it holds the write     *)
(* lock from the start; the primary key and the partial unique index reject *)
(* a duplicate task and a second active task of the agent.  The contract is *)
(* stored as given: nothing validates its schema reference.                 *)

\* Mutant: without the partial unique index.
CreateTaskUnindexed(h, task, agent, contract, progress) ==
    /\ Ready(h)
    /\ writer = NoHandle
    /\ task \notin DOMAIN db
    /\ writer' = h
    /\ tx' = [tx EXCEPT ![h] = [op |-> "create", task |-> task,
                                row |-> NewRow(agent, contract, progress),
                                fresh |-> TRUE, stage |-> "event", arg |-> agent]]
    /\ UNCHANGED <<schema, db, open, acked>>

CreateTask(h, task, agent, contract, progress) ==
    /\ Ready(h)
    /\ writer = NoHandle
    /\ task \notin DOMAIN db
    /\ \A t \in DOMAIN db : db[t].owner = agent => ~db[t].active
    /\ writer' = h
    /\ tx' = [tx EXCEPT ![h] = [op |-> "create", task |-> task,
                                row |-> NewRow(agent, contract, progress),
                                fresh |-> TRUE, stage |-> "event", arg |-> agent]]
    /\ UNCHANGED <<schema, db, open, acked>>

-----------------------------------------------------------------------------
(* TransitionTask: read and check, update the state, append the event,      *)
(* release the owner of a finished task, commit.                            *)

BeginTransition(h, task, expected, target) ==
    /\ Begin(h, "transition", task, [expected |-> expected, target |-> target])
    /\ db[task].state = expected
    /\ Allowed(expected, target)
    /\ Room(db[task])

UpdateState(h) ==
    /\ At(h, "transition", "read")
    /\ FirstWrite(h)
    /\ Write(h, [tx[h].row EXCEPT !.state = tx[h].arg.target], "state")

AppendTransitionEvent(h) ==
    /\ At(h, "transition", "state")
    /\ Write(h, AppendEvent(tx[h].row, EventOf[tx[h].arg.expected][tx[h].arg.target], 0), "event")
    /\ UNCHANGED writer

ReleaseOwner(h) ==
    /\ At(h, "transition", "event")
    /\ tx[h].arg.target \in Terminal
    /\ tx[h].row.active
    /\ Write(h, [tx[h].row EXCEPT !.active = FALSE], "owner")
    /\ UNCHANGED writer

-----------------------------------------------------------------------------
(* UpdateContract and UpdateProgress: check the expected version (and the   *)
(* watermarks), append the history row, replace the current row, append the *)
(* event, commit.  The task's state is not looked at.                       *)

BeginContract(h, task, expected, contract) ==
    /\ Begin(h, "contract", task, contract)
    /\ contract.version = expected + 1
    /\ contract.schema
    /\ db[task].contract.version = expected
    /\ Room(db[task])

AppendContractHistory(h) ==
    /\ At(h, "contract", "read")
    /\ tx[h].arg.version \notin DOMAIN tx[h].row.contracts
    /\ FirstWrite(h)
    /\ Write(h, [tx[h].row EXCEPT !.contracts = Insert(@, tx[h].arg.version, tx[h].arg)],
             "history")

ReplaceContract(h) ==
    /\ At(h, "contract", "history")
    /\ Write(h, [tx[h].row EXCEPT !.contract = tx[h].arg], "current")
    /\ UNCHANGED writer

BeginProgress(h, task, expected, progress) ==
    /\ Begin(h, "progress", task, progress)
    /\ progress.version = expected + 1
    /\ db[task].progress.version = expected
    /\ progress.task >= db[task].progress.task
    /\ progress.run >= db[task].progress.run
    /\ progress.task <= NextSequence(db[task].events) - 1
    /\ Room(db[task])

AppendProgressHistory(h) ==
    /\ At(h, "progress", "read")
    /\ tx[h].arg.version \notin DOMAIN tx[h].row.progresses
    /\ FirstWrite(h)
    /\ Write(h, [tx[h].row EXCEPT !.progresses = Insert(@, tx[h].arg.version, tx[h].arg)],
             "history")

ReplaceProgress(h) ==
    /\ At(h, "progress", "history")
    /\ Write(h, [tx[h].row EXCEPT !.progress = tx[h].arg], "current")
    /\ UNCHANGED writer

\* Mutant: the event records the version that was replaced.
AppendExpectedEvent(h, op, type) ==
    /\ At(h, op, "current")
    /\ Write(h, AppendEvent(tx[h].row, type, tx[h].arg.version - 1), "event")
    /\ UNCHANGED writer

AppendVersionEvent(h, op, type) ==
    /\ At(h, op, "current")
    /\ Write(h, AppendEvent(tx[h].row, type, tx[h].arg.version), "event")
    /\ UNCHANGED writer

-----------------------------------------------------------------------------
(* The end of a transaction.  A commit makes every other open snapshot      *)
(* stale.  The caller learns of it only in Return: a crash in between       *)
(* leaves a committed operation nobody was told about.                      *)

\* Mutant: a finished task's owner is not released.
WrittenUnreleased(h) ==
    /\ tx[h].op \in {"create", "transition", "contract", "progress"}
    /\ tx[h].stage = "event"

Written(h) ==
    \/ tx[h].op \in {"create", "contract", "progress"} /\ tx[h].stage = "event"
    \/ At(h, "transition", "event") /\ tx[h].arg.target \notin Terminal
    \/ At(h, "transition", "owner")

Commit(h) ==
    /\ tx[h].op # "idle"
    /\ Written(h)
    /\ db' = Insert(db, tx[h].task, tx[h].row)
    /\ writer' = NoHandle
    /\ tx' = [g \in Handles |->
                IF g = h THEN [tx[h] EXCEPT !.stage = "done"]
                ELSE IF tx[g].op = "idle" THEN Idle ELSE [tx[g] EXCEPT !.fresh = FALSE]]
    /\ UNCHANGED <<schema, open, acked>>

\* Mutant: the error of tx.Commit is ignored.
ReturnUncommitted(h) ==
    /\ tx[h].op # "idle"
    /\ tx[h].stage = "done" \/ Written(h)
    /\ LET last == NextSequence(tx[h].row.events) - 1
       IN acked' = acked \cup {[handle |-> h, task |-> tx[h].task, sequence |-> last,
                                event |-> tx[h].row.events[last]]}
    /\ tx' = [tx EXCEPT ![h] = Idle]
    /\ UNCHANGED <<schema, db, open, writer>>

Return(h) ==
    /\ tx[h].op # "idle"
    /\ tx[h].stage = "done"
    /\ LET last == NextSequence(tx[h].row.events) - 1
       IN acked' = acked \cup {[handle |-> h, task |-> tx[h].task, sequence |-> last,
                                event |-> tx[h].row.events[last]]}
    /\ tx' = [tx EXCEPT ![h] = Idle]
    /\ UNCHANGED <<schema, db, open, writer>>

Unlock(h) == writer' = IF writer = h THEN NoHandle ELSE writer

\* A statement, a hook, the context or the commit fails: deferred tx.Rollback.
Rollback(h) ==
    /\ tx[h].op # "idle"
    /\ tx[h].stage # "done"
    /\ tx' = [tx EXCEPT ![h] = Idle]
    /\ Unlock(h)
    /\ UNCHANGED <<schema, db, open, acked>>

\* The process dies; SQLite discards its open transaction.
Crash(h) ==
    /\ h \in open
    /\ open' = open \ {h}
    /\ tx' = [tx EXCEPT ![h] = Idle]
    /\ Unlock(h)
    /\ UNCHANGED <<schema, db, acked>>

-----------------------------------------------------------------------------
Versions == 0..MaxEvents

Create(h) ==
    \E t \in Tasks, a \in Agents, ok \in BOOLEAN, p \in Payloads :
        CreateTask(h, t, a, FirstContract(ok, p), FirstProgress(p))

Transition(h) ==
    \/ \E t \in Tasks, s, g \in States : BeginTransition(h, t, s, g)
    \/ UpdateState(h)
    \/ AppendTransitionEvent(h)
    \/ ReleaseOwner(h)

UpdateContract(h) ==
    \/ \E t \in Tasks, v \in Versions, p \in Payloads :
          BeginContract(h, t, v, [version |-> v + 1, schema |-> TRUE, payload |-> p])
    \/ AppendContractHistory(h)
    \/ ReplaceContract(h)
    \/ AppendVersionEvent(h, "contract", "ContractChanged")

UpdateProgress(h) ==
    \/ \E t \in Tasks, v, m \in Versions, r \in 0..MaxRun, p \in Payloads :
          BeginProgress(h, t, v, [version |-> v + 1, payload |-> p, task |-> m, run |-> r])
    \/ AppendProgressHistory(h)
    \/ ReplaceProgress(h)
    \/ AppendVersionEvent(h, "progress", "ProgressRefreshed")

Next ==
    \E h \in Handles :
        \/ OpenStore(h) \/ Close(h) \/ Crash(h)
        \/ Create(h) \/ Transition(h) \/ UpdateContract(h) \/ UpdateProgress(h)
        \/ Commit(h) \/ Return(h) \/ Rollback(h)

Spec == Init /\ [][Next]_vars

-----------------------------------------------------------------------------
(* What the store promises, of the committed database.                     *)

TypeOK ==
    /\ schema \in 0..3
    /\ db = [t \in DOMAIN db |-> db[t]] /\ DOMAIN db \subseteq Tasks
    /\ \A t \in DOMAIN db : IsRow(db[t])
    /\ open \subseteq Handles
    /\ writer \in Handles \cup {NoHandle}
    /\ tx = [h \in Handles |-> tx[h]]
    /\ \A h \in Handles : IsTx(tx[h])
    /\ acked \subseteq Ack

\* No agent owns two unfinished tasks, and a task keeps its owner exactly as
\* long as it is unfinished, whatever handles race and wherever they die
\* (one_active_task_per_agent, TransitionTask's release).
Ownership ==
    schema = 3 =>
        /\ OneActivePerAgent(db)
        /\ \A t \in DOMAIN db : db[t].active <=> db[t].state \notin Terminal

\* validateRecoveredTask.
Recoverable(row) ==
    LET contracts == Cardinality(DOMAIN row.contracts)
        progresses == Cardinality(DOMAIN row.progresses)
    IN  /\ DOMAIN row.contracts = 1..contracts
        /\ DOMAIN row.progresses = 0..(progresses - 1)
        /\ \A v \in DOMAIN row.contracts :
              row.contracts[v].version = v /\ row.contracts[v].schema
        /\ \A v \in DOMAIN row.progresses : row.progresses[v].version = v
        /\ contracts > 0 /\ row.contract = row.contracts[contracts]
        /\ progresses > 0 /\ row.progress = row.progresses[progresses - 1]
        /\ DOMAIN row.events = 1..Cardinality(DOMAIN row.events)

\* A task created with a complete schema reference can always be read back by
\* ReadRecoveredTask: no crash, race or migration leaves it corrupt.
RecoveryNeverCorrupt ==
    schema = 3 => \A t \in DOMAIN db : db[t].contracts[1].schema => Recoverable(db[t])

\* The claim of the task that introduced recovery: after a reopen every task
\* reads back as before.  CreateTask does not check the schema reference that
\* ReadRecoveredTask insists on.
EveryTaskRecoverable ==
    schema = 3 => \A t \in DOMAIN db : Recoverable(db[t])

\* The state a lifecycle event announces.
StateAfter(type) ==
    CASE type \in {"TaskStarted", "TaskResumed"} -> "running"
      [] type = "TaskWaiting" -> "waiting"
      [] type = "TaskSuspended" -> "suspended"
      [] type = "TaskReviewingCompletion" -> "reviewing_completion"
      [] type = "TaskCompleted" -> "completed"
      [] type = "TaskCancelled" -> "cancelled"

LifecycleSequences(row) == {n \in DOMAIN row.events : row.events[n].type \in LifecycleEvents}

\* Each version in first + 1..current has exactly one event, in version order.
VersionLog(row, type, first, current) ==
    LET of == {n \in DOMAIN row.events : row.events[n].type = type}
    IN  /\ \A v \in (first + 1)..current : \E n \in of : row.events[n].version = v
        /\ \A n \in of : row.events[n].version \in (first + 1)..current
        /\ \A n, m \in of : n < m => row.events[n].version < row.events[m].version

\* A progress report covers only events that preceded its own, and a later
\* report never covers less (requireProgressPosition, checked against a
\* snapshot that may be stale by the time the report is written).
WatermarksBehindLog ==
    \A t \in DOMAIN db :
        LET p == db[t].progresses
        IN  /\ \A n \in DOMAIN db[t].events :
                  db[t].events[n].type = "ProgressRefreshed" => p[db[t].events[n].version].task < n
            /\ \A v, w \in DOMAIN p : v < w => p[v].task <= p[w].task /\ p[v].run <= p[w].run

\* The event log replays to the stored state: the last lifecycle event announces
\* it, each contract or progress version has exactly one event, in version
\* order, and no report covers its own event or less than an earlier one (one
\* event per commit, TransitionTask and appendVersionEvent).
LogReplays ==
    /\ WatermarksBehindLog
    /\ \A t \in DOMAIN db :
          /\ IF LifecycleSequences(db[t]) = {} THEN db[t].state = "ready"
             ELSE \E n \in LifecycleSequences(db[t]) :
                      /\ StateAfter(db[t].events[n].type) = db[t].state
                      /\ \A m \in LifecycleSequences(db[t]) : m <= n
          /\ VersionLog(db[t], "ContractChanged", 1, db[t].contract.version)
          /\ VersionLog(db[t], "ProgressRefreshed", 0, db[t].progress.version)

\* What a caller was told succeeded is in the committed log, and no two callers
\* were told they wrote the same event: of two racing updates from the same
\* expected version one at most is reported as successful.
AckedIsDurable ==
    /\ \A a \in acked : /\ a.task \in DOMAIN db
                         /\ a.sequence \in DOMAIN db[a.task].events
                         /\ db[a.task].events[a.sequence] = a.event
    /\ \A a, b \in acked : a.task = b.task /\ a.sequence = b.sequence => a = b

\* Committed history is never rewritten: rows stay, history and events only
\* grow, a finished task stays finished and its owner released.
AppendOnlyStep ==
    \A t \in DOMAIN db :
        /\ t \in DOMAIN db'
        /\ IsRestriction(db[t].contracts, db'[t].contracts)
        /\ IsRestriction(db[t].progresses, db'[t].progresses)
        /\ IsRestriction(db[t].events, db'[t].events)
        /\ db'[t].owner = db[t].owner
        /\ db[t].state \in Terminal => db'[t].state = db[t].state /\ ~db'[t].active

AppendOnly == [][AppendOnlyStep]_vars

-----------------------------------------------------------------------------
(* The store implements the ledger in which every operation is one step.   *)

LedgerRow(row) ==
    [state |-> row.state, owner |-> row.owner, contract |-> row.contract.version,
     progress |-> row.progress.version, task |-> row.progress.task, run |-> row.progress.run,
     length |-> NextSequence(row.events) - 1]

Ledger == INSTANCE TaskLedger WITH
    adopted <- schema = 3,
    ledger <- [t \in (IF schema = 3 THEN DOMAIN db ELSE {}) |-> LedgerRow(db[t])]

\* Racing, failing and crashing transactions are invisible: the committed
\* database changes by whole operations only (TaskLedger's Spec).
ImplementsLedger == Ledger!Spec
=============================================================================
