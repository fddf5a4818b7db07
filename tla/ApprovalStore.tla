--------------------------- MODULE ApprovalStore ---------------------------
(***************************************************************************)
(* The durable store of push-approval requests                             *)
(* (tools/dev-agent-harness/internal/approvalstate).                       *)
(*                                                                         *)
(* A process that holds the directory's lock keeps every record in memory  *)
(* and replaces one snapshot file per change: temporary file, write, file  *)
(* sync, rename, directory sync, and only then the memory.  Each of those  *)
(* steps can fail, the process can be killed between any two of them, the  *)
(* machine can lose power, and the wall clock can be set back.             *)
(*                                                                         *)
(* A process's mutex covers a whole operation, so a process has one        *)
(* operation in flight.  Write, file sync and close of the temporary file  *)
(* fail alike and are one step.  The checks of file types, modes and       *)
(* owners, the manifest grammar and the JSON form are left out.            *)
(***************************************************************************)
EXTENDS Integers, FiniteSets

CONSTANTS
    Processes,      \* processes that may open the directory
    Requests,       \* request IDs
    Digests,        \* manifest digests
    Actors,         \* verified deciders
    NoActor,        \* the empty actor_id
    MaxTime,        \* bound: the clock, in seconds
    MaxTTL,         \* Rules.MaxTTL
    MaxRecords,     \* Rules.MaxRecords
    MaxGeneration   \* the largest generation number

ASSUME ApprovalConstants ==
    /\ MaxTime \in Nat /\ MaxTTL \in Nat \ {0}
    /\ MaxRecords \in Nat \ {0} /\ MaxGeneration \in Nat
    /\ NoActor \notin Actors

Times == 0..MaxTime

\* The zero decidedAt.
Undecided == -1

States == {"pending", "approved", "denied", "cancelled", "expired", "stale"}

Active(state) == state \in {"pending", "approved"}

Record == [digest: Digests, created: Times, expires: 0..(MaxTime + MaxTTL),
           state: States, decided: Times \cup {Undecided}, actor: Actors \cup {NoActor}]

IsSnapshot(s) ==
    /\ s \in [generation: 0..MaxGeneration, observed: Times, records: {s.records}]
    /\ DOMAIN s.records \subseteq Requests
    /\ s.records \in [DOMAIN s.records -> Record]

\* What a store starts from when there is no state file.
Blank == [generation |-> 0, observed |-> 0, records |-> [id \in {} |-> id]]

VARIABLES
    clock,     \* the wall clock
    disk,      \* the state file as a process sees it
    durable,   \* the state file as it survives a power loss
    temp,      \* does the temporary file exist?
    phase,     \* how far each process is
    memory,    \* the snapshot a process answers from
    last,      \* lastNow
    poisoned,
    next,      \* the snapshot a process is writing
    reply,     \* what the operation in flight will tell its caller
    told,      \* what callers have been told by a change, or by a read of a synced file
    shown      \* what callers have read from a file whose rename was not synced

files == <<disk, durable, temp>>
answers == <<told, shown>>
vars == <<clock, files, phase, memory, last, poisoned, next, reply, answers>>

Fact == [id: Requests, digest: Digests, state: States, actor: Actors \cup {NoActor}]

FactOf(records, id) ==
    [id |-> id, digest |-> records[id].digest, state |-> records[id].state,
     actor |-> records[id].actor]

FactsAbout(records, ids) == {FactOf(records, id) : id \in ids}

Init ==
    /\ clock \in Times
    /\ disk = Blank /\ durable = Blank
    /\ temp = FALSE
    /\ phase = [p \in Processes |-> "out"]
    /\ memory = [p \in Processes |-> Blank]
    /\ last = [p \in Processes |-> 0]
    /\ poisoned = [p \in Processes |-> FALSE]
    /\ next = [p \in Processes |-> Blank]
    /\ reply = [p \in Processes |-> {}]
    /\ told = {} /\ shown = {}

-----------------------------------------------------------------------------
(* Opening.  The temporary file is looked for before the lock is taken.     *)

\* validateWireState
ValidRecord(r, observed) ==
    /\ observed >= r.created
    /\ r.expires - r.created <= MaxTTL
    /\ IF r.state = "pending"
       THEN r.decided = Undecided /\ r.actor = NoActor /\ observed < r.expires
       ELSE /\ r.decided \in r.created..observed
            /\ r.state \in {"approved", "denied", "stale"} => r.actor # NoActor
            /\ r.state = "cancelled" => r.actor = NoActor
            /\ r.state = "expired" <=> r.decided >= r.expires

\* decodeSnapshot; a missing file is accepted.
Loadable(s) ==
    \/ s = Blank
    \/ /\ s.generation > 0
       /\ Cardinality(DOMAIN s.records) <= MaxRecords
       /\ \A id \in DOMAIN s.records : ValidRecord(s.records[id], s.observed)

Owns(p) == phase[p] \notin {"out", "checked"}

CheckTemp(p) ==
    /\ phase[p] = "out"
    /\ ~temp
    /\ phase' = [phase EXCEPT ![p] = "checked"]
    /\ UNCHANGED <<clock, files, memory, last, poisoned, next, reply, answers>>

\* Mutant: the observed time is not taken over from the snapshot.
LockAndLoadTimeless(p) ==
    /\ phase[p] = "checked"
    /\ \A q \in Processes : ~Owns(q)
    /\ Loadable(disk)
    /\ phase' = [phase EXCEPT ![p] = "idle"]
    /\ memory' = [memory EXCEPT ![p] = disk]
    /\ last' = [last EXCEPT ![p] = 0]
    /\ poisoned' = [poisoned EXCEPT ![p] = FALSE]
    /\ UNCHANGED <<clock, files, next, reply, answers>>

LockAndLoad(p) ==
    /\ phase[p] = "checked"
    /\ \A q \in Processes : ~Owns(q)
    /\ Loadable(disk)
    /\ phase' = [phase EXCEPT ![p] = "idle"]
    /\ memory' = [memory EXCEPT ![p] = disk]
    /\ last' = [last EXCEPT ![p] = disk.observed]
    /\ poisoned' = [poisoned EXCEPT ![p] = FALSE]
    /\ UNCHANGED <<clock, files, next, reply, answers>>

\* What a process forgets when it lets go of the directory.
Leave(p) ==
    /\ phase' = [phase EXCEPT ![p] = "out"]
    /\ memory' = [memory EXCEPT ![p] = Blank]
    /\ last' = [last EXCEPT ![p] = 0]
    /\ poisoned' = [poisoned EXCEPT ![p] = FALSE]
    /\ next' = [next EXCEPT ![p] = Blank]
    /\ reply' = [reply EXCEPT ![p] = {}]

\* ClassLocked, or ClassCorrupt from load.
OpenFails(p) ==
    /\ phase[p] = "checked"
    /\ (\E q \in Processes : Owns(q)) \/ ~Loadable(disk)
    /\ Leave(p)
    /\ UNCHANGED <<clock, files, answers>>

Close(p) ==
    /\ phase[p] = "idle"
    /\ Leave(p)
    /\ UNCHANGED <<clock, files, answers>>

-----------------------------------------------------------------------------
(* Operations.                                                              *)

\* usable and trustedNow: every operation that gets this far sets lastNow,
\* whatever becomes of it.
Usable(p) ==
    /\ phase[p] = "idle"
    /\ ~poisoned[p]
    /\ clock >= last[p]
    /\ last' = [last EXCEPT ![p] = clock]

\* Operations that end in an error without a commit: an early return, a temporary
\* file that cannot be created.
Observe(p) ==
    /\ Usable(p)
    /\ clock > last[p]
    /\ UNCHANGED <<clock, files, phase, memory, poisoned, next, reply, answers>>

Due(r) == Active(r.state) /\ clock >= r.expires

\* Get of a record that is not due, and Snapshot when none is due, answer from the
\* memory.  A process that opened a file whose rename was never synced (its writer
\* was killed, or is poisoned and closed) answers what only the file says: load
\* does not sync the directory.
Read(p, ids) ==
    LET facts == FactsAbout(memory[p].records, ids)
    IN  /\ Usable(p)
        /\ \A id \in ids : ~Due(memory[p].records[id])
        /\ IF disk = durable
           THEN told' = told \cup facts /\ UNCHANGED shown
           ELSE shown' = shown \cup facts /\ UNCHANGED told
        /\ UNCHANGED <<clock, files, phase, memory, poisoned, next, reply>>

\* Mutant: the generation number is allowed to overflow.
CommitUnbounded(p, records, facts) ==
    /\ Usable(p)
    /\ ~temp
    /\ temp' = TRUE
    /\ phase' = [phase EXCEPT ![p] = "temp"]
    /\ next' = [next EXCEPT ![p] = [generation |-> memory[p].generation + 1,
                                    observed |-> clock, records |-> records]]
    /\ reply' = [reply EXCEPT ![p] = facts]
    /\ UNCHANGED <<clock, disk, durable, memory, poisoned, answers>>

\* commit, up to the creation of the temporary file.
Commit(p, records, facts) ==
    /\ Usable(p)
    /\ memory[p].generation < MaxGeneration
    /\ ~temp
    /\ temp' = TRUE
    /\ phase' = [phase EXCEPT ![p] = "temp"]
    /\ next' = [next EXCEPT ![p] = [generation |-> memory[p].generation + 1,
                                    observed |-> clock, records |-> records]]
    /\ reply' = [reply EXCEPT ![p] = facts]
    /\ UNCHANGED <<clock, disk, durable, memory, poisoned, answers>>

Put(records, id, r) == [i \in DOMAIN records \cup {id} |-> IF i = id THEN r ELSE records[i]]

Expire(r) ==
    [r EXCEPT !.state = "expired", !.decided = clock,
              !.actor = IF r.state = "pending" THEN NoActor ELSE @]

ExpireAll(records) ==
    [id \in DOMAIN records |-> IF Due(records[id]) THEN Expire(records[id]) ELSE records[id]]

Create(p, id, digest, created, expires) ==
    LET records == Put(memory[p].records, id,
                       [digest |-> digest, created |-> created, expires |-> expires,
                        state |-> "pending", decided |-> Undecided, actor |-> NoActor])
    IN  /\ created <= clock /\ clock < expires
        /\ expires - created <= MaxTTL
        /\ id \notin DOMAIN memory[p].records
        /\ Cardinality(DOMAIN memory[p].records) < MaxRecords
        /\ Commit(p, records, {FactOf(records, id)})

\* Get of a due record, and a decision that comes too late, record the expiry.
ExpireOne(p, id) ==
    LET r == memory[p].records[id]
        records == Put(memory[p].records, id, Expire(r))
    IN  /\ id \in DOMAIN memory[p].records
        /\ Due(r)
        /\ Commit(p, records, {FactOf(records, id)})

\* ExpireDue, which answers for the due records, and Snapshot, which answers for all.
ExpireDue(p) ==
    LET all == DOMAIN memory[p].records
        due == {id \in all : Due(memory[p].records[id])}
        records == ExpireAll(memory[p].records)
    IN  /\ due # {}
        /\ \E ids \in {due, all} : Commit(p, records, FactsAbout(records, ids))

Allowed(from, to) ==
    \/ from = "pending" /\ to \in {"approved", "denied", "cancelled"}
    \/ from = "approved" /\ to = "stale"

\* Mutant: a decision is recorded without looking at the expiry.
TransitionLate(p, id, digest, target, actor) ==
    LET r == memory[p].records[id]
        records == Put(memory[p].records, id,
                       [r EXCEPT !.state = target, !.decided = clock,
                                 !.actor = IF target \in {"approved", "denied"} THEN actor ELSE @])
    IN  /\ id \in DOMAIN memory[p].records
        /\ r.digest = digest
        /\ Allowed(r.state, target)
        /\ Commit(p, records, {FactOf(records, id)})

Transition(p, id, digest, target, actor) ==
    LET r == memory[p].records[id]
        records == Put(memory[p].records, id,
                       [r EXCEPT !.state = target, !.decided = clock,
                                 !.actor = IF target \in {"approved", "denied"} THEN actor ELSE @])
    IN  /\ id \in DOMAIN memory[p].records
        /\ ~Due(r)
        /\ r.digest = digest
        /\ Allowed(r.state, target)
        /\ Commit(p, records, {FactOf(records, id)})

-----------------------------------------------------------------------------
(* persist.  A failure before the rename removes the temporary file as best *)
(* it can and leaves memory and disk alone; from the rename on the outcome  *)
(* is unknown and the store is poisoned.                                    *)

FailBeforeRename(p) ==
    /\ phase[p] = "temp"
    /\ phase' = [phase EXCEPT ![p] = "idle"]
    /\ next' = [next EXCEPT ![p] = Blank]
    /\ reply' = [reply EXCEPT ![p] = {}]
    /\ temp' \in BOOLEAN
    /\ UNCHANGED <<clock, disk, durable, memory, last, poisoned, answers>>

\* Mutant: the caller is answered before the directory is synced.
RenameAnswers(p) ==
    /\ phase[p] = "temp"
    /\ phase' = [phase EXCEPT ![p] = "renamed"]
    /\ disk' = next[p]
    /\ temp' = FALSE
    /\ told' = told \cup reply[p]
    /\ UNCHANGED <<clock, durable, memory, last, poisoned, next, reply, shown>>

Rename(p) ==
    /\ phase[p] = "temp"
    /\ phase' = [phase EXCEPT ![p] = "renamed"]
    /\ disk' = next[p]
    /\ temp' = FALSE
    /\ UNCHANGED <<clock, durable, memory, last, poisoned, next, reply, answers>>

Poison(p) ==
    /\ phase' = [phase EXCEPT ![p] = "idle"]
    /\ poisoned' = [poisoned EXCEPT ![p] = TRUE]
    /\ next' = [next EXCEPT ![p] = Blank]
    /\ reply' = [reply EXCEPT ![p] = {}]
    /\ UNCHANGED <<clock, durable, memory, last, answers>>

RenameFails(p) ==
    /\ phase[p] = "temp"
    /\ Poison(p)
    /\ temp' \in BOOLEAN
    /\ disk' \in {disk, next[p]}

DirectorySync(p) ==
    /\ phase[p] = "renamed"
    /\ phase' = [phase EXCEPT ![p] = "idle"]
    /\ durable' = disk
    /\ memory' = [memory EXCEPT ![p] = next[p]]
    /\ told' = told \cup reply[p]
    /\ next' = [next EXCEPT ![p] = Blank]
    /\ reply' = [reply EXCEPT ![p] = {}]
    /\ UNCHANGED <<clock, disk, temp, last, poisoned, shown>>

\* Mutant: a failed directory sync is reported, but the store stays in use.
DirectorySyncUnpoisoned(p) ==
    /\ phase[p] = "renamed"
    /\ phase' = [phase EXCEPT ![p] = "idle"]
    /\ next' = [next EXCEPT ![p] = Blank]
    /\ reply' = [reply EXCEPT ![p] = {}]
    /\ UNCHANGED <<clock, files, memory, last, poisoned, answers>>

DirectorySyncFails(p) ==
    /\ phase[p] = "renamed"
    /\ Poison(p)
    /\ UNCHANGED <<disk, temp>>

-----------------------------------------------------------------------------
(* The environment (external).  A killed process loses only its memory; a   *)
(* power loss may also undo a rename whose directory was not synced, and    *)
(* with it what was read of it, and may leave the temporary file behind.    *)

Crash(p) ==
    /\ phase[p] # "out"
    /\ Leave(p)
    /\ UNCHANGED <<clock, files, answers>>

PowerLoss ==
    /\ disk # durable \/ \E p \in Processes : phase[p] # "out"
    /\ disk' \in {disk, durable}
    /\ durable' = disk'
    /\ temp' \in IF temp \/ disk # durable THEN BOOLEAN ELSE {FALSE}
    /\ phase' = [p \in Processes |-> "out"]
    /\ memory' = [p \in Processes |-> Blank]
    /\ last' = [p \in Processes |-> 0]
    /\ poisoned' = [p \in Processes |-> FALSE]
    /\ next' = [p \in Processes |-> Blank]
    /\ reply' = [p \in Processes |-> {}]
    /\ shown' = IF disk' = disk THEN shown ELSE {}
    /\ UNCHANGED <<clock, told>>

\* Time passes, or somebody sets the wall clock.
SetClock(t) ==
    /\ clock' = t
    /\ t # clock
    /\ UNCHANGED <<files, phase, memory, last, poisoned, next, reply, answers>>

-----------------------------------------------------------------------------
Operation(p) ==
    \/ Observe(p)
    \/ ExpireDue(p)
    \/ Read(p, DOMAIN memory[p].records)
    \/ \E id \in DOMAIN memory[p].records : Read(p, {id})
    \/ \E id \in Requests :
        \/ \E d \in Digests, c \in Times, e \in 0..(MaxTime + MaxTTL) : Create(p, id, d, c, e)
        \/ ExpireOne(p, id)
        \/ \E d \in Digests, a \in Actors, s \in {"approved", "denied"} : Transition(p, id, d, s, a)
        \/ \E d \in Digests, s \in {"cancelled", "stale"} : Transition(p, id, d, s, NoActor)

Persist(p) ==
    \/ FailBeforeRename(p) \/ Rename(p) \/ RenameFails(p)
    \/ DirectorySync(p) \/ DirectorySyncFails(p)

Next ==
    \/ \E p \in Processes :
        \/ CheckTemp(p) \/ LockAndLoad(p) \/ OpenFails(p) \/ Close(p)
        \/ Operation(p) \/ Persist(p) \/ Crash(p)
    \/ PowerLoss
    \/ \E t \in Times : SetClock(t)

Spec == Init /\ [][Next]_vars

-----------------------------------------------------------------------------
TypeOK ==
    /\ clock \in Times
    /\ IsSnapshot(disk) /\ IsSnapshot(durable)
    /\ temp \in BOOLEAN
    /\ phase \in [Processes -> {"out", "checked", "idle", "temp", "renamed"}]
    /\ \A p \in Processes : IsSnapshot(memory[p]) /\ IsSnapshot(next[p]) /\ reply[p] \subseteq Fact
    /\ last \in [Processes -> Times]
    /\ poisoned \in [Processes -> BOOLEAN]
    /\ told \subseteq Fact /\ shown \subseteq Fact

\* A process that still answers callers answers from what is on disk: a failed
\* or interrupted replacement never leaves memory and file apart unnoticed
\* (commit's late assignment, and poisoning after the rename).
MemoryIsDisk ==
    \A p \in Processes :
        Owns(p) /\ ~poisoned[p] =>
            IF phase[p] = "renamed" THEN disk = next[p] ELSE disk = memory[p]

\* What Open checks of a snapshot holds of every snapshot the store writes,
\* except that a pending record may have outlived its expiry unnoticed: only the
\* record an operation names is expired before the operation is recorded.
ValidButOverdue(r, observed) ==
    \/ ValidRecord(r, observed)
    \/ /\ r.state = "pending"
       /\ ValidRecord([r EXCEPT !.state = "expired", !.decided = observed], observed)

Consistent(s) ==
    /\ s = Blank \/ s.generation > 0
    /\ Cardinality(DOMAIN s.records) <= MaxRecords
    /\ \A id \in DOMAIN s.records : ValidButOverdue(s.records[id], s.observed)

SnapshotsConsistent == Consistent(disk) /\ Consistent(durable)

\* The store can be opened again on what it wrote itself.  The plan of this store
\* has every mutation apply the expiry of all records; the code does not, and
\* refuses its own snapshot as corrupt.
Reopenable == Loadable(disk)

Reachable(from) ==
    CASE from = "pending" -> States
      [] from = "approved" -> {"approved", "stale", "expired"}
      [] OTHER -> {from}

\* A snapshot has the record a caller was told of, with the same digest, in that
\* state or a later one, and with the same decider.
Recorded(f, s) ==
    /\ f.id \in DOMAIN s.records
    /\ LET r == s.records[f.id]
       IN  /\ r.digest = f.digest
           /\ r.state \in Reachable(f.state)
           /\ f.state # "pending" => r.actor = f.actor

\* What a caller was told by a change (answered after the directory sync), or read
\* while the file was synced, survives crashes, power losses and restarts.  What
\* was read of a file that a killed or poisoned writer left unsynced stands as well,
\* unless a power loss undoes the rename itself (PowerLoss takes it from `shown`).
ToldIsDurable ==
    /\ \A f \in told : Recorded(f, durable)
    /\ \A f \in shown : Recorded(f, disk)

\* The durable file only moves forward: records are never dropped, their manifest
\* never changes, a decision is never replaced by another one, the generation grows
\* and the observed time never goes back, whatever the wall clock does.
ForwardStep ==
    durable' # durable =>
        /\ durable'.generation > durable.generation
        /\ durable'.observed >= durable.observed
        /\ \A id \in DOMAIN durable.records :
            LET r == durable.records[id]
                s == durable'.records[id]
            IN  /\ id \in DOMAIN durable'.records
                /\ s.digest = r.digest /\ s.created = r.created /\ s.expires = r.expires
                /\ s.state \in Reachable(r.state)
                /\ r.state # "pending" => s.actor = r.actor

OnlyForward == [][ForwardStep]_vars
=============================================================================
