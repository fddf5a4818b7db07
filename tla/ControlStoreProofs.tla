------------------------ MODULE ControlStoreProofs ------------------------
(***************************************************************************)
(* Proofs about ControlStore, for any number of tasks, agents, handles and *)
(* events.                                                                 *)
(***************************************************************************)
EXTENDS ControlStore, FiniteSetTheorems, TLAPS

(***************************************************************************)
(* Tables.                                                                 *)
(***************************************************************************)

\* Max of the sequence numbers 1..n is n (SELECT MAX(sequence)).
LEMMA MaxOfInterval ==
    ASSUME NEW n \in Nat, n >= 1
    PROVE  Max(1..n) = n
<1>1. n \in 1..n /\ \A y \in 1..n : n >= y
  OBVIOUS
<1>2. \A x \in 1..n : (\A y \in 1..n : x >= y) => x = n
  <2>1. SUFFICES ASSUME NEW x \in 1..n, \A y \in 1..n : x >= y PROVE x = n
    OBVIOUS
  <2>2. x >= n
    BY <1>1, <2>1
  <2>3. QED
    BY <2>1, <2>2
<1>3. QED
  BY <1>1, <1>2 DEF Max

\* A log without gaps gives its next event the next number.
LEMMA NextOfContiguous ==
    \A e : \A n \in Nat : DOMAIN e = 1..n => NextSequence(e) = n + 1
<1> SUFFICES ASSUME NEW e, NEW n \in Nat, DOMAIN e = 1..n
             PROVE  NextSequence(e) = n + 1
  OBVIOUS
<1>1. CASE n = 0
  BY <1>1 DEF NextSequence
<1>2. CASE n # 0
  <2>1. 1 \in DOMAIN e
    BY <1>2
  <2>2. QED
    BY <2>1, <1>2, MaxOfInterval DEF NextSequence
<1>3. QED
  BY <1>1, <1>2

\* INSERT keeps a table a table and adds one key.
LEMMA InsertIntoTable ==
    \A V, f, k, v :
        IsTable(f, V) /\ k \in Nat /\ v \in V =>
            IsTable(Insert(f, k, v), V) /\ DOMAIN Insert(f, k, v) = DOMAIN f \cup {k}
  BY DEF IsTable, Insert

\* The next event of a gap-free log leaves it gap-free.
Contiguous(row) == \E n \in Nat : n >= 2 /\ DOMAIN row.events = 1..n

LEMMA AppendedRow ==
    \A r, type, version :
        /\ IsRow(r) /\ Contiguous(r)
        /\ [type |-> type, version |-> version] \in Event
        => /\ IsRow(AppendEvent(r, type, version))
           /\ Contiguous(AppendEvent(r, type, version))
<1> SUFFICES ASSUME NEW r, NEW type, NEW version, IsRow(r), Contiguous(r),
                    [type |-> type, version |-> version] \in Event
             PROVE  /\ IsRow(AppendEvent(r, type, version))
                    /\ Contiguous(AppendEvent(r, type, version))
  OBVIOUS
<1>1. PICK n \in Nat, k \in Nat : n >= 2 /\ k = n + 1 /\ DOMAIN r.events = 1..n
  BY DEF Contiguous
<1>2. PICK e \in Event : e = [type |-> type, version |-> version]
  OBVIOUS
<1>3. NextSequence(r.events) = k
  BY <1>1, NextOfContiguous
<1>4. PICK f : f = Insert(r.events, k, e)
  OBVIOUS
<1>5. IsTable(f, Event) /\ DOMAIN f = DOMAIN r.events \cup {k}
  <2>1. IsTable(r.events, Event)
    BY DEF IsRow
  <2>2. QED
    BY <2>1, <1>4 DEF IsTable, Insert
<1>6. DOMAIN f = 1..k
  <2>1. 1..n \cup {k} = 1..k
    BY <1>1
  <2>2. QED
    BY <2>1, <1>1, <1>5
<1>7. AppendEvent(r, type, version) = [r EXCEPT !.events = f]
  BY <1>2, <1>3, <1>4 DEF AppendEvent
<1>8. IsRow([r EXCEPT !.events = f])
  BY <1>5 DEF IsRow
<1>9. Contiguous([r EXCEPT !.events = f])
  <2>1. [r EXCEPT !.events = f].events = f
    BY DEF IsRow
  <2>2. QED
    BY <1>1, <1>6, <2>1 DEF Contiguous
<1>10. QED
  BY <1>7, <1>8, <1>9

\* Replacing the scalar columns of a row keeps it a row with the same log.
LEMMA UpdatedRow ==
    \A r : IsRow(r) /\ Contiguous(r) =>
        /\ \A s \in States : LET q == [r EXCEPT !.state = s] IN IsRow(q) /\ Contiguous(q)
        /\ LET q == [r EXCEPT !.active = FALSE] IN IsRow(q) /\ Contiguous(q)
        /\ \A c \in Contract : LET q == [r EXCEPT !.contract = c] IN IsRow(q) /\ Contiguous(q)
        /\ \A p \in Progress : LET q == [r EXCEPT !.progress = p] IN IsRow(q) /\ Contiguous(q)
  BY DEF IsRow, Contiguous

\* Appending a version to a history keeps the row a row with the same log.
LEMMA HistoryRow ==
    \A r : IsRow(r) /\ Contiguous(r) =>
        /\ \A c \in Contract :
             LET q == [r EXCEPT !.contracts = Insert(@, c.version, c)] IN IsRow(q) /\ Contiguous(q)
        /\ \A p \in Progress :
             LET q == [r EXCEPT !.progresses = Insert(@, p.version, p)] IN IsRow(q) /\ Contiguous(q)
<1> SUFFICES ASSUME NEW r, IsRow(r), Contiguous(r)
    PROVE  /\ \A c \in Contract :
                LET q == [r EXCEPT !.contracts = Insert(@, c.version, c)]
                IN  IsRow(q) /\ Contiguous(q)
           /\ \A p \in Progress :
                LET q == [r EXCEPT !.progresses = Insert(@, p.version, p)]
                IN  IsRow(q) /\ Contiguous(q)
  OBVIOUS
<1>1. ASSUME NEW c \in Contract
      PROVE  LET q == [r EXCEPT !.contracts = Insert(@, c.version, c)]
             IN  IsRow(q) /\ Contiguous(q)
  <2>1. IsTable(Insert(r.contracts, c.version, c), Contract)
    BY InsertIntoTable DEF IsRow, Contract
  <2>2. QED
    BY <2>1 DEF IsRow, Contiguous
<1>2. ASSUME NEW p \in Progress
      PROVE  LET q == [r EXCEPT !.progresses = Insert(@, p.version, p)]
             IN  IsRow(q) /\ Contiguous(q)
  <2>1. IsTable(Insert(r.progresses, p.version, p), Progress)
    BY InsertIntoTable DEF IsRow, Progress
  <2>2. QED
    BY <2>1 DEF IsRow, Contiguous
<1>3. QED
  BY <1>1, <1>2

(***************************************************************************)
(* Type correctness.  TypeOK is not inductive: NextSequence is a number    *)
(* only when the log it is applied to has no gaps, and a transition's      *)
(* event exists only when the transition was checked, so both are carried  *)
(* along for committed rows and for the rows transactions are working on.  *)
(***************************************************************************)

GoodTx(x) ==
    /\ IsTx(x)
    /\ x.op # "idle" => Contiguous(x.row)
    /\ x.op = "transition" => Allowed(x.arg.expected, x.arg.target)

TypeInv ==
    /\ TypeOK
    /\ \A t \in DOMAIN db : Contiguous(db[t])
    /\ \A h \in Handles : GoodTx(tx[h])

\* An operation that only moves one handle's transaction.
LEMMA TxMoved ==
    ASSUME TypeInv, NEW h \in Handles, NEW x, GoodTx(x), tx' = [tx EXCEPT ![h] = x],
           UNCHANGED <<schema, db>>, open' \subseteq Handles,
           writer' \in Handles \cup {NoHandle}, acked' \subseteq Ack
    PROVE  TypeInv'
<1>1. tx' = [g \in Handles |-> IF g = h THEN x ELSE tx[g]]
  BY DEF TypeInv, TypeOK
<1>2. \A g \in Handles : GoodTx(tx'[g])
  BY <1>1 DEF TypeInv
<1>3. \A g \in Handles : IsTx(tx'[g])
  BY <1>2 DEF GoodTx
<1>4. tx' = [g \in Handles |-> tx'[g]]
  BY <1>1
<1>5. TypeOK'
  BY <1>3, <1>4 DEF TypeInv, TypeOK
<1>6. QED
  BY <1>2, <1>5 DEF TypeInv

\* A statement of h's transaction.
LEMMA Wrote ==
    ASSUME TypeInv, NEW h \in Handles, NEW row, NEW stage, Write(h, row, stage),
           GoodTx([tx[h] EXCEPT !.row = row, !.stage = stage]),
           writer' \in Handles \cup {NoHandle}
    PROVE  TypeInv'
<1>1. tx' = [tx EXCEPT ![h] = [tx[h] EXCEPT !.row = row, !.stage = stage]]
  BY DEF Write, TypeInv, TypeOK
<1>2. open' \subseteq Handles /\ acked' \subseteq Ack /\ UNCHANGED <<schema, db>>
  BY DEF Write, TypeInv, TypeOK
<1>3. QED
  BY <1>1, <1>2, TxMoved

\* The lock after a statement that takes it, keeps it or gives it up.
LEMMA WriterTyped ==
    ASSUME TypeInv, NEW h \in Handles, FirstWrite(h) \/ UNCHANGED writer \/ Unlock(h)
    PROVE  writer' \in Handles \cup {NoHandle}
  BY DEF TypeInv, TypeOK, FirstWrite, Unlock

LEMMA NewRowTyped ==
    \A a \in Agents : \A c \in Contract : \A p \in Progress :
        IsRow(NewRow(a, c, p)) /\ Contiguous(NewRow(a, c, p))
<1> SUFFICES ASSUME NEW a \in Agents, NEW c \in Contract, NEW p \in Progress
             PROVE  IsRow(NewRow(a, c, p)) /\ Contiguous(NewRow(a, c, p))
  OBVIOUS
<1>1. IsTable(CreatedEvents, Event) /\ DOMAIN CreatedEvents = 1..2
  BY DEF CreatedEvents, IsTable, Event
<1>2. IsTable(Only(1, c), Contract) /\ IsTable(Only(0, p), Progress)
  BY DEF Only, IsTable
<1>3. IsRow(NewRow(a, c, p))
  BY <1>1, <1>2 DEF NewRow, IsRow, States
<1>4. Contiguous(NewRow(a, c, p))
  BY <1>1 DEF NewRow, Contiguous
<1>5. QED
  BY <1>3, <1>4

LEMMA MigratedRowTyped ==
    \A r : IsRow(r) /\ Contiguous(r) => IsRow(MigrateRow(r)) /\ Contiguous(MigrateRow(r))
<1> SUFFICES ASSUME NEW r, IsRow(r), Contiguous(r)
             PROVE  IsRow(MigrateRow(r)) /\ Contiguous(MigrateRow(r))
  OBVIOUS
<1>1. r.contract \in Contract /\ r.progress \in Progress
  BY DEF IsRow
<1>2. /\ IsTable(Only(r.contract.version, r.contract), Contract)
      /\ IsTable(Only(r.progress.version, r.progress), Progress)
  BY <1>1 DEF Only, IsTable, Contract, Progress
<1>3. QED
  BY <1>2 DEF MigrateRow, IsRow, Contiguous

LEMMA LegacyRowTyped ==
    \A n : \A r \in LegacyRows(n) : IsRow(r) /\ Contiguous(r)
<1> SUFFICES ASSUME NEW n, NEW a \in Agents, NEW ok \in BOOLEAN, NEW p \in Payloads,
                    NEW s \in LegacyStates(n)
             PROVE  IsRow(LegacyRow(a, ok, p, s)) /\ Contiguous(LegacyRow(a, ok, p, s))
  BY DEF LegacyRows
<1> DEFINE new == NewRow(a, FirstContract(ok, p), FirstProgress(p))
           log == IF s = "ready" THEN new.events
                  ELSE Insert(new.events, 3, [type |-> EventOf["ready"][s], version |-> 0])
           old == LegacyRow(a, ok, p, s)
<1>1. IsRow(new) /\ Contiguous(new)
  BY NewRowTyped DEF FirstContract, FirstProgress, Contract, Progress
<1>2. s \in {"ready", "running", "cancelled"}
  BY DEF LegacyStates
<1>3. IsTable(EmptyTable, Contract) /\ IsTable(EmptyTable, Progress)
  BY DEF EmptyTable, IsTable
<1>4. new.events = CreatedEvents
  BY DEF NewRow
<1>5. IsTable(CreatedEvents, Event) /\ DOMAIN CreatedEvents = 1..2
  BY DEF CreatedEvents, IsTable, Event
<1>6. s # "ready" => [type |-> EventOf["ready"][s], version |-> 0] \in Event
  BY <1>2 DEF EventOf, Event, LifecycleEvents
<1>7. IsTable(log, Event) /\ (DOMAIN log = 1..2 \/ DOMAIN log = 1..3)
  <2>1. CASE s = "ready"
    BY <2>1, <1>4, <1>5
  <2>2. CASE s # "ready"
    <3>1. PICK e \in Event : e = [type |-> EventOf["ready"][s], version |-> 0]
      BY <1>6, <2>2
    <3>2. IsTable(Insert(CreatedEvents, 3, e), Event)
      BY <1>5, InsertIntoTable
    <3>3. DOMAIN Insert(CreatedEvents, 3, e) = 1..3
      BY <1>5 DEF Insert
    <3>4. QED
      BY <2>2, <1>4, <3>1, <3>2, <3>3
  <2>3. QED
    BY <2>1, <2>2
<1>8. s \in States
  BY <1>2 DEF States
<1>9. PICK act \in BOOLEAN : act = (s \notin Terminal)
  OBVIOUS
<1>10. old = [new EXCEPT !.state = s, !.active = act, !.contracts = EmptyTable,
                         !.progresses = EmptyTable, !.events = log]
  BY <1>9 DEF LegacyRow
<1>11. old.events = log
  BY <1>10 DEF NewRow
<1> HIDE DEF new, log, old
<1>12. IsRow(old)
  BY <1>1, <1>3, <1>7, <1>8, <1>9, <1>10 DEF IsRow
<1>13. Contiguous(old)
  <2>1. 2 \in Nat /\ 3 \in Nat /\ 2 >= 2 /\ 3 >= 2
    OBVIOUS
  <2>2. DOMAIN old.events = 1..2 \/ DOMAIN old.events = 1..3
    BY <1>7, <1>11
  <2>3. QED
    BY <2>1, <2>2 DEF Contiguous
<1>14. QED
  BY <1>12, <1>13 DEF old

\* Every initial database, new or written by an earlier version, is well typed.
LEMMA TypeInit == Init => TypeInv
<1> SUFFICES ASSUME Init PROVE TypeInv
  OBVIOUS
<1>1. \A h \in Handles : GoodTx(tx[h])
  BY DEF Init, GoodTx, IsTx, Idle
<1>2. /\ db = [t \in DOMAIN db |-> db[t]] /\ DOMAIN db \subseteq Tasks
      /\ \A t \in DOMAIN db : IsRow(db[t]) /\ Contiguous(db[t])
  <2>1. CASE db = EmptyTable
    BY <2>1 DEF EmptyTable
  <2>2. ASSUME NEW n, NEW T \in SUBSET Tasks, db \in [T -> LegacyRows(n)]
        PROVE <1>2!1 /\ <1>2!2
    BY <2>2, LegacyRowTyped
  <2>3. QED
    BY <2>1, <2>2 DEF Init
<1>3. schema \in 0..3
  BY DEF Init
<1>4. TypeOK
  BY <1>1, <1>2, <1>3 DEF TypeOK, Init, GoodTx
<1>5. QED
  BY <1>1, <1>2, <1>4 DEF TypeInv

LEMMA AllowedEvents ==
    \A from, to \in States : Allowed(from, to) =>
        /\ [type |-> EventOf[from][to], version |-> 0] \in Event
        /\ from \notin Terminal
  BY DEF States, Allowed, EventOf, Event, LifecycleEvents, Terminal

\* A transaction that has executed one more statement.
LEMMA Advanced ==
    \A x, row, stage :
        /\ GoodTx(x) /\ IsRow(row) /\ Contiguous(row)
        /\ \/ x.op = "transition" /\ stage \in {"read", "state", "event", "owner", "done"}
           \/ x.op \in {"contract", "progress"} /\ stage \in VersionStages
           \/ x.op = "create" /\ stage \in {"event", "done"}
        => GoodTx([x EXCEPT !.row = row, !.stage = stage])
<1> SUFFICES ASSUME NEW x, NEW row, NEW stage, GoodTx(x), IsRow(row), Contiguous(row),
                    \/ /\ x.op = "transition"
                       /\ stage \in {"read", "state", "event", "owner", "done"}
                    \/ x.op \in {"contract", "progress"} /\ stage \in VersionStages
                    \/ x.op = "create" /\ stage \in {"event", "done"}
             PROVE  GoodTx([x EXCEPT !.row = row, !.stage = stage])
  OBVIOUS
<1> DEFINE y == [x EXCEPT !.row = row, !.stage = stage]
<1>1. CASE x.op = "transition"
  <2>1. /\ x \in [op: {"transition"}, task: Tasks, row: {x.row}, fresh: BOOLEAN,
                  stage: {"read", "state", "event", "owner", "done"},
                  arg: [expected: States, target: States]]
        /\ Allowed(x.arg.expected, x.arg.target)
    BY <1>1 DEF GoodTx, IsTx, TxOf, Idle
  <2>2. y.row = row /\ y.op = "transition" /\ y.arg = x.arg
    BY <2>1
  <2>3. y \in [op: {"transition"}, task: Tasks, row: {y.row}, fresh: BOOLEAN,
                  stage: {"read", "state", "event", "owner", "done"},
                  arg: [expected: States, target: States]]
    BY <1>1, <2>1, <2>2
  <2>4. QED
    BY <2>1, <2>2, <2>3 DEF GoodTx, IsTx, TxOf
<1>2. CASE x.op = "contract"
  BY <1>2 DEF GoodTx, IsTx, TxOf, Idle
<1>3. CASE x.op = "progress"
  BY <1>3 DEF GoodTx, IsTx, TxOf, Idle
<1>4. CASE x.op = "create"
  BY <1>4 DEF GoodTx, IsTx, TxOf, Idle
<1>5. QED
  BY <1>1, <1>2, <1>3, <1>4

\* A transaction whose snapshot another handle has committed over.
LEMMA Staled ==
    \A x : GoodTx(x) /\ x.op # "idle" => GoodTx([x EXCEPT !.fresh = FALSE])
<1> SUFFICES ASSUME NEW x, GoodTx(x), x.op # "idle" PROVE GoodTx([x EXCEPT !.fresh = FALSE])
  OBVIOUS
<1> DEFINE y == [x EXCEPT !.fresh = FALSE]
<1>1. CASE x.op = "transition"
  <2>1. /\ x \in [op: {"transition"}, task: Tasks, row: {x.row}, fresh: BOOLEAN,
                  stage: {"read", "state", "event", "owner", "done"},
                  arg: [expected: States, target: States]]
        /\ Allowed(x.arg.expected, x.arg.target)
    BY <1>1 DEF GoodTx, IsTx, TxOf, Idle
  <2>2. y.row = x.row /\ y.op = "transition" /\ y.arg = x.arg
    BY <2>1
  <2>3. y \in [op: {"transition"}, task: Tasks, row: {y.row}, fresh: BOOLEAN,
                  stage: {"read", "state", "event", "owner", "done"},
                  arg: [expected: States, target: States]]
    BY <2>1, <2>2
  <2>4. IsRow(x.row) /\ Contiguous(x.row)
    BY <1>1 DEF GoodTx, IsTx, TxOf, Idle
  <2>5. QED
    BY <2>1, <2>2, <2>3, <2>4 DEF GoodTx, IsTx, TxOf
<1>2. CASE x.op = "contract"
  BY <1>2 DEF GoodTx, IsTx, TxOf, Idle
<1>3. CASE x.op = "progress"
  BY <1>3 DEF GoodTx, IsTx, TxOf, Idle
<1>4. CASE x.op = "create"
  BY <1>4 DEF GoodTx, IsTx, TxOf, Idle
<1>5. QED
  BY <1>1, <1>2, <1>3, <1>4 DEF GoodTx, IsTx, TxOf, Idle

\* What Commit changes in the committing transaction and in the others.
LEMMA SettledFields ==
    \A x : GoodTx(x) /\ x.op # "idle" =>
        /\ [x EXCEPT !.fresh = FALSE].op = x.op
        /\ [x EXCEPT !.fresh = FALSE].stage = x.stage
        /\ [x EXCEPT !.fresh = FALSE].fresh = FALSE
        /\ [x EXCEPT !.stage = "done"].op = x.op
        /\ [x EXCEPT !.stage = "done"].stage = "done"
<1> SUFFICES ASSUME NEW x, GoodTx(x), x.op # "idle"
             PROVE  /\ [x EXCEPT !.fresh = FALSE].op = x.op
                    /\ [x EXCEPT !.fresh = FALSE].stage = x.stage
                    /\ [x EXCEPT !.fresh = FALSE].fresh = FALSE
                    /\ [x EXCEPT !.stage = "done"].op = x.op
                    /\ [x EXCEPT !.stage = "done"].stage = "done"
  OBVIOUS
<1>1. CASE x.op = "transition"
  <2>1. x \in [op: {"transition"}, task: Tasks, row: {x.row}, fresh: BOOLEAN,
               stage: {"read", "state", "event", "owner", "done"},
               arg: [expected: States, target: States]]
    BY <1>1 DEF GoodTx, IsTx, TxOf, Idle
  <2>2. QED
    BY <2>1
<1>2. CASE x.op = "contract"
  <2>1. x \in [op: {"contract"}, task: Tasks, row: {x.row}, fresh: BOOLEAN,
               stage: VersionStages, arg: Contract]
    BY <1>2 DEF GoodTx, IsTx, TxOf, Idle
  <2>2. QED
    BY <2>1
<1>3. CASE x.op = "progress"
  <2>1. x \in [op: {"progress"}, task: Tasks, row: {x.row}, fresh: BOOLEAN,
               stage: VersionStages, arg: Progress]
    BY <1>3 DEF GoodTx, IsTx, TxOf, Idle
  <2>2. QED
    BY <2>1
<1>4. CASE x.op = "create"
  <2>1. x \in [op: {"create"}, task: Tasks, row: {x.row}, fresh: BOOLEAN,
               stage: {"event", "done"}, arg: Agents]
    BY <1>4 DEF GoodTx, IsTx, TxOf, Idle
  <2>2. QED
    BY <2>1
<1>5. QED
  BY <1>1, <1>2, <1>3, <1>4 DEF GoodTx, IsTx, TxOf, Idle

LEMMA TypeStep == TypeInv /\ [Next]_vars => TypeInv'
<1> SUFFICES ASSUME TypeInv, [Next]_vars PROVE TypeInv'
  OBVIOUS
<1> USE DEF TypeInv
<1>1. CASE UNCHANGED vars
  BY <1>1 DEF vars, TypeOK
<1>2. ASSUME NEW h \in Handles, OpenStore(h) PROVE TypeInv'
  <2>1. db' = [t \in DOMAIN db |-> db'[t]] /\ DOMAIN db' = DOMAIN db
    BY <1>2 DEF OpenStore, Migrated
  <2>2. \A t \in DOMAIN db : IsRow(db'[t]) /\ Contiguous(db'[t])
    BY <1>2, MigratedRowTyped DEF OpenStore, Migrated, TypeOK
  <2>3. QED
    BY <1>2, <2>1, <2>2 DEF OpenStore, TypeOK
<1>3. ASSUME NEW h \in Handles, Close(h) PROVE TypeInv'
  BY <1>3 DEF Close, TypeOK
<1>4. ASSUME NEW h \in Handles, Crash(h) \/ Rollback(h) PROVE TypeInv'
  <2>1. GoodTx(Idle)
    BY DEF GoodTx, IsTx, Idle
  <2>2. tx' = [tx EXCEPT ![h] = Idle] /\ Unlock(h) /\ UNCHANGED <<schema, db, acked>>
    BY <1>4 DEF Crash, Rollback
  <2>3. open' \subseteq Handles /\ acked' \subseteq Ack
    BY <1>4 DEF Crash, Rollback, TypeOK
  <2>4. writer' \in Handles \cup {NoHandle}
    BY <2>2, WriterTyped
  <2>5. QED
    BY <2>1, <2>2, <2>3, <2>4, TxMoved
<1>5. ASSUME NEW h \in Handles, Create(h) PROVE TypeInv'
  <2>1. PICK t \in Tasks, a \in Agents, ok \in BOOLEAN, p \in Payloads :
            CreateTask(h, t, a, FirstContract(ok, p), FirstProgress(p))
    BY <1>5 DEF Create
  <2>2. PICK r : r = NewRow(a, FirstContract(ok, p), FirstProgress(p))
    OBVIOUS
  <2>3. IsRow(r) /\ Contiguous(r)
    BY <2>2, NewRowTyped DEF FirstContract, FirstProgress, Contract, Progress
  <2>4. PICK x : x = [op |-> "create", task |-> t, row |-> r, fresh |-> TRUE,
                      stage |-> "event", arg |-> a]
    OBVIOUS
  <2>5. GoodTx(x)
    BY <2>3, <2>4 DEF GoodTx, IsTx, TxOf
  <2>6. /\ tx' = [tx EXCEPT ![h] = x] /\ UNCHANGED <<schema, db>>
        /\ open' \subseteq Handles /\ acked' \subseteq Ack
        /\ writer' \in Handles \cup {NoHandle}
    BY <2>1, <2>2, <2>4 DEF CreateTask, TypeOK
  <2>7. QED
    BY <2>5, <2>6, TxMoved
<1>6. ASSUME NEW h \in Handles, NEW op, NEW t \in Tasks, NEW arg, Begin(h, op, t, arg),
             \/ /\ op = "transition" /\ arg \in [expected: States, target: States]
                /\ Allowed(arg.expected, arg.target)
             \/ op = "contract" /\ arg \in Contract
             \/ op = "progress" /\ arg \in Progress
      PROVE TypeInv'
  <2>1. IsRow(db[t]) /\ Contiguous(db[t])
    BY <1>6 DEF Begin, TypeOK
  <2>2. PICK x : x = [op |-> op, task |-> t, row |-> db[t], fresh |-> TRUE,
                      stage |-> "read", arg |-> arg]
    OBVIOUS
  <2>3. GoodTx(x)
    BY <1>6, <2>1, <2>2 DEF GoodTx, IsTx, TxOf, VersionStages
  <2>4. /\ tx' = [tx EXCEPT ![h] = x] /\ UNCHANGED <<schema, db>>
        /\ open' \subseteq Handles /\ acked' \subseteq Ack
        /\ writer' \in Handles \cup {NoHandle}
    BY <1>6, <2>2 DEF Begin, TypeOK
  <2>5. QED
    BY <2>3, <2>4, TxMoved
<1>7. ASSUME NEW h \in Handles, NEW row, NEW stage, Write(h, row, stage),
             IsRow(row), Contiguous(row), FirstWrite(h) \/ UNCHANGED writer,
             \/ tx[h].op = "transition" /\ stage \in {"state", "event", "owner"}
             \/ tx[h].op \in {"contract", "progress"} /\ stage \in {"history", "current", "event"}
      PROVE TypeInv'
  <2>1. GoodTx(tx[h])
    OBVIOUS
  <2>2. GoodTx([tx[h] EXCEPT !.row = row, !.stage = stage])
    BY <1>7, <2>1, Advanced DEF VersionStages
  <2>3. writer' \in Handles \cup {NoHandle}
    BY <1>7, WriterTyped
  <2>4. QED
    BY <1>7, <2>2, <2>3, Wrote
<1>8. \A h \in Handles : tx[h].op # "idle" =>
          IsTx(tx[h]) /\ IsRow(tx[h].row) /\ Contiguous(tx[h].row)
  BY DEF GoodTx, IsTx, TxOf, Idle
<1>9. ASSUME NEW h \in Handles, Transition(h) PROVE TypeInv'
  <2>1. ASSUME NEW t \in Tasks, NEW s \in States, NEW g \in States, BeginTransition(h, t, s, g)
        PROVE TypeInv'
    BY <2>1, <1>6 DEF BeginTransition
  <2>2. CASE UpdateState(h)
    <3>1. tx[h].op = "transition" /\ tx[h].arg.target \in States
      BY <2>2, <1>8 DEF UpdateState, At, IsTx, TxOf, Idle
    <3>2. PICK q : q = [tx[h].row EXCEPT !.state = tx[h].arg.target]
      OBVIOUS
    <3>3. IsRow(q) /\ Contiguous(q)
      BY <3>1, <3>2, <1>8, UpdatedRow
    <3>4. QED
      BY <2>2, <3>1, <3>2, <3>3, <1>7 DEF UpdateState
  <2>3. CASE AppendTransitionEvent(h)
    <3>1. /\ tx[h].op = "transition"
          /\ tx[h].arg.expected \in States /\ tx[h].arg.target \in States
          /\ Allowed(tx[h].arg.expected, tx[h].arg.target)
      BY <2>3, <1>8 DEF AppendTransitionEvent, At, IsTx, TxOf, Idle, GoodTx
    <3>2. PICK q : q = AppendEvent(tx[h].row, EventOf[tx[h].arg.expected][tx[h].arg.target], 0)
      OBVIOUS
    <3>3. IsRow(q) /\ Contiguous(q)
      BY <3>1, <3>2, <1>8, AppendedRow, AllowedEvents
    <3>4. QED
      BY <2>3, <3>1, <3>2, <3>3, <1>7 DEF AppendTransitionEvent
  <2>4. CASE ReleaseOwner(h)
    <3>1. tx[h].op = "transition"
      BY <2>4 DEF ReleaseOwner, At
    <3>2. PICK q : q = [tx[h].row EXCEPT !.active = FALSE]
      OBVIOUS
    <3>3. IsRow(q) /\ Contiguous(q)
      BY <3>1, <3>2, <1>8, UpdatedRow
    <3>4. QED
      BY <2>4, <3>1, <3>2, <3>3, <1>7 DEF ReleaseOwner
  <2>5. QED
    BY <1>9, <2>1, <2>2, <2>3, <2>4 DEF Transition
<1>10. ASSUME NEW h \in Handles, NEW op, NEW type, AppendVersionEvent(h, op, type),
              \/ op = "contract" /\ type = "ContractChanged"
              \/ op = "progress" /\ type = "ProgressRefreshed"
       PROVE TypeInv'
  <2>1. tx[h].op = op
    BY <1>10 DEF AppendVersionEvent, At
  <2>2. tx[h].arg.version \in Nat
    BY <1>10, <2>1, <1>8 DEF IsTx, TxOf, Idle, Contract, Progress
  <2>3. [type |-> type, version |-> tx[h].arg.version] \in Event
    BY <1>10, <2>2 DEF Event
  <2>4. PICK q : q = AppendEvent(tx[h].row, type, tx[h].arg.version)
    OBVIOUS
  <2>5. IsRow(q) /\ Contiguous(q)
    BY <1>10, <2>1, <2>3, <2>4, <1>8, AppendedRow
  <2>6. QED
    BY <1>10, <2>1, <2>4, <2>5, <1>7 DEF AppendVersionEvent
<1>11. ASSUME NEW h \in Handles, UpdateContract(h) PROVE TypeInv'
  <2>1. ASSUME NEW t \in Tasks, NEW v \in Versions, NEW p \in Payloads,
               BeginContract(h, t, v, [version |-> v + 1, schema |-> TRUE, payload |-> p])
        PROVE TypeInv'
    <3>1. [version |-> v + 1, schema |-> TRUE, payload |-> p] \in Contract
      BY ControlConstants DEF Contract, Versions
    <3>2. QED
      BY <2>1, <3>1, <1>6 DEF BeginContract
  <2>2. tx[h].op = "contract" => tx[h].arg \in Contract
    BY <1>8 DEF IsTx, TxOf, Idle
  <2>3. CASE AppendContractHistory(h)
    <3>1. tx[h].op = "contract"
      BY <2>3 DEF AppendContractHistory, At
    <3>2. PICK q : q = [tx[h].row EXCEPT !.contracts = Insert(@, tx[h].arg.version, tx[h].arg)]
      OBVIOUS
    <3>3. IsRow(q) /\ Contiguous(q)
      BY <2>2, <3>1, <3>2, <1>8, HistoryRow
    <3>4. QED
      BY <2>3, <3>1, <3>2, <3>3, <1>7 DEF AppendContractHistory
  <2>4. CASE ReplaceContract(h)
    <3>1. tx[h].op = "contract"
      BY <2>4 DEF ReplaceContract, At
    <3>2. PICK q : q = [tx[h].row EXCEPT !.contract = tx[h].arg]
      OBVIOUS
    <3>3. IsRow(q) /\ Contiguous(q)
      BY <2>2, <3>1, <3>2, <1>8, UpdatedRow
    <3>4. QED
      BY <2>4, <3>1, <3>2, <3>3, <1>7 DEF ReplaceContract
  <2>5. QED
    BY <1>11, <2>1, <2>3, <2>4, <1>10 DEF UpdateContract
<1>12. ASSUME NEW h \in Handles, UpdateProgress(h) PROVE TypeInv'
  <2>1. ASSUME NEW t \in Tasks, NEW v \in Versions, NEW m \in Versions, NEW r \in 0..MaxRun,
               NEW p \in Payloads,
               BeginProgress(h, t, v, [version |-> v + 1, payload |-> p, task |-> m, run |-> r])
        PROVE TypeInv'
    <3>1. [version |-> v + 1, payload |-> p, task |-> m, run |-> r] \in Progress
      BY ControlConstants DEF Progress, Versions
    <3>2. QED
      BY <2>1, <3>1, <1>6 DEF BeginProgress
  <2>2. tx[h].op = "progress" => tx[h].arg \in Progress
    BY <1>8 DEF IsTx, TxOf, Idle
  <2>3. CASE AppendProgressHistory(h)
    <3>1. tx[h].op = "progress"
      BY <2>3 DEF AppendProgressHistory, At
    <3>2. PICK q : q = [tx[h].row EXCEPT !.progresses = Insert(@, tx[h].arg.version, tx[h].arg)]
      OBVIOUS
    <3>3. IsRow(q) /\ Contiguous(q)
      BY <2>2, <3>1, <3>2, <1>8, HistoryRow
    <3>4. QED
      BY <2>3, <3>1, <3>2, <3>3, <1>7 DEF AppendProgressHistory
  <2>4. CASE ReplaceProgress(h)
    <3>1. tx[h].op = "progress"
      BY <2>4 DEF ReplaceProgress, At
    <3>2. PICK q : q = [tx[h].row EXCEPT !.progress = tx[h].arg]
      OBVIOUS
    <3>3. IsRow(q) /\ Contiguous(q)
      BY <2>2, <3>1, <3>2, <1>8, UpdatedRow
    <3>4. QED
      BY <2>4, <3>1, <3>2, <3>3, <1>7 DEF ReplaceProgress
  <2>5. QED
    BY <1>12, <2>1, <2>3, <2>4, <1>10 DEF UpdateProgress
<1>13. ASSUME NEW h \in Handles, Commit(h) PROVE TypeInv'
  <2>1. tx[h].op # "idle" /\ IsRow(tx[h].row) /\ Contiguous(tx[h].row) /\ tx[h].task \in Tasks
    BY <1>13, <1>8 DEF Commit, IsTx, TxOf, Idle
  <2>2. PICK row : row = tx[h].row
    OBVIOUS
  <2>3. PICK task \in Tasks : task = tx[h].task
    BY <2>1
  <2>4. db' = [t \in DOMAIN db \cup {task} |-> IF t = task THEN row ELSE db[t]]
    BY <1>13, <2>2, <2>3 DEF Commit, Insert
  <2>5. /\ db' = [t \in DOMAIN db' |-> db'[t]] /\ DOMAIN db' \subseteq Tasks
        /\ \A t \in DOMAIN db' : IsRow(db'[t]) /\ Contiguous(db'[t])
    BY <2>1, <2>2, <2>4 DEF TypeOK
  <2>6. \A g \in Handles : GoodTx(tx'[g])
    <3>1. SUFFICES ASSUME NEW g \in Handles PROVE GoodTx(tx'[g])
      OBVIOUS
    <3>2. CASE g = h
      <4>1. tx'[g] = [tx[h] EXCEPT !.stage = "done"]
        BY <1>13, <3>2 DEF Commit
      <4>2. tx[h] = [tx[h] EXCEPT !.row = tx[h].row]
        BY <2>1, <1>8 DEF IsTx, TxOf, Idle
      <4>3. [tx[h] EXCEPT !.stage = "done"] = [tx[h] EXCEPT !.row = tx[h].row, !.stage = "done"]
        BY <4>2
      <4>4. \/ tx[h].op \in {"transition", "create"}
            \/ tx[h].op \in {"contract", "progress"} /\ "done" \in VersionStages
        BY <2>1, <1>8 DEF IsTx, TxOf, Idle, VersionStages
      <4>5. GoodTx(tx[h])
        OBVIOUS
      <4>6. GoodTx([tx[h] EXCEPT !.row = tx[h].row, !.stage = "done"])
        BY <2>1, <4>4, <4>5, Advanced
      <4>7. QED
        BY <3>2, <4>1, <4>3, <4>6
    <3>3. CASE g # h /\ tx[g].op = "idle"
      BY <1>13, <3>3 DEF Commit, GoodTx, IsTx, Idle
    <3>4. CASE g # h /\ tx[g].op # "idle"
      <4>1. tx'[g] = [tx[g] EXCEPT !.fresh = FALSE]
        BY <1>13, <3>4 DEF Commit
      <4>2. GoodTx(tx[g])
        OBVIOUS
      <4>3. QED
        BY <3>4, <4>1, <4>2, Staled
    <3>5. QED
      BY <3>2, <3>3, <3>4
  <2>7. tx' = [g \in Handles |-> tx'[g]]
    BY <1>13 DEF Commit
  <2>8. \A g \in Handles : IsTx(tx'[g])
    BY <2>6 DEF GoodTx
  <2>9. QED
    BY <1>13, <2>5, <2>6, <2>7, <2>8 DEF Commit, TypeOK
<1>14. ASSUME NEW h \in Handles, Return(h) PROVE TypeInv'
  <2>1. tx[h].op # "idle" /\ IsRow(tx[h].row) /\ Contiguous(tx[h].row) /\ tx[h].task \in Tasks
    BY <1>14, <1>8 DEF Return, IsTx, TxOf, Idle
  <2>2. PICK n \in Nat : n >= 2 /\ DOMAIN tx[h].row.events = 1..n
    BY <2>1 DEF Contiguous
  <2>3. NextSequence(tx[h].row.events) - 1 = n
    BY <2>2, NextOfContiguous
  <2>4. tx[h].row.events[n] \in Event
    BY <2>1, <2>2 DEF IsRow, IsTable
  <2>5. acked' \subseteq Ack
    BY <1>14, <2>1, <2>3, <2>4 DEF Return, Ack, TypeOK
  <2>6. GoodTx(Idle)
    BY DEF GoodTx, IsTx, Idle
  <2>7. tx' = [tx EXCEPT ![h] = Idle] /\ UNCHANGED <<schema, db, open, writer>>
    BY <1>14 DEF Return
  <2>8. QED
    BY <2>5, <2>6, <2>7, TxMoved DEF TypeOK
<1>15. QED
  BY <1>1, <1>2, <1>3, <1>4, <1>5, <1>9, <1>11, <1>12, <1>13, <1>14 DEF Next

\* Every committed and every in-flight row keeps its shape, whatever the handles
\* do and wherever they fail (all of store.go, lifecycle.go and versioned.go).
THEOREM TypeCorrect == Spec => []TypeOK
<1>1. TypeInv => TypeOK
  BY DEF TypeInv
<1>2. QED
  BY TypeInit, TypeStep, <1>1, PTL DEF Spec

(***************************************************************************)
(* Ownership.  What makes it inductive: the write lock belongs to exactly  *)
(* the transaction that has written; a transaction that may still commit   *)
(* (it has written, or nobody has committed over its snapshot) works on a  *)
(* row whose owner and state are those of the committed row but for the    *)
(* statements it has executed.                                             *)
(***************************************************************************)

OwnedRow(r) == r.active <=> r.state \notin Terminal

Holding(x) == x.op # "idle" /\ x.stage \notin {"read", "done"}

MayCommit(x) == Holding(x) \/ (x.op # "idle" /\ x.stage = "read" /\ x.fresh)

InFlightCreate(x) ==
    /\ x.task \notin DOMAIN db
    /\ x.row.active /\ x.row.state = "ready"
    /\ \A t \in DOMAIN db : db[t].owner = x.row.owner => ~db[t].active

InFlightTransition(x) ==
    /\ x.task \in DOMAIN db
    /\ x.row.owner = db[x.task].owner
    /\ db[x.task].state = x.arg.expected
    /\ x.row.state = IF x.stage = "read" THEN x.arg.expected ELSE x.arg.target
    /\ x.row.active <=> x.stage # "owner"
    /\ x.stage = "owner" => x.arg.target \in Terminal

InFlightVersion(x) ==
    /\ x.task \in DOMAIN db
    /\ x.row.owner = db[x.task].owner
    /\ x.row.state = db[x.task].state
    /\ x.row.active = db[x.task].active

InFlight(x) ==
    MayCommit(x) =>
        /\ x.op = "create" => InFlightCreate(x)
        /\ x.op = "transition" => InFlightTransition(x)
        /\ x.op \in {"contract", "progress"} => InFlightVersion(x)

OwnerInv ==
    /\ \A t \in DOMAIN db : OwnedRow(db[t])
    /\ schema = 3 => OneActivePerAgent(db)
    /\ open # {} => schema = 3
    /\ \A h \in Handles : tx[h].op # "idle" => h \in open
    /\ \A h \in Handles : Holding(tx[h]) <=> writer = h
    /\ \A h \in Handles : InFlight(tx[h])

LEMMA OwnerInit == Init => OwnerInv
<1> SUFFICES ASSUME Init PROVE OwnerInv
  OBVIOUS
<1>1. \A n : \A r \in LegacyRows(n) : OwnedRow(r)
  <2>1. SUFFICES ASSUME NEW n, NEW a \in Agents, NEW ok \in BOOLEAN, NEW p \in Payloads,
                        NEW s \in LegacyStates(n)
                 PROVE  OwnedRow(LegacyRow(a, ok, p, s))
    BY DEF LegacyRows
  <2>2. LegacyRow(a, ok, p, s).active = (s \notin Terminal)
    BY DEF LegacyRow, NewRow
  <2>3. LegacyRow(a, ok, p, s).state = s
    BY DEF LegacyRow, NewRow
  <2>4. QED
    BY <2>2, <2>3 DEF OwnedRow
<1>2. \A t \in DOMAIN db : OwnedRow(db[t])
  <2>1. CASE db = EmptyTable
    BY <2>1 DEF EmptyTable
  <2>2. ASSUME NEW n, NEW T \in SUBSET Tasks, db \in [T -> LegacyRows(n)]
        PROVE \A t \in DOMAIN db : OwnedRow(db[t])
    BY <2>2, <1>1
  <2>3. QED
    BY <2>1, <2>2 DEF Init
<1>3. schema = 3 => OneActivePerAgent(db)
  BY DEF Init, OneActivePerAgent, EmptyTable
<1>4. \A h \in Handles : tx[h].op = "idle"
  BY DEF Init, Idle
<1>5. \A h \in Handles : writer # h
  BY ControlConstants DEF Init
<1>6. QED
  BY <1>2, <1>3, <1>4, <1>5 DEF OwnerInv, InFlight, Holding, MayCommit, Init

\* An operation that only moves one handle's transaction, in and out of the lock.
LEMMA OwnerMoved ==
    ASSUME TypeInv, OwnerInv, NEW h \in Handles, NEW x,
           tx' = [tx EXCEPT ![h] = x], UNCHANGED <<schema, db>>,
           open' = open \/ (x.op = "idle" /\ open' = open \ {h}),
           x.op # "idle" => h \in open',
           Holding(x) <=> writer' = h,
           \A g \in Handles : g # h => (writer' = g <=> writer = g),
           InFlight(x)
    PROVE  OwnerInv'
<1>1. \A g \in Handles : tx'[g] = IF g = h THEN x ELSE tx[g]
  BY DEF TypeInv, TypeOK
<1>2. (\A t \in DOMAIN db : OwnedRow(db[t]))' /\ (schema = 3 => OneActivePerAgent(db))'
  BY DEF OwnerInv, OneActivePerAgent
<1>3. (open # {} => schema = 3)'
  BY DEF OwnerInv
<1>4. \A g \in Handles : tx'[g].op # "idle" => g \in open'
  BY <1>1 DEF OwnerInv
<1>5. \A g \in Handles : Holding(tx'[g]) <=> writer' = g
  BY <1>1 DEF OwnerInv
<1>6. ASSUME NEW g \in Handles PROVE InFlight(tx[g])'
  <2>1. CASE g = h
    BY <1>1, <2>1 DEF InFlight, InFlightCreate, InFlightTransition, InFlightVersion
  <2>2. CASE g # h
    BY <1>1, <2>2 DEF OwnerInv, InFlight, InFlightCreate, InFlightTransition, InFlightVersion
  <2>3. QED
    BY <2>1, <2>2
<1>7. QED
  BY <1>2, <1>3, <1>4, <1>5, <1>6 DEF OwnerInv

\* A further statement of h's transaction, which holds the lock before (keeping
\* it) or takes it now.
LEMMA OwnerWrote ==
    ASSUME TypeInv, OwnerInv, NEW h \in Handles, NEW row, NEW stage,
           Write(h, row, stage), tx[h].op # "idle", stage \notin {"read", "done"},
           FirstWrite(h) \/ (UNCHANGED writer /\ Holding(tx[h])),
           InFlight([tx[h] EXCEPT !.row = row, !.stage = stage])
    PROVE  OwnerInv'
<1> DEFINE y == [tx[h] EXCEPT !.row = row, !.stage = stage]
<1>1. GoodTx(tx[h])
  BY DEF TypeInv
<1>2. PICK x : x = y
  OBVIOUS
<1>3. x.op = tx[h].op /\ x.stage = stage
  BY <1>1, <1>2 DEF GoodTx, IsTx, TxOf, Idle
<1>4. Holding(x)
  BY <1>3 DEF Holding
<1>5. tx' = [tx EXCEPT ![h] = x] /\ UNCHANGED <<schema, db>> /\ open' = open
  BY <1>2 DEF Write, TypeInv, TypeOK
<1>6. writer' = h /\ \A g \in Handles : g # h => (writer' = g <=> writer = g)
  BY ControlConstants DEF FirstWrite, OwnerInv
<1>7. h \in open
  BY DEF OwnerInv
<1>8. InFlight(x)
  BY <1>2
<1>9. QED
  BY <1>3, <1>4, <1>5, <1>6, <1>7, <1>8, OwnerMoved

LEMMA OwnerStep == TypeInv /\ OwnerInv /\ [Next]_vars => OwnerInv'
<1> SUFFICES ASSUME TypeInv, OwnerInv, [Next]_vars PROVE OwnerInv'
  OBVIOUS
<1>a. \A h \in Handles : GoodTx(tx[h])
  BY DEF TypeInv
<1>1. CASE UNCHANGED vars
  BY <1>1 DEF vars, OwnerInv, OneActivePerAgent, InFlight, InFlightCreate,
              InFlightTransition, InFlightVersion
<1>2. ASSUME NEW h \in Handles, OpenStore(h) PROVE OwnerInv'
  <2>1. DOMAIN db' = DOMAIN db
    BY <1>2 DEF OpenStore, Migrated
  <2>2. \A t \in DOMAIN db : /\ db'[t].owner = db[t].owner
                             /\ db'[t].state = db[t].state
                             /\ db'[t].active = db[t].active
    <3>1. SUFFICES ASSUME NEW t \in DOMAIN db
                   PROVE  /\ db'[t].owner = db[t].owner
                          /\ db'[t].state = db[t].state
                          /\ db'[t].active = db[t].active
      OBVIOUS
    <3>2. IsRow(db[t])
      BY DEF TypeInv, TypeOK
    <3>3. db'[t] = db[t] \/ db'[t] = MigrateRow(db[t])
      BY <1>2 DEF OpenStore, Migrated
    <3>4. QED
      BY <3>2, <3>3 DEF MigrateRow, IsRow
  <2>3. \A t \in DOMAIN db' : OwnedRow(db'[t])
    BY <2>1, <2>2 DEF OwnerInv, OwnedRow
  <2>4. OneActivePerAgent(db')
    BY <1>2, <2>1, <2>2 DEF OpenStore, OneActivePerAgent
  <2>5. schema' = 3 /\ UNCHANGED <<writer, tx>> /\ open' = open \cup {h}
    BY <1>2 DEF OpenStore
  <2>6. \A g \in Handles : InFlight(tx[g])'
    BY <2>1, <2>2, <2>5 DEF OwnerInv, InFlight, InFlightCreate, InFlightTransition,
                            InFlightVersion, MayCommit, Holding
  <2>7. QED
    BY <2>3, <2>4, <2>5, <2>6 DEF OwnerInv
<1>3. ASSUME NEW h \in Handles, Close(h) PROVE OwnerInv'
  BY <1>3 DEF Close, OwnerInv, OneActivePerAgent, InFlight, InFlightCreate,
              InFlightTransition, InFlightVersion
<1>4. ASSUME NEW h \in Handles, Crash(h) \/ Rollback(h) \/ Return(h) PROVE OwnerInv'
  <2>1. tx' = [tx EXCEPT ![h] = Idle] /\ UNCHANGED <<schema, db>>
    BY <1>4 DEF Crash, Rollback, Return
  <2>2. open' = open \/ open' = open \ {h}
    BY <1>4 DEF Crash, Rollback, Return
  <2>3. Idle.op = "idle" /\ ~Holding(Idle) /\ InFlight(Idle)
    BY DEF Idle, Holding, InFlight, MayCommit
  <2>4. CASE Unlock(h)
    <3>1. writer' # h /\ \A g \in Handles : g # h => (writer' = g <=> writer = g)
      BY <2>4, ControlConstants DEF Unlock
    <3>2. QED
      BY <2>1, <2>2, <2>3, <3>1, OwnerMoved
  <2>5. CASE Return(h)
    <3>1. writer' # h /\ \A g \in Handles : g # h => (writer' = g <=> writer = g)
      BY <2>5 DEF Return, OwnerInv, Holding
    <3>2. QED
      BY <2>1, <2>2, <2>3, <3>1, OwnerMoved
  <2>6. QED
    BY <1>4, <2>4, <2>5 DEF Crash, Rollback
<1>5. ASSUME NEW h \in Handles, Create(h) PROVE OwnerInv'
  <2>1. PICK t \in Tasks, a \in Agents, ok \in BOOLEAN, p \in Payloads :
            CreateTask(h, t, a, FirstContract(ok, p), FirstProgress(p))
    BY <1>5 DEF Create
  <2>2. PICK x : x = [op |-> "create", task |-> t,
                      row |-> NewRow(a, FirstContract(ok, p), FirstProgress(p)),
                      fresh |-> TRUE, stage |-> "event", arg |-> a]
    OBVIOUS
  <2>3. x.row.owner = a /\ x.row.active /\ x.row.state = "ready"
    BY <2>2 DEF NewRow
  <2>4. x.op = "create" /\ x.task = t /\ x.stage = "event"
    BY <2>2
  <2>5. InFlight(x)
    BY <2>1, <2>3, <2>4 DEF CreateTask, InFlight, InFlightCreate
  <2>6. Holding(x)
    BY <2>4 DEF Holding
  <2>7. /\ tx' = [tx EXCEPT ![h] = x] /\ UNCHANGED <<schema, db, open>>
        /\ writer' = h /\ writer = NoHandle /\ h \in open
    BY <2>1, <2>2 DEF CreateTask, Ready
  <2>8. \A g \in Handles : g # h => (writer' = g <=> writer = g)
    BY <2>7, ControlConstants
  <2>9. QED
    BY <2>4, <2>5, <2>6, <2>7, <2>8, OwnerMoved
<1>6. ASSUME NEW h \in Handles, NEW op, NEW t, NEW arg, Begin(h, op, t, arg),
             \/ /\ op = "transition" /\ db[t].state = arg.expected
                /\ arg.expected \notin Terminal
             \/ op \in {"contract", "progress"}
      PROVE OwnerInv'
  <2>1. PICK x : x = [op |-> op, task |-> t, row |-> db[t], fresh |-> TRUE,
                      stage |-> "read", arg |-> arg]
    OBVIOUS
  <2>2. /\ x.op = op /\ x.task = t /\ x.row = db[t] /\ x.stage = "read" /\ x.arg = arg
    BY <2>1
  <2>3. /\ tx' = [tx EXCEPT ![h] = x] /\ UNCHANGED <<schema, db, open, writer>>
        /\ h \in open /\ t \in DOMAIN db /\ tx[h].op = "idle"
    BY <1>6, <2>1 DEF Begin, Ready
  <2>4. OwnedRow(db[t])
    BY <2>3 DEF OwnerInv
  <2>5. InFlight(x)
    BY <1>6, <2>2, <2>3, <2>4 DEF InFlight, InFlightTransition, InFlightVersion, OwnedRow
  <2>6. ~Holding(x) /\ writer # h
    BY <2>2, <2>3 DEF Holding, OwnerInv
  <2>7. QED
    BY <2>2, <2>3, <2>5, <2>6, OwnerMoved
<1>7. ASSUME NEW h \in Handles, Transition(h) PROVE OwnerInv'
  <2>1. ASSUME NEW t \in Tasks, NEW s \in States, NEW g \in States, BeginTransition(h, t, s, g)
        PROVE OwnerInv'
    BY <2>1, <1>6, AllowedEvents DEF BeginTransition
  <2>2. tx[h].op = "transition" =>
            /\ tx[h] \in [op: {"transition"}, task: Tasks, row: {tx[h].row}, fresh: BOOLEAN,
                          stage: {"read", "state", "event", "owner", "done"},
                          arg: [expected: States, target: States]]
            /\ IsRow(tx[h].row)
    BY <1>a DEF GoodTx, IsTx, TxOf, Idle
  <2>3. ASSUME NEW row, NEW stage, tx[h].op = "transition",
               MayCommit(tx[h]), row.owner = tx[h].row.owner,
               row.state = tx[h].arg.target, row.active = (stage # "owner"),
               stage \in {"state", "event", "owner"},
               stage = "owner" => tx[h].arg.target \in Terminal
        PROVE InFlight([tx[h] EXCEPT !.row = row, !.stage = stage])
    <3>1. PICK y : y = [tx[h] EXCEPT !.row = row, !.stage = stage]
      OBVIOUS
    <3>2. /\ y.op = "transition" /\ y.task = tx[h].task /\ y.arg = tx[h].arg
          /\ y.row = row /\ y.stage = stage
      BY <2>2, <2>3, <3>1
    <3>3. InFlightTransition(tx[h])
      BY <2>3 DEF OwnerInv, InFlight
    <3>4. InFlightTransition(y)
      BY <2>3, <3>2, <3>3 DEF InFlightTransition
    <3>5. QED
      BY <3>1, <3>2, <3>4 DEF InFlight
  <2>4. ASSUME tx[h].op = "transition", MayCommit(tx[h])
        PROVE  InFlightTransition(tx[h])
    BY <2>4 DEF OwnerInv, InFlight
  <2>5. CASE UpdateState(h)
    <3>1. tx[h].op = "transition" /\ tx[h].stage = "read" /\ FirstWrite(h)
      BY <2>5 DEF UpdateState, At
    <3>2. MayCommit(tx[h])
      BY <3>1 DEF MayCommit, FirstWrite
    <3>3. PICK q : q = [tx[h].row EXCEPT !.state = tx[h].arg.target]
      OBVIOUS
    <3>4. q.owner = tx[h].row.owner /\ q.state = tx[h].arg.target /\ q.active = tx[h].row.active
      BY <2>2, <3>1, <3>3 DEF IsRow
    <3>5. tx[h].row.active = TRUE
      BY <2>2, <2>4, <3>1, <3>2 DEF InFlightTransition, IsRow
    <3>6. InFlight([tx[h] EXCEPT !.row = q, !.stage = "state"])
      BY <2>3, <3>1, <3>2, <3>4, <3>5
    <3>7. Write(h, q, "state")
      BY <2>5, <3>3 DEF UpdateState
    <3>8. QED
      BY <3>1, <3>6, <3>7, OwnerWrote
  <2>6. CASE AppendTransitionEvent(h)
    <3>1. tx[h].op = "transition" /\ tx[h].stage = "state" /\ UNCHANGED writer
      BY <2>6 DEF AppendTransitionEvent, At
    <3>2. Holding(tx[h]) /\ MayCommit(tx[h])
      BY <3>1 DEF MayCommit, Holding
    <3>3. PICK q : q = AppendEvent(tx[h].row, EventOf[tx[h].arg.expected][tx[h].arg.target], 0)
      OBVIOUS
    <3>4. q.owner = tx[h].row.owner /\ q.state = tx[h].row.state /\ q.active = tx[h].row.active
      BY <2>2, <3>1, <3>3 DEF IsRow, AppendEvent
    <3>5. tx[h].row.active = TRUE /\ tx[h].row.state = tx[h].arg.target
      BY <2>2, <2>4, <3>1, <3>2 DEF InFlightTransition, IsRow
    <3>6. InFlight([tx[h] EXCEPT !.row = q, !.stage = "event"])
      BY <2>3, <3>1, <3>2, <3>4, <3>5
    <3>7. Write(h, q, "event")
      BY <2>6, <3>3 DEF AppendTransitionEvent
    <3>8. QED
      BY <3>1, <3>2, <3>6, <3>7, OwnerWrote
  <2>7. CASE ReleaseOwner(h)
    <3>1. /\ tx[h].op = "transition" /\ tx[h].stage = "event" /\ UNCHANGED writer
          /\ tx[h].arg.target \in Terminal
      BY <2>7 DEF ReleaseOwner, At
    <3>2. Holding(tx[h]) /\ MayCommit(tx[h])
      BY <3>1 DEF MayCommit, Holding
    <3>3. PICK q : q = [tx[h].row EXCEPT !.active = FALSE]
      OBVIOUS
    <3>4. q.owner = tx[h].row.owner /\ q.state = tx[h].row.state /\ q.active = FALSE
      BY <2>2, <3>1, <3>3 DEF IsRow
    <3>5. tx[h].row.state = tx[h].arg.target
      BY <2>4, <3>1, <3>2 DEF InFlightTransition
    <3>6. InFlight([tx[h] EXCEPT !.row = q, !.stage = "owner"])
      BY <2>3, <3>1, <3>2, <3>4, <3>5
    <3>7. Write(h, q, "owner")
      BY <2>7, <3>3 DEF ReleaseOwner
    <3>8. QED
      BY <3>1, <3>2, <3>6, <3>7, OwnerWrote
  <2>8. QED
    BY <1>7, <2>1, <2>5, <2>6, <2>7 DEF Transition
<1>8. ASSUME NEW h \in Handles, NEW row, NEW stage, Write(h, row, stage),
             tx[h].op \in {"contract", "progress"}, stage \in {"history", "current", "event"},
             tx[h].stage \notin {"done"}, FirstWrite(h) \/ (UNCHANGED writer /\ Holding(tx[h])),
             row.owner = tx[h].row.owner, row.state = tx[h].row.state,
             row.active = tx[h].row.active
      PROVE OwnerInv'
  <2>1. MayCommit(tx[h])
    BY <1>8 DEF MayCommit, Holding, FirstWrite
  <2>2. InFlightVersion(tx[h])
    BY <1>8, <2>1 DEF OwnerInv, InFlight
  <2>3. PICK y : y = [tx[h] EXCEPT !.row = row, !.stage = stage]
    OBVIOUS
  <2>4. y.op = tx[h].op /\ y.task = tx[h].task /\ y.row = row
    BY <1>8, <1>a, <2>3 DEF GoodTx, IsTx, TxOf, Idle
  <2>5. InFlightVersion(y)
    BY <1>8, <2>2, <2>4 DEF InFlightVersion
  <2>6. InFlight([tx[h] EXCEPT !.row = row, !.stage = stage])
    BY <1>8, <2>3, <2>4, <2>5 DEF InFlight
  <2>7. QED
    BY <1>8, <2>6, OwnerWrote
<1>9. \A h \in Handles : tx[h].op # "idle" => IsRow(tx[h].row)
  BY <1>a DEF GoodTx, IsTx, TxOf, Idle
<1>10. ASSUME NEW h \in Handles, NEW op \in {"contract", "progress"}, NEW type,
              AppendVersionEvent(h, op, type)
       PROVE OwnerInv'
  <2>1. tx[h].op = op /\ tx[h].stage = "current" /\ UNCHANGED writer
    BY <1>10 DEF AppendVersionEvent, At
  <2>2. PICK q : q = AppendEvent(tx[h].row, type, tx[h].arg.version)
    OBVIOUS
  <2>3. q.owner = tx[h].row.owner /\ q.state = tx[h].row.state /\ q.active = tx[h].row.active
    BY <2>1, <2>2, <1>9 DEF IsRow, AppendEvent
  <2>4. Write(h, q, "event") /\ Holding(tx[h])
    BY <1>10, <2>1, <2>2 DEF AppendVersionEvent, Holding
  <2>5. QED
    BY <2>1, <2>3, <2>4, <1>8
<1>11. ASSUME NEW h \in Handles, UpdateContract(h) PROVE OwnerInv'
  <2>1. ASSUME NEW t \in Tasks, NEW v \in Versions, NEW p \in Payloads,
               BeginContract(h, t, v, [version |-> v + 1, schema |-> TRUE, payload |-> p])
        PROVE OwnerInv'
    BY <2>1, <1>6 DEF BeginContract
  <2>2. CASE AppendContractHistory(h)
    <3>1. tx[h].op = "contract" /\ tx[h].stage = "read" /\ FirstWrite(h)
      BY <2>2 DEF AppendContractHistory, At
    <3>2. PICK q : q = [tx[h].row EXCEPT !.contracts = Insert(@, tx[h].arg.version, tx[h].arg)]
      OBVIOUS
    <3>3. q.owner = tx[h].row.owner /\ q.state = tx[h].row.state /\ q.active = tx[h].row.active
      BY <3>1, <3>2, <1>9 DEF IsRow
    <3>4. Write(h, q, "history")
      BY <2>2, <3>2 DEF AppendContractHistory
    <3>5. QED
      BY <3>1, <3>3, <3>4, <1>8
  <2>3. CASE ReplaceContract(h)
    <3>1. tx[h].op = "contract" /\ tx[h].stage = "history" /\ UNCHANGED writer
      BY <2>3 DEF ReplaceContract, At
    <3>2. PICK q : q = [tx[h].row EXCEPT !.contract = tx[h].arg]
      OBVIOUS
    <3>3. q.owner = tx[h].row.owner /\ q.state = tx[h].row.state /\ q.active = tx[h].row.active
      BY <3>1, <3>2, <1>9 DEF IsRow
    <3>4. Write(h, q, "current") /\ Holding(tx[h])
      BY <2>3, <3>1, <3>2 DEF ReplaceContract, Holding
    <3>5. QED
      BY <3>1, <3>3, <3>4, <1>8
  <2>4. QED
    BY <1>11, <2>1, <2>2, <2>3, <1>10 DEF UpdateContract
<1>12. ASSUME NEW h \in Handles, UpdateProgress(h) PROVE OwnerInv'
  <2>1. ASSUME NEW t \in Tasks, NEW v \in Versions, NEW m \in Versions, NEW r \in 0..MaxRun,
               NEW p \in Payloads,
               BeginProgress(h, t, v, [version |-> v + 1, payload |-> p, task |-> m, run |-> r])
        PROVE OwnerInv'
    BY <2>1, <1>6 DEF BeginProgress
  <2>2. CASE AppendProgressHistory(h)
    <3>1. tx[h].op = "progress" /\ tx[h].stage = "read" /\ FirstWrite(h)
      BY <2>2 DEF AppendProgressHistory, At
    <3>2. PICK q : q = [tx[h].row EXCEPT !.progresses = Insert(@, tx[h].arg.version, tx[h].arg)]
      OBVIOUS
    <3>3. q.owner = tx[h].row.owner /\ q.state = tx[h].row.state /\ q.active = tx[h].row.active
      BY <3>1, <3>2, <1>9 DEF IsRow
    <3>4. Write(h, q, "history")
      BY <2>2, <3>2 DEF AppendProgressHistory
    <3>5. QED
      BY <3>1, <3>3, <3>4, <1>8
  <2>3. CASE ReplaceProgress(h)
    <3>1. tx[h].op = "progress" /\ tx[h].stage = "history" /\ UNCHANGED writer
      BY <2>3 DEF ReplaceProgress, At
    <3>2. PICK q : q = [tx[h].row EXCEPT !.progress = tx[h].arg]
      OBVIOUS
    <3>3. q.owner = tx[h].row.owner /\ q.state = tx[h].row.state /\ q.active = tx[h].row.active
      BY <3>1, <3>2, <1>9 DEF IsRow
    <3>4. Write(h, q, "current") /\ Holding(tx[h])
      BY <2>3, <3>1, <3>2 DEF ReplaceProgress, Holding
    <3>5. QED
      BY <3>1, <3>3, <3>4, <1>8
  <2>4. QED
    BY <1>12, <2>1, <2>2, <2>3, <1>10 DEF UpdateProgress
<1>13. ASSUME NEW h \in Handles, Commit(h) PROVE OwnerInv'
  <2> DEFINE task == tx[h].task
             row == tx[h].row
  <2>1. db' = [t \in DOMAIN db \cup {task} |-> IF t = task THEN row ELSE db[t]]
    BY <1>13 DEF Commit, Insert
  <2>2. Holding(tx[h]) /\ writer = h
    BY <1>13 DEF Commit, Written, At, Holding, OwnerInv
  <2>3. \A g \in Handles : g # h => ~Holding(tx[g])
    BY <2>2 DEF OwnerInv
  <2>4. h \in open /\ schema = 3
    BY <2>2 DEF OwnerInv, Holding
  <2>5. /\ tx[h].op = "create" => InFlightCreate(tx[h])
        /\ tx[h].op = "transition" => InFlightTransition(tx[h])
        /\ tx[h].op \in {"contract", "progress"} => InFlightVersion(tx[h])
        /\ tx[h].op \in {"create", "transition", "contract", "progress"}
    BY <2>2, <1>13 DEF OwnerInv, InFlight, MayCommit, Commit, Written, At
  <2>6. IsRow(row)
    BY <2>2, <1>9 DEF Holding
  <2>7. OwnedRow(row)
    <3>1. CASE tx[h].op = "create"
      BY <2>5, <3>1 DEF InFlightCreate, OwnedRow, Terminal
    <3>2. CASE tx[h].op = "transition"
      BY <1>13, <2>5, <3>2 DEF InFlightTransition, OwnedRow, Commit, Written, At
    <3>3. CASE tx[h].op \in {"contract", "progress"}
      BY <2>5, <3>3 DEF InFlightVersion, OwnedRow, OwnerInv
    <3>4. QED
      BY <2>5, <3>1, <3>2, <3>3
  <2>8. \A t \in DOMAIN db : t # task /\ db[t].owner = row.owner /\ row.active => ~db[t].active
    <3>1. CASE tx[h].op = "create"
      BY <2>5, <3>1 DEF InFlightCreate
    <3>2. CASE tx[h].op = "transition"
      <4>1. /\ task \in DOMAIN db /\ row.owner = db[task].owner
            /\ db[task].state = tx[h].arg.expected
        BY <2>5, <3>2 DEF InFlightTransition
      <4>2. tx[h].arg.expected \notin Terminal
        <5>1. /\ tx[h].arg \in [expected: States, target: States]
              /\ Allowed(tx[h].arg.expected, tx[h].arg.target)
          BY <1>a, <3>2 DEF GoodTx, IsTx, TxOf, Idle
        <5>2. PICK from \in States, to \in States :
                 from = tx[h].arg.expected /\ to = tx[h].arg.target
          BY <5>1
        <5>3. Allowed(from, to)
          BY <5>1, <5>2
        <5>4. QED
          BY <5>2, <5>3, AllowedEvents
      <4>3. db[task].active
        BY <4>1, <4>2 DEF OwnerInv, OwnedRow
      <4>4. QED
        BY <2>4, <4>1, <4>3 DEF OwnerInv, OneActivePerAgent
    <3>3. CASE tx[h].op \in {"contract", "progress"}
      BY <2>4, <2>5, <3>3 DEF InFlightVersion, OwnerInv, OneActivePerAgent
    <3>4. QED
      BY <2>5, <3>1, <3>2, <3>3
  <2>9. \A t \in DOMAIN db' : OwnedRow(db'[t])
    BY <2>1, <2>7 DEF OwnerInv
  <2>10. OneActivePerAgent(db')
    BY <2>1, <2>4, <2>8 DEF OwnerInv, OneActivePerAgent
  <2>11. writer' = NoHandle /\ UNCHANGED <<schema, open>>
    BY <1>13 DEF Commit
  <2>12. \A g \in Handles : tx'[g] =
            IF g = h THEN [tx[h] EXCEPT !.stage = "done"]
            ELSE IF tx[g].op = "idle" THEN Idle ELSE [tx[g] EXCEPT !.fresh = FALSE]
    BY <1>13 DEF Commit
  <2>13. tx[h].op # "idle"
    BY <2>2 DEF Holding
  <2>15. \A g \in Handles : ~Holding(tx'[g]) /\ ~MayCommit(tx'[g])
                            /\ (tx'[g].op # "idle" => tx[g].op # "idle")
    <3>1. SUFFICES ASSUME NEW g \in Handles
                   PROVE  /\ ~Holding(tx'[g]) /\ ~MayCommit(tx'[g])
                          /\ tx'[g].op # "idle" => tx[g].op # "idle"
      OBVIOUS
    <3>2. CASE g = h
      <4>1. PICK x : x = tx[h]
        OBVIOUS
      <4>2. PICK y : y = [x EXCEPT !.stage = "done"]
        OBVIOUS
      <4>3. y.op = x.op /\ y.stage = "done"
        BY <1>a, <2>13, <4>1, <4>2, SettledFields
      <4>4. ~Holding(y) /\ ~MayCommit(y)
        BY <4>3 DEF Holding, MayCommit
      <4>5. tx'[g] = y
        BY <2>12, <3>2, <4>1, <4>2
      <4>6. QED
        BY <2>13, <3>2, <4>4, <4>5
    <3>3. CASE g # h /\ tx[g].op = "idle"
      <4>1. tx'[g] = Idle
        BY <2>12, <3>3
      <4>2. Idle.op = "idle"
        BY DEF Idle
      <4>3. QED
        BY <4>1, <4>2 DEF Holding, MayCommit
    <3>4. CASE g # h /\ tx[g].op # "idle"
      <4>1. PICK y : y = [tx[g] EXCEPT !.fresh = FALSE]
        OBVIOUS
      <4>2. y.op = tx[g].op /\ y.stage = tx[g].stage /\ y.fresh = FALSE
        <5>1. PICK z : z = tx[g]
          OBVIOUS
        <5>2. GoodTx(z) /\ z.op # "idle" /\ y = [z EXCEPT !.fresh = FALSE]
          BY <1>a, <3>4, <4>1, <5>1
        <5>3. y.op = z.op /\ y.stage = z.stage /\ y.fresh = FALSE
          BY <5>2, SettledFields
        <5>4. QED
          BY <5>1, <5>3
      <4>3. ~Holding(y) /\ ~MayCommit(y)
        BY <2>3, <3>4, <4>2 DEF Holding, MayCommit
      <4>4. tx'[g] = y
        BY <2>12, <3>4, <4>1
      <4>5. QED
        BY <3>4, <4>3, <4>4
    <3>5. QED
      BY <3>2, <3>3, <3>4
  <2>16. \A g \in Handles : tx'[g].op # "idle" => g \in open'
    BY <2>11, <2>15 DEF OwnerInv
  <2>17. \A g \in Handles : Holding(tx'[g]) <=> writer' = g
    BY <2>11, <2>15, ControlConstants
  <2>18. \A g \in Handles : InFlight(tx[g])'
    BY <2>15 DEF InFlight
  <2>19. QED
    BY <2>4, <2>9, <2>10, <2>11, <2>16, <2>17, <2>18 DEF OwnerInv
<1>14. QED
  BY <1>1, <1>2, <1>3, <1>4, <1>5, <1>7, <1>11, <1>12, <1>13 DEF Next

\* However many handles race on the file, and wherever they fail, no agent owns two
\* unfinished tasks and a task holds its owner exactly while it is unfinished
\* (one_active_task_per_agent and the release in TransitionTask).
THEOREM OwnershipHolds == Spec => []Ownership
<1>1. OwnerInv => Ownership
  BY DEF OwnerInv, Ownership, OwnedRow
<1>2. QED
  BY TypeInit, TypeStep, OwnerInit, OwnerStep, <1>1, PTL DEF Spec

(***************************************************************************)
(* History.  Nothing in the code says that a committed row only grows: a   *)
(* commit replaces the row by the one its transaction worked on.  So       *)
(* HistoryInv says of a transaction that may still commit that its row has *)
(* the committed history, and one event more once it has appended it, and  *)
(* that its columns are the committed ones but for the one it replaces.    *)
(***************************************************************************)

Last(row) == NextSequence(row.events) - 1

\* The history of a row is what another one has, and perhaps more.
Keeps(old, new) ==
    /\ IsRestriction(old.contracts, new.contracts)
    /\ IsRestriction(old.progresses, new.progresses)
    /\ IsRestriction(old.events, new.events)

\* The stages after the event has been appended, and after the current version
\* has been replaced.
Appended == {"event", "owner"}
Replaced == {"current", "event"}

\* What the guards of UpdateContract and UpdateProgress have established.
CheckedContract(arg, old) == arg.version = old.contract.version + 1

CheckedProgress(arg, old) ==
    /\ arg.version = old.progress.version + 1
    /\ arg.task >= old.progress.task /\ arg.task <= Last(old)
    /\ arg.run >= old.progress.run

KeepsColumns(x, old) ==
    /\ x.op = "contract" => CheckedContract(x.arg, old)
    /\ x.op = "progress" => CheckedProgress(x.arg, old)
    /\ x.row.contract = IF x.op = "contract" /\ x.stage \in Replaced THEN x.arg ELSE old.contract
    /\ x.row.progress = IF x.op = "progress" /\ x.stage \in Replaced THEN x.arg ELSE old.progress

KeepsHistory(x) ==
    MayCommit(x) =>
        IF x.op = "create"
        THEN /\ x.row.contract.version = 1 /\ Last(x.row) = 2
             /\ x.row.progress.version = 0 /\ x.row.progress.task = 0 /\ x.row.progress.run = 0
        ELSE /\ Keeps(db[x.task], x.row) /\ KeepsColumns(x, db[x.task])
             /\ IF x.stage \in Appended THEN Last(x.row) = NextSequence(db[x.task].events)
                ELSE x.row.events = db[x.task].events

HistoryInv ==
    /\ schema \in {1, 2} => \A t \in DOMAIN db : /\ DOMAIN db[t].contracts = {}
                                                 /\ DOMAIN db[t].progresses = {}
    /\ \A h \in Handles : KeepsHistory(tx[h])

\* A commit leaves nobody who may commit without a new snapshot.
LEMMA CommitEnds ==
    ASSUME TypeInv, OwnerInv, NEW h \in Handles, Commit(h)
    PROVE  \A g \in Handles : /\ ~Holding(tx'[g]) /\ ~MayCommit(tx'[g])
                              /\ tx'[g].op # "idle" => tx[g].op # "idle"
<1>1. \A g \in Handles : tx'[g] =
          IF g = h THEN [tx[h] EXCEPT !.stage = "done"]
          ELSE IF tx[g].op = "idle" THEN Idle ELSE [tx[g] EXCEPT !.fresh = FALSE]
  BY DEF Commit
<1>2. /\ tx[h].op # "idle" /\ \A g \in Handles : g # h => ~Holding(tx[g])
  BY DEF Commit, Written, At, Holding, OwnerInv
<1>3. SUFFICES ASSUME NEW g \in Handles
               PROVE  /\ ~Holding(tx'[g]) /\ ~MayCommit(tx'[g])
                      /\ tx'[g].op # "idle" => tx[g].op # "idle"
  OBVIOUS
<1>4. PICK z : z = tx[g] /\ GoodTx(z)
  BY DEF TypeInv
<1>5. CASE g = h
  <2>1. PICK y : y = [z EXCEPT !.stage = "done"]
    OBVIOUS
  <2>2. y.op = z.op /\ y.stage = "done"
    BY <1>2, <1>4, <1>5, <2>1, SettledFields
  <2>3. QED
    BY <1>1, <1>2, <1>4, <1>5, <2>1, <2>2 DEF Holding, MayCommit
<1>6. CASE g # h /\ z.op = "idle"
  <2>1. tx'[g] = Idle
    BY <1>1, <1>4, <1>6
  <2>2. Idle.op = "idle"
    BY DEF Idle
  <2>3. QED
    BY <2>1, <2>2 DEF Holding, MayCommit
<1>7. CASE g # h /\ z.op # "idle"
  <2>1. PICK y : y = [z EXCEPT !.fresh = FALSE]
    OBVIOUS
  <2>2. y.op = z.op /\ y.stage = z.stage /\ y.fresh = FALSE
    BY <1>4, <1>7, <2>1, SettledFields
  <2>3. QED
    BY <1>1, <1>2, <1>4, <1>7, <2>1, <2>2 DEF Holding, MayCommit
<1>8. QED
  BY <1>5, <1>6, <1>7

\* What is known of a transaction that commits.
LEMMA CommitFacts ==
    ASSUME TypeInv, OwnerInv, NEW h \in Handles, Commit(h)
    PROVE  /\ Holding(tx[h]) /\ MayCommit(tx[h]) /\ schema = 3 /\ schema' = 3
           /\ tx[h].op \in {"create", "transition", "contract", "progress"}
           /\ tx[h].stage \in {"event", "owner"}
           /\ db' = [t \in DOMAIN db \cup {tx[h].task} |-> IF t = tx[h].task THEN tx[h].row ELSE db[t]]
           /\ tx[h].op = "create" => InFlightCreate(tx[h])
           /\ tx[h].op = "transition" => InFlightTransition(tx[h])
           /\ tx[h].op \in {"contract", "progress"} => InFlightVersion(tx[h])
<1>1. /\ tx[h].op \in {"create", "transition", "contract", "progress"}
      /\ tx[h].stage \in {"event", "owner"}
  BY DEF Commit, Written, At
<1>2. Holding(tx[h]) /\ MayCommit(tx[h])
  BY <1>1 DEF Holding, MayCommit
<1>3. h \in open /\ schema = 3 /\ schema' = 3
  BY <1>2 DEF OwnerInv, Holding, Commit
<1>4. db' = [t \in DOMAIN db \cup {tx[h].task} |-> IF t = tx[h].task THEN tx[h].row ELSE db[t]]
  BY DEF Commit, Insert
<1>5. InFlight(tx[h])
  BY DEF OwnerInv
<1>6. QED
  BY <1>1, <1>2, <1>3, <1>4, <1>5 DEF InFlight

LEMMA KeepsIsOrder ==
    \A r : Keeps(r, r) /\ \A s, t : Keeps(r, s) /\ Keeps(s, t) => Keeps(r, t)
BY DEF Keeps, IsRestriction

\* A row's last event is its log's end.
LEMMA LastOfRow ==
    \A r : IsRow(r) /\ Contiguous(r) =>
        /\ Last(r) \in Nat /\ Last(r) \in DOMAIN r.events /\ NextSequence(r.events) \notin DOMAIN r.events
        /\ r.events[Last(r)] \in Event
<1> SUFFICES ASSUME NEW r, IsRow(r), Contiguous(r)
             PROVE  /\ Last(r) \in Nat /\ Last(r) \in DOMAIN r.events
                    /\ NextSequence(r.events) \notin DOMAIN r.events /\ r.events[Last(r)] \in Event
  OBVIOUS
<1>1. PICK n \in Nat : n >= 2 /\ DOMAIN r.events = 1..n
  BY DEF Contiguous
<1>2. NextSequence(r.events) = n + 1
  BY <1>1, NextOfContiguous
<1>3. Last(r) = n
  BY <1>2 DEF Last
<1>4. QED
  BY <1>1, <1>2, <1>3 DEF IsRow, IsTable

\* INSERT of a new key keeps the table.
LEMMA InsertKeeps ==
    \A f, k, v : k \notin DOMAIN f => IsRestriction(f, Insert(f, k, v))
BY DEF Insert, IsRestriction

\* An appended event is the last one.
LEMMA AppendKeeps ==
    ASSUME NEW r, IsRow(r), Contiguous(r), NEW type, NEW version,
           [type |-> type, version |-> version] \in Event
    PROVE  LET q == AppendEvent(r, type, version)
           IN  /\ Keeps(r, q) /\ Last(q) = NextSequence(r.events)
               /\ q.contract = r.contract /\ q.progress = r.progress
<1>1. PICK n \in Nat : n >= 2 /\ DOMAIN r.events = 1..n
  BY DEF Contiguous
<1>2. NextSequence(r.events) = n + 1
  BY <1>1, NextOfContiguous
<1>3. PICK q : q = AppendEvent(r, type, version)
  OBVIOUS
<1>4. PICK e : e = [type |-> type, version |-> version]
  OBVIOUS
<1>5. PICK f : f = Insert(r.events, n + 1, e)
  OBVIOUS
<1>6. q = [r EXCEPT !.events = f]
  BY <1>2, <1>3, <1>4, <1>5 DEF AppendEvent
<1>7. /\ q.contracts = r.contracts /\ q.progresses = r.progresses /\ q.events = f
      /\ q.contract = r.contract /\ q.progress = r.progress
  BY <1>6 DEF IsRow
<1>8. DOMAIN f = 1..(n + 1) /\ IsRestriction(r.events, f)
  <2>1. DOMAIN f = DOMAIN r.events \cup {n + 1}
    BY <1>5 DEF Insert
  <2>2. 1..n \cup {n + 1} = 1..(n + 1) /\ n + 1 \notin 1..n
    OBVIOUS
  <2>3. QED
    BY <1>1, <1>5, <2>1, <2>2, InsertKeeps
<1>9. Keeps(r, q)
  BY <1>7, <1>8 DEF Keeps, IsRestriction
<1>10. Last(q) = n + 1
  <2>1. n + 1 \in Nat /\ DOMAIN q.events = 1..(n + 1)
    BY <1>7, <1>8
  <2>2. NextSequence(q.events) = (n + 1) + 1
    BY <2>1, NextOfContiguous
  <2>3. QED
    BY <2>2 DEF Last
<1>11. QED
  BY <1>2, <1>3, <1>7, <1>9, <1>10

LEMMA RowsOf ==
    ASSUME TypeInv
    PROVE  /\ \A t \in DOMAIN db : IsRow(db[t]) /\ Contiguous(db[t])
           /\ \A h \in Handles : tx[h].op # "idle" => IsRow(tx[h].row) /\ Contiguous(tx[h].row)
BY DEF TypeInv, TypeOK, GoodTx, IsTx, TxOf, Idle

LEMMA HistoryInit == Init => HistoryInv
<1> SUFFICES ASSUME Init PROVE HistoryInv
  OBVIOUS
<1>1. \A h \in Handles : ~MayCommit(tx[h])
  BY DEF Init, Idle, MayCommit, Holding
<1>2. \A n : \A r \in LegacyRows(n) : DOMAIN r.contracts = {} /\ DOMAIN r.progresses = {}
  <2>1. SUFFICES ASSUME NEW n, NEW a \in Agents, NEW ok \in BOOLEAN, NEW p \in Payloads,
                        NEW s \in LegacyStates(n), NEW r, r = LegacyRow(a, ok, p, s)
                 PROVE  DOMAIN r.contracts = {} /\ DOMAIN r.progresses = {}
    BY DEF LegacyRows
  <2>2. r.contracts = EmptyTable /\ r.progresses = EmptyTable
    BY <2>1 DEF LegacyRow, NewRow
  <2>3. QED
    BY <2>2 DEF EmptyTable
<1>3. schema \in {1, 2} =>
          \A t \in DOMAIN db : DOMAIN db[t].contracts = {} /\ DOMAIN db[t].progresses = {}
  <2>1. SUFFICES ASSUME schema \in {1, 2}, NEW t \in DOMAIN db
                 PROVE  DOMAIN db[t].contracts = {} /\ DOMAIN db[t].progresses = {}
    OBVIOUS
  <2>2. PICK n : db[t] \in LegacyRows(n)
    BY <2>1 DEF Init
  <2>3. QED
    BY <1>2, <2>2
<1>4. QED
  BY <1>1, <1>3 DEF HistoryInv, KeepsHistory

\* One handle's transaction moved, and the file did not.
LEMMA HistoryMoved ==
    ASSUME TypeInv, HistoryInv, NEW h \in Handles, NEW x, tx' = [tx EXCEPT ![h] = x],
           UNCHANGED <<schema, db>>, KeepsHistory(x)
    PROVE  HistoryInv'
<1>1. \A g \in Handles : tx'[g] = IF g = h THEN x ELSE tx[g]
  BY DEF TypeInv, TypeOK
<1>2. ASSUME NEW g \in Handles PROVE KeepsHistory(tx[g])'
  <2>1. CASE g = h
    BY <1>1, <2>1 DEF KeepsHistory
  <2>2. CASE g # h
    BY <1>1, <2>2 DEF HistoryInv, KeepsHistory
  <2>3. QED
    BY <2>1, <2>2
<1>3. QED
  BY <1>2 DEF HistoryInv

\* A statement of a transaction that may commit: it leaves the log alone, or it
\* appends the one event.
LEMMA HistoryWrote ==
    ASSUME TypeInv, HistoryInv, NEW h \in Handles, NEW row, NEW stage, Write(h, row, stage),
           tx[h].op \in {"transition", "contract", "progress"}, MayCommit(tx[h]),
           Keeps(tx[h].row, row),
           \/ row.events = tx[h].row.events /\ (stage \in Appended <=> tx[h].stage \in Appended)
           \/ /\ stage \in Appended /\ tx[h].stage \notin Appended
              /\ Last(row) = NextSequence(tx[h].row.events),
           \/ /\ row.contract = tx[h].row.contract /\ row.progress = tx[h].row.progress
              /\ tx[h].op = "transition" \/ (stage \in Replaced <=> tx[h].stage \in Replaced)
           \/ /\ stage \in Replaced /\ tx[h].op = "contract"
              /\ row.contract = tx[h].arg /\ row.progress = tx[h].row.progress
           \/ /\ stage \in Replaced /\ tx[h].op = "progress"
              /\ row.contract = tx[h].row.contract /\ row.progress = tx[h].arg
    PROVE  HistoryInv'
<1>1. PICK y : y = [tx[h] EXCEPT !.row = row, !.stage = stage]
  OBVIOUS
<1>2. tx' = [tx EXCEPT ![h] = y] /\ UNCHANGED <<schema, db>>
  BY <1>1 DEF Write, TypeInv, TypeOK
<1>3. /\ y.op = tx[h].op /\ y.task = tx[h].task /\ y.row = row /\ y.stage = stage
      /\ y.arg = tx[h].arg /\ y.op # "create"
  <2>1. GoodTx(tx[h])
    BY DEF TypeInv
  <2>2. QED
    BY <1>1, <2>1 DEF GoodTx, IsTx, TxOf, Idle
<1>4. PICK old : old = db[tx[h].task]
  OBVIOUS
<1>5. /\ Keeps(old, tx[h].row) /\ KeepsColumns(tx[h], old)
      /\ IF tx[h].stage \in Appended THEN Last(tx[h].row) = NextSequence(old.events)
         ELSE tx[h].row.events = old.events
  BY <1>4 DEF HistoryInv, KeepsHistory
<1>6. Keeps(old, row)
  BY <1>5, KeepsIsOrder
<1>7. IF stage \in Appended THEN Last(row) = NextSequence(old.events) ELSE row.events = old.events
  BY <1>5 DEF Last
<1>8. KeepsColumns(y, old)
  BY <1>3, <1>5 DEF KeepsColumns
<1>9. KeepsHistory(y)
  BY <1>3, <1>4, <1>6, <1>7, <1>8 DEF KeepsHistory
<1>10. QED
  BY <1>2, <1>9, HistoryMoved

\* The statements that update one column, and those that insert a version.
LEMMA ColumnSet ==
    ASSUME NEW r, IsRow(r)
    PROVE  /\ \A q, v : q = [r EXCEPT !.state = v] \/ q = [r EXCEPT !.active = v] =>
                  Keeps(r, q) /\ q.events = r.events /\ q.contract = r.contract /\ q.progress = r.progress
           /\ \A q, v : q = [r EXCEPT !.contract = v] =>
                  Keeps(r, q) /\ q.events = r.events /\ q.contract = v /\ q.progress = r.progress
           /\ \A q, v : q = [r EXCEPT !.progress = v] =>
                  Keeps(r, q) /\ q.events = r.events /\ q.contract = r.contract /\ q.progress = v
BY DEF IsRow, Keeps, IsRestriction

LEMMA VersionInserted ==
    ASSUME NEW r, IsRow(r), NEW q, NEW v, NEW c,
           \/ v \notin DOMAIN r.contracts /\ q = [r EXCEPT !.contracts = Insert(@, v, c)]
           \/ v \notin DOMAIN r.progresses /\ q = [r EXCEPT !.progresses = Insert(@, v, c)]
    PROVE  Keeps(r, q) /\ q.events = r.events /\ q.contract = r.contract /\ q.progress = r.progress
<1>1. CASE v \notin DOMAIN r.contracts /\ q = [r EXCEPT !.contracts = Insert(@, v, c)]
  <2>1. PICK f : f = Insert(r.contracts, v, c)
    OBVIOUS
  <2>2. /\ q.contracts = f /\ q.progresses = r.progresses /\ q.events = r.events
        /\ q.contract = r.contract /\ q.progress = r.progress
    BY <1>1, <2>1 DEF IsRow
  <2>3. IsRestriction(r.contracts, f)
    BY <1>1, <2>1, InsertKeeps
  <2>4. QED
    BY <2>2, <2>3 DEF Keeps, IsRestriction
<1>2. CASE v \notin DOMAIN r.progresses /\ q = [r EXCEPT !.progresses = Insert(@, v, c)]
  <2>1. PICK f : f = Insert(r.progresses, v, c)
    OBVIOUS
  <2>2. /\ q.progresses = f /\ q.contracts = r.contracts /\ q.events = r.events
        /\ q.contract = r.contract /\ q.progress = r.progress
    BY <1>2, <2>1 DEF IsRow
  <2>3. IsRestriction(r.progresses, f)
    BY <1>2, <2>1, InsertKeeps
  <2>4. QED
    BY <2>2, <2>3 DEF Keeps, IsRestriction
<1>3. QED
  BY <1>1, <1>2

\* A begun transaction works on the row as it is.
LEMMA HistoryBegun ==
    ASSUME TypeInv, HistoryInv, NEW h \in Handles, NEW op, NEW t, NEW arg, Begin(h, op, t, arg),
           op # "create", op = "contract" => CheckedContract(arg, db[t]),
           op = "progress" => CheckedProgress(arg, db[t])
    PROVE  HistoryInv'
<1>1. PICK x : x = [op |-> op, task |-> t, row |-> db[t], fresh |-> TRUE, stage |-> "read", arg |-> arg]
  OBVIOUS
<1>2. x.op = op /\ x.task = t /\ x.row = db[t] /\ x.stage = "read" /\ x.arg = arg
  BY <1>1
<1>3. tx' = [tx EXCEPT ![h] = x] /\ UNCHANGED <<schema, db>>
  BY <1>1 DEF Begin
<1>4. KeepsHistory(x)
  BY <1>2, KeepsIsOrder DEF KeepsHistory, KeepsColumns, Appended, Replaced
<1>5. QED
  BY <1>3, <1>4, HistoryMoved

LEMMA WriterMayCommit ==
    ASSUME NEW h \in Handles, tx[h].op # "idle",
           \/ tx[h].stage = "read" /\ FirstWrite(h)
           \/ tx[h].stage \notin {"read", "done"}
    PROVE  MayCommit(tx[h])
BY DEF MayCommit, Holding, FirstWrite

LEMMA HistoryStep == TypeInv /\ OwnerInv /\ HistoryInv /\ [Next]_vars => HistoryInv'
<1> SUFFICES ASSUME TypeInv, OwnerInv, HistoryInv, [Next]_vars PROVE HistoryInv'
  OBVIOUS
<1>a. \A h \in Handles : tx[h].op # "idle" => IsRow(tx[h].row) /\ Contiguous(tx[h].row)
  BY RowsOf
<1>1. ASSUME UNCHANGED <<schema, db, tx>> PROVE HistoryInv'
  BY <1>1 DEF HistoryInv, KeepsHistory
<1>2. ASSUME NEW h \in Handles, OpenStore(h) PROVE HistoryInv'
  <2>1. schema' = 3 /\ tx' = tx
    BY <1>2 DEF OpenStore
  <2>2. CASE schema = 3
    <3>1. db' = db
      BY <1>2, <2>2 DEF OpenStore, Migrated, TypeInv, TypeOK
    <3>2. QED
      BY <2>1, <2>2, <3>1, <1>1
  <2>3. CASE schema # 3
    <3>1. \A g \in Handles : tx'[g].op = "idle"
      BY <2>1, <2>3 DEF OwnerInv
    <3>2. \A g \in Handles : KeepsHistory(tx[g])'
      BY <3>1 DEF KeepsHistory, MayCommit, Holding
    <3>3. QED
      BY <2>1, <3>2 DEF HistoryInv
  <2>4. QED
    BY <2>2, <2>3
<1>3. ASSUME NEW h \in Handles, Crash(h) \/ Rollback(h) \/ Return(h) PROVE HistoryInv'
  <2>1. tx' = [tx EXCEPT ![h] = Idle] /\ UNCHANGED <<schema, db>>
    BY <1>3 DEF Crash, Rollback, Return
  <2>2. KeepsHistory(Idle)
    BY DEF KeepsHistory, MayCommit, Holding, Idle
  <2>3. QED
    BY <2>1, <2>2, HistoryMoved
<1>4. ASSUME NEW h \in Handles, Create(h) PROVE HistoryInv'
  <2>1. PICK t \in Tasks, a \in Agents, ok \in BOOLEAN, p \in Payloads :
            CreateTask(h, t, a, FirstContract(ok, p), FirstProgress(p))
    BY <1>4 DEF Create
  <2>2. PICK x : x = [op |-> "create", task |-> t,
                      row |-> NewRow(a, FirstContract(ok, p), FirstProgress(p)),
                      fresh |-> TRUE, stage |-> "event", arg |-> a]
    OBVIOUS
  <2>3. x.op = "create" /\ tx' = [tx EXCEPT ![h] = x] /\ UNCHANGED <<schema, db>>
    BY <2>1, <2>2 DEF CreateTask
  <2>4. /\ x.row.contract.version = 1 /\ x.row.events = CreatedEvents
        /\ x.row.progress.version = 0 /\ x.row.progress.task = 0 /\ x.row.progress.run = 0
    BY <2>2 DEF NewRow, FirstContract, FirstProgress
  <2>5. Last(x.row) = 2
    <3>1. DOMAIN x.row.events = 1..2
      BY <2>4 DEF CreatedEvents
    <3>2. 2 \in Nat /\ 2 + 1 = 3 /\ 3 - 1 = 2
      OBVIOUS
    <3>3. NextSequence(x.row.events) = 3
      BY <3>1, <3>2, NextOfContiguous
    <3>4. QED
      BY <3>2, <3>3 DEF Last
  <2>6. QED
    BY <2>3, <2>4, <2>5, HistoryMoved DEF KeepsHistory
<1>5. ASSUME NEW h \in Handles, NEW row, NEW stage, Write(h, row, stage),
             tx[h].op \in {"transition", "contract", "progress"}, MayCommit(tx[h]),
             NEW type, NEW version, row = AppendEvent(tx[h].row, type, version),
             [type |-> type, version |-> version] \in Event,
             stage = "event", tx[h].stage \notin Appended,
             tx[h].op = "transition" \/ tx[h].stage \in Replaced
      PROVE  HistoryInv'
  <2>1. /\ Keeps(tx[h].row, row) /\ Last(row) = NextSequence(tx[h].row.events)
        /\ row.contract = tx[h].row.contract /\ row.progress = tx[h].row.progress
    BY <1>5, <1>a, AppendKeeps
  <2>2. QED
    BY <1>5, <2>1, HistoryWrote DEF Appended, Replaced
<1>6. ASSUME NEW h \in Handles, Transition(h) PROVE HistoryInv'
  <2>1. ASSUME NEW t \in Tasks, NEW s \in States, NEW g \in States, BeginTransition(h, t, s, g)
        PROVE HistoryInv'
    BY <2>1, HistoryBegun DEF BeginTransition
  <2>2. CASE UpdateState(h)
    <3>1. tx[h].op = "transition" /\ tx[h].stage = "read" /\ FirstWrite(h)
      BY <2>2 DEF UpdateState, At
    <3>2. PICK q : q = [tx[h].row EXCEPT !.state = tx[h].arg.target]
      OBVIOUS
    <3>3. /\ Keeps(tx[h].row, q) /\ q.events = tx[h].row.events
          /\ q.contract = tx[h].row.contract /\ q.progress = tx[h].row.progress
      BY <1>a, <3>1, <3>2, ColumnSet
    <3>4. Write(h, q, "state") /\ MayCommit(tx[h])
      BY <2>2, <3>1, <3>2, WriterMayCommit DEF UpdateState
    <3>5. QED
      BY <3>1, <3>3, <3>4, HistoryWrote DEF Appended, Replaced
  <2>3. CASE AppendTransitionEvent(h)
    <3>1. tx[h].op = "transition" /\ tx[h].stage = "state"
      BY <2>3 DEF AppendTransitionEvent, At
    <3>2. PICK from \in States, to \in States :
              from = tx[h].arg.expected /\ to = tx[h].arg.target /\ Allowed(from, to)
      BY <3>1 DEF TypeInv, GoodTx, IsTx, TxOf, Idle
    <3>3. PICK type : type = EventOf[from][to] /\ [type |-> type, version |-> 0] \in Event
      BY <3>2, AllowedEvents
    <3>4. PICK q : q = AppendEvent(tx[h].row, type, 0)
      OBVIOUS
    <3>5. Write(h, q, "event") /\ MayCommit(tx[h])
      BY <2>3, <3>1, <3>2, <3>3, <3>4, WriterMayCommit DEF AppendTransitionEvent
    <3>6. QED
      BY <3>1, <3>3, <3>4, <3>5, <1>5 DEF Appended, Replaced
  <2>4. CASE ReleaseOwner(h)
    <3>1. tx[h].op = "transition" /\ tx[h].stage = "event"
      BY <2>4 DEF ReleaseOwner, At
    <3>2. PICK q : q = [tx[h].row EXCEPT !.active = FALSE]
      OBVIOUS
    <3>3. /\ Keeps(tx[h].row, q) /\ q.events = tx[h].row.events
          /\ q.contract = tx[h].row.contract /\ q.progress = tx[h].row.progress
      BY <1>a, <3>1, <3>2, ColumnSet
    <3>4. Write(h, q, "owner") /\ MayCommit(tx[h])
      BY <2>4, <3>1, <3>2, WriterMayCommit DEF ReleaseOwner
    <3>5. QED
      BY <3>1, <3>3, <3>4, HistoryWrote DEF Appended, Replaced
  <2>5. QED
    BY <1>6, <2>1, <2>2, <2>3, <2>4 DEF Transition
<1>7. ASSUME NEW h \in Handles, NEW op \in {"contract", "progress"}, NEW type, NEW version,
             [type |-> type, version |-> version] \in Event,
             tx[h].op = op, tx[h].stage = "current", version = tx[h].arg.version,
             AppendVersionEvent(h, op, type)
      PROVE HistoryInv'
  <2>1. PICK q : q = AppendEvent(tx[h].row, type, version)
    OBVIOUS
  <2>2. Write(h, q, "event") /\ MayCommit(tx[h])
    BY <1>7, <2>1, WriterMayCommit DEF AppendVersionEvent
  <2>3. QED
    BY <1>7, <2>1, <2>2, <1>5 DEF Appended, Replaced
<1>8. ASSUME NEW h \in Handles, UpdateContract(h) PROVE HistoryInv'
  <2>1. ASSUME NEW t \in Tasks, NEW v \in Versions, NEW p \in Payloads,
               BeginContract(h, t, v, [version |-> v + 1, schema |-> TRUE, payload |-> p])
        PROVE HistoryInv'
    BY <2>1, HistoryBegun DEF BeginContract, CheckedContract, Versions
  <2>2. CASE AppendContractHistory(h)
    <3>1. /\ tx[h].op = "contract" /\ tx[h].stage = "read" /\ FirstWrite(h)
          /\ tx[h].arg.version \notin DOMAIN tx[h].row.contracts
      BY <2>2 DEF AppendContractHistory, At
    <3>2. PICK q : q = [tx[h].row EXCEPT !.contracts = Insert(@, tx[h].arg.version, tx[h].arg)]
      OBVIOUS
    <3>3. /\ Keeps(tx[h].row, q) /\ q.events = tx[h].row.events
          /\ q.contract = tx[h].row.contract /\ q.progress = tx[h].row.progress
      BY <1>a, <3>1, <3>2, VersionInserted
    <3>4. Write(h, q, "history") /\ MayCommit(tx[h])
      BY <2>2, <3>1, <3>2, WriterMayCommit DEF AppendContractHistory
    <3>5. QED
      BY <3>1, <3>3, <3>4, HistoryWrote DEF Appended, Replaced
  <2>3. CASE ReplaceContract(h)
    <3>1. tx[h].op = "contract" /\ tx[h].stage = "history"
      BY <2>3 DEF ReplaceContract, At
    <3>2. PICK q : q = [tx[h].row EXCEPT !.contract = tx[h].arg]
      OBVIOUS
    <3>3. /\ Keeps(tx[h].row, q) /\ q.events = tx[h].row.events
          /\ q.contract = tx[h].arg /\ q.progress = tx[h].row.progress
      BY <1>a, <3>1, <3>2, ColumnSet
    <3>4. Write(h, q, "current") /\ MayCommit(tx[h])
      BY <2>3, <3>1, <3>2, WriterMayCommit DEF ReplaceContract
    <3>5. QED
      BY <3>1, <3>3, <3>4, HistoryWrote DEF Appended, Replaced
  <2>4. CASE AppendVersionEvent(h, "contract", "ContractChanged")
    <3>1. tx[h].op = "contract" /\ tx[h].stage = "current"
      BY <2>4 DEF AppendVersionEvent, At
    <3>2. PICK n \in Nat : n = tx[h].arg.version
      BY <3>1 DEF TypeInv, GoodTx, IsTx, TxOf, Idle, Contract
    <3>3. [type |-> "ContractChanged", version |-> n] \in Event
      BY DEF Event
    <3>4. QED
      BY <2>4, <3>1, <3>2, <3>3, <1>7
  <2>5. QED
    BY <1>8, <2>1, <2>2, <2>3, <2>4 DEF UpdateContract
<1>9. ASSUME NEW h \in Handles, UpdateProgress(h) PROVE HistoryInv'
  <2>1. ASSUME NEW t \in Tasks, NEW v \in Versions, NEW m \in Versions, NEW r \in 0..MaxRun,
               NEW p \in Payloads,
               BeginProgress(h, t, v, [version |-> v + 1, payload |-> p, task |-> m, run |-> r])
        PROVE HistoryInv'
    BY <2>1, HistoryBegun DEF BeginProgress, CheckedProgress, Last, Versions
  <2>2. CASE AppendProgressHistory(h)
    <3>1. /\ tx[h].op = "progress" /\ tx[h].stage = "read" /\ FirstWrite(h)
          /\ tx[h].arg.version \notin DOMAIN tx[h].row.progresses
      BY <2>2 DEF AppendProgressHistory, At
    <3>2. PICK q : q = [tx[h].row EXCEPT !.progresses = Insert(@, tx[h].arg.version, tx[h].arg)]
      OBVIOUS
    <3>3. /\ Keeps(tx[h].row, q) /\ q.events = tx[h].row.events
          /\ q.contract = tx[h].row.contract /\ q.progress = tx[h].row.progress
      BY <1>a, <3>1, <3>2, VersionInserted
    <3>4. Write(h, q, "history") /\ MayCommit(tx[h])
      BY <2>2, <3>1, <3>2, WriterMayCommit DEF AppendProgressHistory
    <3>5. QED
      BY <3>1, <3>3, <3>4, HistoryWrote DEF Appended, Replaced
  <2>3. CASE ReplaceProgress(h)
    <3>1. tx[h].op = "progress" /\ tx[h].stage = "history"
      BY <2>3 DEF ReplaceProgress, At
    <3>2. PICK q : q = [tx[h].row EXCEPT !.progress = tx[h].arg]
      OBVIOUS
    <3>3. /\ Keeps(tx[h].row, q) /\ q.events = tx[h].row.events
          /\ q.contract = tx[h].row.contract /\ q.progress = tx[h].arg
      BY <1>a, <3>1, <3>2, ColumnSet
    <3>4. Write(h, q, "current") /\ MayCommit(tx[h])
      BY <2>3, <3>1, <3>2, WriterMayCommit DEF ReplaceProgress
    <3>5. QED
      BY <3>1, <3>3, <3>4, HistoryWrote DEF Appended, Replaced
  <2>4. CASE AppendVersionEvent(h, "progress", "ProgressRefreshed")
    <3>1. tx[h].op = "progress" /\ tx[h].stage = "current"
      BY <2>4 DEF AppendVersionEvent, At
    <3>2. PICK n \in Nat : n = tx[h].arg.version
      BY <3>1 DEF TypeInv, GoodTx, IsTx, TxOf, Idle, Progress
    <3>3. [type |-> "ProgressRefreshed", version |-> n] \in Event
      BY DEF Event
    <3>4. QED
      BY <2>4, <3>1, <3>2, <3>3, <1>7
  <2>5. QED
    BY <1>9, <2>1, <2>2, <2>3, <2>4 DEF UpdateProgress
<1>10. ASSUME NEW h \in Handles, Commit(h) PROVE HistoryInv'
  <2>1. \A g \in Handles : ~MayCommit(tx'[g])
    BY <1>10, CommitEnds
  <2>2. schema' = 3
    BY <1>10, CommitFacts
  <2>3. \A g \in Handles : KeepsHistory(tx[g])'
    BY <2>1 DEF KeepsHistory
  <2>4. QED
    BY <2>2, <2>3 DEF HistoryInv
<1>11. QED
  BY <1>1, <1>2, <1>3, <1>4, <1>6, <1>8, <1>9, <1>10 DEF Next, Close, vars

-----------------------------------------------------------------------------
(* What a step does to a committed row.                                     *)

LEMMA CommitAppends ==
    ASSUME TypeInv, OwnerInv, HistoryInv, NEW h \in Handles, Commit(h)
    PROVE  AppendOnlyStep
<1> DEFINE x == tx[h]
<1>1. /\ MayCommit(x) /\ x.op \in {"create", "transition", "contract", "progress"}
      /\ db' = [t \in DOMAIN db \cup {x.task} |-> IF t = x.task THEN x.row ELSE db[t]]
      /\ x.op = "create" => InFlightCreate(x)
      /\ x.op = "transition" => InFlightTransition(x)
      /\ x.op \in {"contract", "progress"} => InFlightVersion(x)
  BY CommitFacts
<1>2. KeepsHistory(x)
  BY DEF HistoryInv
<1>3. \A t \in DOMAIN db : OwnedRow(db[t]) /\ IsRow(db[t])
  BY RowsOf DEF OwnerInv
<1>4. x.op = "transition" => db[x.task].state \notin Terminal
  <2>1. SUFFICES ASSUME x.op = "transition" PROVE db[x.task].state \notin Terminal
    OBVIOUS
  <2>2. PICK from \in States, to \in States : from = x.arg.expected /\ to = x.arg.target /\ Allowed(from, to)
    BY <2>1 DEF TypeInv, GoodTx, IsTx, TxOf, Idle
  <2>3. QED
    BY <1>1, <2>1, <2>2, AllowedEvents DEF InFlightTransition
<1> HIDE DEF x
<1>5. SUFFICES ASSUME NEW t \in DOMAIN db
               PROVE  /\ t \in DOMAIN db' /\ Keeps(db[t], db'[t]) /\ db'[t].owner = db[t].owner
                      /\ db[t].state \in Terminal => db'[t].state = db[t].state /\ ~db'[t].active
  BY DEF AppendOnlyStep, Keeps
<1>6. CASE t # x.task
  BY <1>1, <1>3, <1>6, KeepsIsOrder DEF OwnedRow
<1>7. CASE t = x.task
  <2>1. x.op # "create" /\ db'[t] = x.row /\ t \in DOMAIN db'
    BY <1>1, <1>7 DEF InFlightCreate
  <2>2. Keeps(db[t], x.row)
    BY <1>1, <1>2, <1>7, <2>1 DEF KeepsHistory
  <2>3. CASE x.op = "transition"
    BY <1>1, <1>4, <1>7, <2>1, <2>2, <2>3 DEF InFlightTransition
  <2>4. CASE x.op \in {"contract", "progress"}
    BY <1>1, <1>3, <1>7, <2>1, <2>2, <2>4 DEF InFlightVersion, OwnedRow
  <2>5. QED
    BY <1>1, <2>1, <2>3, <2>4
<1>8. QED
  BY <1>6, <1>7

\* Only OpenStore and Commit change the file.
LEMMA QuietSteps ==
    [Next]_vars => (\E h \in Handles : OpenStore(h) \/ Commit(h)) \/ UNCHANGED <<schema, db>>
<1>1. ASSUME NEW h \in Handles, Close(h) \/ Crash(h) \/ Return(h) \/ Rollback(h)
      PROVE  UNCHANGED <<schema, db>>
  BY <1>1 DEF Close, Crash, Return, Rollback
<1>2. ASSUME NEW h \in Handles, Create(h) PROVE UNCHANGED <<schema, db>>
  BY <1>2 DEF Create, CreateTask
<1>3. ASSUME NEW h \in Handles, Transition(h) PROVE UNCHANGED <<schema, db>>
  BY <1>3 DEF Transition, BeginTransition, Begin, UpdateState, AppendTransitionEvent, ReleaseOwner, Write
<1>4. ASSUME NEW h \in Handles, UpdateContract(h) PROVE UNCHANGED <<schema, db>>
  BY <1>4 DEF UpdateContract, BeginContract, Begin, AppendContractHistory, ReplaceContract,
              AppendVersionEvent, Write
<1>5. ASSUME NEW h \in Handles, UpdateProgress(h) PROVE UNCHANGED <<schema, db>>
  BY <1>5 DEF UpdateProgress, BeginProgress, Begin, AppendProgressHistory, ReplaceProgress,
              AppendVersionEvent, Write
<1>6. UNCHANGED vars => UNCHANGED <<schema, db>>
  BY DEF vars
<1>7. QED
  BY <1>1, <1>2, <1>3, <1>4, <1>5, <1>6 DEF Next

LEMMA StepAppends == TypeInv /\ OwnerInv /\ HistoryInv /\ [Next]_vars => AppendOnlyStep
<1> SUFFICES ASSUME TypeInv, OwnerInv, HistoryInv, [Next]_vars PROVE AppendOnlyStep
  OBVIOUS
<1>1. \A t \in DOMAIN db : OwnedRow(db[t]) /\ IsRow(db[t])
  BY RowsOf DEF OwnerInv
<1>2. CASE db' = db
  BY <1>1, <1>2 DEF AppendOnlyStep, OwnedRow, IsRestriction
<1>3. ASSUME NEW h \in Handles, OpenStore(h) PROVE AppendOnlyStep
  <2>1. CASE schema \notin {1, 2}
    BY <1>2, <1>3, <2>1 DEF OpenStore, Migrated, TypeInv, TypeOK
  <2>2. CASE schema \in {1, 2}
    <3>1. SUFFICES ASSUME NEW t \in DOMAIN db
                   PROVE  /\ t \in DOMAIN db' /\ Keeps(db[t], db'[t]) /\ db'[t].owner = db[t].owner
                          /\ db[t].state \in Terminal => db'[t].state = db[t].state /\ ~db'[t].active
      BY DEF AppendOnlyStep, Keeps
    <3>2. t \in DOMAIN db' /\ db'[t] = MigrateRow(db[t])
      BY <1>3, <2>2 DEF OpenStore, Migrated
    <3>3. DOMAIN db[t].contracts = {} /\ DOMAIN db[t].progresses = {}
      BY <2>2 DEF HistoryInv
    <3>4. /\ db'[t].owner = db[t].owner /\ db'[t].state = db[t].state
          /\ db'[t].active = db[t].active /\ db'[t].events = db[t].events
      BY <1>1, <3>2 DEF MigrateRow, IsRow
    <3>5. Keeps(db[t], db'[t])
      BY <3>3, <3>4 DEF Keeps, IsRestriction
    <3>6. QED
      BY <1>1, <3>2, <3>4, <3>5 DEF OwnedRow
  <2>3. QED
    BY <2>1, <2>2
<1>4. QED
  BY <1>2, <1>3, CommitAppends, QuietSteps

LEMMA HistoryInvHolds == Spec => [](TypeInv /\ OwnerInv /\ HistoryInv)
BY TypeInit, TypeStep, OwnerInit, OwnerStep, HistoryInit, HistoryStep, PTL DEF Spec

\* No commit, migration or race ever rewrites or loses a row, a version or an
\* event, and a finished task stays finished (the INSERTs of the history tables
\* and of task_events, and the checks of expected state and version).
THEOREM AppendOnlyHolds == Spec => AppendOnly
BY HistoryInvHolds, StepAppends, PTL DEF Spec, AppendOnly

(***************************************************************************)
(* What callers are told.  Reports adds to it what the callers of          *)
(* committed transactions are about to be told.                            *)
(***************************************************************************)

\* What the caller of h is told when its transaction returns.
AckOf(h, x) ==
    [handle |-> h, task |-> x.task, sequence |-> Last(x.row), event |-> x.row.events[Last(x.row)]]

Done(x) == x.op # "idle" /\ x.stage = "done"

Reports == acked \cup {AckOf(h, tx[h]) : h \in {g \in Handles : Done(tx[g])}}

Logged(r) ==
    /\ r.task \in DOMAIN db
    /\ r.sequence \in DOMAIN db[r.task].events
    /\ db[r.task].events[r.sequence] = r.event

ReportInv ==
    /\ \A r \in Reports : Logged(r)
    /\ \A r, s \in Reports : r.task = s.task /\ r.sequence = s.sequence => r = s

LEMMA ReportInit == Init => ReportInv
<1> SUFFICES ASSUME Init PROVE ReportInv
  OBVIOUS
<1>1. acked = {} /\ \A h \in Handles : ~Done(tx[h])
  BY DEF Init, Idle, Done
<1>2. QED
  BY <1>1 DEF ReportInv, Reports

\* The log only grows, so what is in it stays.
LEMMA LoggedStays ==
    ASSUME AppendOnlyStep, NEW r, Logged(r)
    PROVE  Logged(r)'
BY DEF AppendOnlyStep, IsRestriction, Logged

LEMMA ReportsKept ==
    ASSUME ReportInv, AppendOnlyStep, Reports' \subseteq Reports
    PROVE  ReportInv'
<1>1. \A r \in Reports : Logged(r)'
  BY LoggedStays DEF ReportInv
<1>2. QED
  BY <1>1 DEF ReportInv

\* A step in which no transaction commits and nobody is told anything.
LEMMA NothingReported ==
    ASSUME acked' = acked, \A h \in Handles : Done(tx'[h]) => tx'[h] = tx[h]
    PROVE  Reports' \subseteq Reports
BY DEF Reports

\* A statement of h's transaction is not its end.
LEMMA MovedReports ==
    ASSUME TypeInv, NEW h \in Handles, NEW x, tx' = [tx EXCEPT ![h] = x], acked' = acked, ~Done(x)
    PROVE  Reports' \subseteq Reports
<1>1. \A g \in Handles : tx'[g] = IF g = h THEN x ELSE tx[g]
  BY DEF TypeInv, TypeOK
<1>2. QED
  BY <1>1, NothingReported

LEMMA WroteReports ==
    ASSUME TypeInv, NEW h \in Handles, NEW row, NEW stage, Write(h, row, stage),
           tx[h].op # "idle", stage # "done"
    PROVE  Reports' \subseteq Reports
<1>1. PICK y : y = [tx[h] EXCEPT !.row = row, !.stage = stage]
  OBVIOUS
<1>2. tx' = [tx EXCEPT ![h] = y] /\ acked' = acked
  BY <1>1 DEF Write, TypeInv, TypeOK
<1>3. y.stage = stage
  <2>1. GoodTx(tx[h])
    BY DEF TypeInv
  <2>2. QED
    BY <1>1, <2>1 DEF GoodTx, IsTx, TxOf, Idle
<1>4. QED
  BY <1>2, <1>3, MovedReports DEF Done

LEMMA BegunReports ==
    ASSUME TypeInv, NEW h \in Handles, NEW op, NEW t, NEW arg, Begin(h, op, t, arg)
    PROVE  Reports' \subseteq Reports
<1>1. PICK x : x = [op |-> op, task |-> t, row |-> db[t], fresh |-> TRUE, stage |-> "read", arg |-> arg]
  OBVIOUS
<1>2. tx' = [tx EXCEPT ![h] = x] /\ acked' = acked /\ x.stage = "read"
  BY <1>1 DEF Begin
<1>3. QED
  BY <1>2, MovedReports DEF Done

\* The event of a commit is new: no report is of it.
LEMMA CommitReports ==
    ASSUME TypeInv, OwnerInv, HistoryInv, ReportInv, NEW h \in Handles, Commit(h)
    PROVE  ReportInv'
<1>1. PICK x : x = tx[h]
  OBVIOUS
<1>2. PICK y : y = [x EXCEPT !.stage = "done"]
  OBVIOUS
<1>3. /\ MayCommit(x) /\ x.op \in {"create", "transition", "contract", "progress"} /\ x.stage \in Appended
      /\ db' = [t \in DOMAIN db \cup {x.task} |-> IF t = x.task THEN x.row ELSE db[t]]
      /\ x.op = "create" => InFlightCreate(x)
      /\ KeepsHistory(x) /\ IsRow(x.row) /\ Contiguous(x.row)
  BY <1>1, CommitFacts, RowsOf DEF HistoryInv, Appended
<1>4. y.task = x.task /\ y.row = x.row /\ y.stage = "done"
  BY <1>1, <1>2, <1>3 DEF TypeInv, GoodTx, IsTx, TxOf, Idle
<1>5. /\ acked' = acked /\ tx'[h] = y
      /\ \A g \in Handles : g # h => ~Done(tx'[g]) \/ AckOf(g, tx'[g]) \in Reports
  <2>1. acked' = acked /\ tx'[h] = y
    BY <1>1, <1>2 DEF Commit
  <2>2. ASSUME NEW g \in Handles, g # h, Done(tx'[g]) PROVE AckOf(g, tx'[g]) \in Reports
    <3>1. PICK z : z = tx[g] /\ GoodTx(z)
      BY DEF TypeInv
    <3>2. z.op # "idle" /\ tx'[g] = [z EXCEPT !.fresh = FALSE]
      <4>1. Idle.op = "idle"
        BY DEF Idle
      <4>2. QED
        BY <2>2, <3>1, <4>1 DEF Commit, Done
    <3>3. PICK w : w = [z EXCEPT !.fresh = FALSE]
      OBVIOUS
    <3>4. w.op = z.op /\ w.stage = z.stage /\ w.task = z.task /\ w.row = z.row
      BY <3>1, <3>2, <3>3 DEF GoodTx, IsTx, TxOf, Idle
    <3>5. Done(z) /\ AckOf(g, w) = AckOf(g, z)
      BY <2>2, <3>2, <3>3, <3>4 DEF Done, AckOf
    <3>6. QED
      BY <3>1, <3>2, <3>3, <3>5 DEF Reports
  <2>3. QED
    BY <2>1, <2>2
<1>6. PICK new : new = AckOf(h, y)
  OBVIOUS
<1>7. Reports' \subseteq Reports \cup {new}
  <2>1. ASSUME NEW r \in Reports', r \notin acked PROVE r \in Reports \cup {new}
    <3>1. PICK g \in Handles : Done(tx'[g]) /\ r = AckOf(g, tx'[g])
      BY <1>5, <2>1 DEF Reports
    <3>2. QED
      BY <1>5, <1>6, <3>1
  <2>2. QED
    BY <2>1 DEF Reports
<1>8. /\ new.task = x.task /\ new.sequence = Last(x.row)
      /\ new.event = x.row.events[Last(x.row)]
  BY <1>4, <1>6 DEF AckOf
<1>9. Logged(new)'
  <2>1. Last(x.row) \in DOMAIN x.row.events
    BY <1>3, LastOfRow
  <2>2. x.task \in DOMAIN db' /\ db'[x.task] = x.row
    BY <1>3
  <2>3. QED
    BY <1>8, <2>1, <2>2 DEF Logged
<1>10. \A r \in Reports : ~(r.task = new.task /\ r.sequence = new.sequence)
  <2>1. SUFFICES ASSUME NEW r \in Reports, r.task = x.task, r.sequence = Last(x.row) PROVE FALSE
    BY <1>8
  <2>2. x.task \in DOMAIN db /\ Last(x.row) \in DOMAIN db[x.task].events
    BY <2>1 DEF ReportInv, Logged
  <2>3. NextSequence(db[x.task].events) \notin DOMAIN db[x.task].events
    BY <2>2, RowsOf, LastOfRow
  <2>4. QED
    BY <1>3, <2>2, <2>3 DEF InFlightCreate, KeepsHistory
<1>11. \A r \in Reports : Logged(r)'
  BY CommitAppends, LoggedStays DEF ReportInv
<1>12. \A r \in Reports' : Logged(r)'
  BY <1>7, <1>9, <1>11
<1>13. \A r, s \in Reports' : r.task = s.task /\ r.sequence = s.sequence => r = s
  BY <1>7, <1>10 DEF ReportInv
<1>14. QED
  BY <1>12, <1>13 DEF ReportInv

LEMMA ReportStep == TypeInv /\ OwnerInv /\ HistoryInv /\ ReportInv /\ [Next]_vars => ReportInv'
<1> SUFFICES ASSUME TypeInv, OwnerInv, HistoryInv, ReportInv, [Next]_vars PROVE ReportInv'
  OBVIOUS
<1>1. AppendOnlyStep
  BY StepAppends
<1>2. SUFFICES (\E h \in Handles : Commit(h)) \/ Reports' \subseteq Reports
  BY <1>1, ReportsKept, CommitReports
<1>3. CASE UNCHANGED <<tx, acked>>
  BY <1>3, NothingReported
<1>4. ASSUME NEW h \in Handles, Crash(h) \/ Rollback(h) PROVE Reports' \subseteq Reports
  <2>1. tx' = [tx EXCEPT ![h] = Idle] /\ acked' = acked /\ ~Done(Idle)
    BY <1>4 DEF Crash, Rollback, Done, Idle
  <2>2. QED
    BY <2>1, MovedReports
<1>5. ASSUME NEW h \in Handles, Return(h) PROVE Reports' \subseteq Reports
  <2>1. tx' = [tx EXCEPT ![h] = Idle] /\ Done(tx[h]) /\ acked' = acked \cup {AckOf(h, tx[h])}
    BY <1>5 DEF Return, Done, AckOf, Last
  <2>2. \A g \in Handles : Done(tx'[g]) => tx'[g] = tx[g]
    BY <2>1 DEF TypeInv, TypeOK, Done, Idle
  <2>3. QED
    BY <2>1, <2>2 DEF Reports
<1>6. ASSUME NEW h \in Handles, Create(h) PROVE Reports' \subseteq Reports
  <2>1. PICK t \in Tasks, a \in Agents, ok \in BOOLEAN, p \in Payloads :
            CreateTask(h, t, a, FirstContract(ok, p), FirstProgress(p))
    BY <1>6 DEF Create
  <2>2. PICK x : x = [op |-> "create", task |-> t,
                      row |-> NewRow(a, FirstContract(ok, p), FirstProgress(p)),
                      fresh |-> TRUE, stage |-> "event", arg |-> a]
    OBVIOUS
  <2>3. x.stage = "event" /\ tx' = [tx EXCEPT ![h] = x] /\ acked' = acked
    BY <2>1, <2>2 DEF CreateTask
  <2>4. QED
    BY <2>3, MovedReports DEF Done
<1>7. ASSUME NEW h \in Handles, Transition(h) PROVE Reports' \subseteq Reports
  BY <1>7, BegunReports, WroteReports
     DEF Transition, BeginTransition, UpdateState, AppendTransitionEvent, ReleaseOwner, At
<1>8. ASSUME NEW h \in Handles, UpdateContract(h) PROVE Reports' \subseteq Reports
  BY <1>8, BegunReports, WroteReports
     DEF UpdateContract, BeginContract, AppendContractHistory, ReplaceContract, AppendVersionEvent, At
<1>9. ASSUME NEW h \in Handles, UpdateProgress(h) PROVE Reports' \subseteq Reports
  <2>1. CASE \E t \in Tasks, v, m \in Versions, r \in 0..MaxRun, p \in Payloads :
                 BeginProgress(h, t, v, [version |-> v + 1, payload |-> p, task |-> m, run |-> r])
    BY <2>1, BegunReports DEF BeginProgress
  <2>2. CASE AppendProgressHistory(h) \/ ReplaceProgress(h)
    BY <2>2, WroteReports DEF AppendProgressHistory, ReplaceProgress, At
  <2>3. CASE AppendVersionEvent(h, "progress", "ProgressRefreshed")
    BY <2>3, WroteReports DEF AppendVersionEvent, At
  <2>4. QED
    BY <1>9, <2>1, <2>2, <2>3 DEF UpdateProgress
<1>10. QED
  BY <1>3, <1>4, <1>5, <1>6, <1>7, <1>8, <1>9 DEF Next, OpenStore, Close, vars

\* Whatever a caller was told succeeded is in the committed log for good, and no
\* two callers were told of the same event: of racing updates from one expected
\* version one at most is reported (the return of each operation after its commit).
THEOREM AckedIsDurableHolds == Spec => []AckedIsDurable
<1>1. ReportInv => AckedIsDurable
  <2>1. acked \subseteq Reports
    BY DEF Reports
  <2>2. QED
    BY <2>1 DEF ReportInv, Logged, AckedIsDurable
<1>2. QED
  BY <1>1, HistoryInvHolds, ReportInit, ReportStep, PTL DEF Spec

(***************************************************************************)
(* The ledger.  Only OpenStore and Commit are seen in it.                  *)
(***************************************************************************)

Kept == IF schema = 3 THEN DOMAIN db ELSE {}

LedgerOf == [t \in Kept |-> LedgerRow(db[t])]

\* A commit puts the row of its transaction into the ledger.
LEMMA CommitPuts ==
    ASSUME TypeInv, OwnerInv, NEW h \in Handles, Commit(h)
    PROVE  Ledger!Put(tx[h].task, LedgerRow(tx[h].row))
<1>1. PICK task, row : task = tx[h].task /\ row = tx[h].row
  OBVIOUS
<1>2. /\ schema = 3 /\ schema' = 3
      /\ db' = [t \in DOMAIN db \cup {task} |-> IF t = task THEN row ELSE db[t]]
  BY <1>1, CommitFacts
<1>3. LedgerOf' = [t \in DOMAIN db' |-> LedgerRow(db'[t])]
  BY <1>2 DEF LedgerOf, Kept, LedgerRow
<1>4. LedgerOf = [t \in DOMAIN db |-> LedgerRow(db[t])]
  BY <1>2 DEF LedgerOf, Kept
<1>5. LedgerOf' = [u \in DOMAIN LedgerOf \cup {task} |-> IF u = task THEN LedgerRow(row) ELSE LedgerOf[u]]
  BY <1>2, <1>3, <1>4
<1>6. Ledger!Put(task, LedgerRow(row))
  BY <1>2, <1>5 DEF Ledger!Put, LedgerOf, Kept
<1>7. QED
  BY <1>1, <1>6

LEMMA CommitRefines ==
    ASSUME TypeInv, OwnerInv, HistoryInv, NEW h \in Handles, Commit(h)
    PROVE  Ledger!LNext
<1>1. PICK x : x = tx[h]
  OBVIOUS
<1>2. PICK t : t = x.task
  OBVIOUS
<1>3. PICK new : new = LedgerRow(x.row)
  OBVIOUS
<1>4. PICK old : old = LedgerRow(db[t])
  OBVIOUS
<1>5. /\ schema = 3 /\ MayCommit(x) /\ x.op \in {"create", "transition", "contract", "progress"}
      /\ x.stage \in {"event", "owner"} /\ KeepsHistory(x)
      /\ x.op = "create" => InFlightCreate(x)
      /\ x.op = "transition" => InFlightTransition(x)
      /\ x.op \in {"contract", "progress"} => InFlightVersion(x)
  BY <1>1, CommitFacts DEF HistoryInv
<1>6. Ledger!Put(t, new)
  BY <1>1, <1>2, <1>3, CommitPuts
<1>7. GoodTx(x) /\ t \in Tasks /\ IsRow(x.row)
  BY <1>1, <1>2, <1>5 DEF TypeInv, GoodTx, IsTx, TxOf, Idle
<1>8. DOMAIN LedgerOf = DOMAIN db /\ \A u \in DOMAIN db : LedgerOf[u] = LedgerRow(db[u])
  BY <1>5 DEF LedgerOf, Kept
<1>9. /\ new.state = x.row.state /\ new.length = Last(x.row)
      /\ new = [state |-> new.state, owner |-> x.row.owner, contract |-> x.row.contract.version,
                progress |-> x.row.progress.version, task |-> x.row.progress.task,
                run |-> x.row.progress.run, length |-> new.length]
  BY <1>3 DEF LedgerRow, Last
<1>10. t \in DOMAIN db => old = [state |-> db[t].state, owner |-> db[t].owner,
                contract |-> db[t].contract.version, progress |-> db[t].progress.version,
                task |-> db[t].progress.task, run |-> db[t].progress.run, length |-> Last(db[t])]
  BY <1>4 DEF LedgerRow, Last
<1>11. CASE x.op = "create"
  <2>1. t \notin DOMAIN LedgerOf /\ x.row.owner \in Agents
    BY <1>2, <1>5, <1>7, <1>8, <1>11 DEF InFlightCreate, IsRow
  <2>2. \A u \in DOMAIN db : db[u].owner = x.row.owner => db[u].state \in Terminal
    BY <1>5, <1>11 DEF InFlightCreate, OwnerInv, OwnedRow
  <2>3. \A u \in DOMAIN LedgerOf : LedgerOf[u].owner = x.row.owner => LedgerOf[u].state \in Ledger!Finished
    BY <1>8, <2>2 DEF LedgerRow, Terminal, Ledger!Finished
  <2>4. Ledger!Unfinished(LedgerOf, x.row.owner) = {}
    BY <2>3 DEF Ledger!Unfinished
  <2>5. new = [state |-> "ready", owner |-> x.row.owner, contract |-> 1, progress |-> 0,
               task |-> 0, run |-> 0, length |-> 2]
    BY <1>5, <1>9, <1>11 DEF InFlightCreate, KeepsHistory
  <2>6. Ledger!Create(t, x.row.owner)
    BY <1>6, <2>1, <2>4, <2>5 DEF Ledger!Create, LedgerOf, Kept
  <2>7. QED
    BY <1>7, <2>1, <2>6 DEF Ledger!LNext
<1>12. CASE x.op # "create"
  <2>1. t \in DOMAIN db /\ t \in DOMAIN LedgerOf /\ LedgerOf[t] = old
    BY <1>2, <1>4, <1>5, <1>8, <1>12 DEF InFlightTransition, InFlightVersion
  <2>2. /\ x.row.owner = db[t].owner /\ KeepsColumns(x, db[t]) /\ Last(x.row) = Last(db[t]) + 1
    <3>1. x.row.owner = db[t].owner
      BY <1>2, <1>5, <1>12 DEF InFlightTransition, InFlightVersion
    <3>2. KeepsColumns(x, db[t]) /\ Last(x.row) = NextSequence(db[t].events)
      BY <1>2, <1>5, <1>12 DEF KeepsHistory, Appended
    <3>3. Last(db[t]) \in Nat /\ NextSequence(db[t].events) = Last(db[t]) + 1
      <4>1. PICK n \in Nat : n >= 2 /\ DOMAIN db[t].events = 1..n
        BY <2>1, RowsOf DEF Contiguous
      <4>2. NextSequence(db[t].events) = n + 1
        BY <4>1, NextOfContiguous
      <4>3. QED
        BY <4>2 DEF Last
    <3>4. QED
      BY <3>1, <3>2, <3>3
  <2>3. PICK s, o, c, p, k, r, n :
            /\ s = db[t].state /\ o = db[t].owner /\ c = db[t].contract.version
            /\ p = db[t].progress.version /\ k = db[t].progress.task
            /\ r = db[t].progress.run /\ n = Last(db[t])
    OBVIOUS
  <2>4. old = [state |-> s, owner |-> o, contract |-> c, progress |-> p, task |-> k, run |-> r, length |-> n]
    BY <1>10, <2>1, <2>3
  <2>5. CASE x.op = "transition"
    <3>1. PICK from \in States, to \in States : from = x.arg.expected /\ to = x.arg.target /\ Allowed(from, to)
      BY <1>7, <2>5 DEF GoodTx, IsTx, TxOf, Idle
    <3>2. old.state = from /\ new.state = to
      BY <1>2, <1>5, <1>9, <1>10, <2>1, <2>5, <3>1 DEF InFlightTransition
    <3>3. to \in Ledger!Successors[from] /\ to \in DOMAIN Ledger!Successors
      BY <3>1 DEF Allowed, EventOf, States, Ledger!Successors
    <3>4. new = [state |-> to, owner |-> o, contract |-> c, progress |-> p, task |-> k, run |-> r,
                 length |-> n + 1]
      BY <1>9, <2>2, <2>3, <2>5, <3>2 DEF KeepsColumns
    <3>5. new = [old EXCEPT !.state = to, !.length = @ + 1]
      <4>1. PICK m : m = n + 1
        OBVIOUS
      <4>2. new = [state |-> to, owner |-> o, contract |-> c, progress |-> p, task |-> k, run |-> r,
                   length |-> m]
        BY <3>4, <4>1
      <4>3. [old EXCEPT !.state = to, !.length = @ + 1]
            = [f \in DOMAIN old |-> IF f = "length" THEN old.length + 1
                                    ELSE IF f = "state" THEN to ELSE old[f]]
        BY <2>4
      <4>4. old.length + 1 = m
        BY <2>4, <4>1
      <4>5. QED
        BY <2>4, <4>2, <4>3, <4>4
    <3>6. Ledger!Move(t, to)
      BY <1>6, <2>1, <3>2, <3>3, <3>5 DEF Ledger!Move, LedgerOf, Kept
    <3>7. QED
      BY <1>7, <3>3, <3>6 DEF Ledger!LNext
  <2>6. CASE x.op = "contract"
    <3>1. x.row.contract.version = c + 1 /\ x.row.progress = db[t].progress
      <4>1. x.stage = "event"
        BY <1>1, <2>6 DEF Commit, Written, At
      <4>2. QED
        BY <2>2, <2>3, <2>6, <4>1 DEF KeepsColumns, CheckedContract, Replaced
    <3>2. x.row.state = s
      BY <1>2, <1>5, <2>3, <2>6 DEF InFlightVersion
    <3>3. new = [state |-> s, owner |-> o, contract |-> c + 1, progress |-> p, task |-> k, run |-> r,
                 length |-> n + 1]
      BY <1>9, <2>2, <2>3, <3>1, <3>2
    <3>4. new = [old EXCEPT !.contract = @ + 1, !.length = @ + 1]
      <4>1. PICK m, q : m = n + 1 /\ q = c + 1
        OBVIOUS
      <4>2. new = [state |-> s, owner |-> o, contract |-> q, progress |-> p, task |-> k, run |-> r,
                   length |-> m]
        BY <3>3, <4>1
      <4>3. [old EXCEPT !.contract = @ + 1, !.length = @ + 1]
            = [f \in DOMAIN old |-> IF f = "length" THEN old.length + 1
                                    ELSE IF f = "contract" THEN old.contract + 1 ELSE old[f]]
        BY <2>4
      <4>4. old.length + 1 = m /\ old.contract + 1 = q
        BY <2>4, <4>1
      <4>5. QED
        BY <2>4, <4>2, <4>3, <4>4
    <3>5. Ledger!Revise(t)
      BY <1>6, <2>1, <3>4 DEF Ledger!Revise, LedgerOf, Kept
    <3>6. QED
      BY <1>7, <3>5 DEF Ledger!LNext
  <2>7. CASE x.op = "progress"
    <3>1. PICK covered, run : covered = x.arg.task /\ run = x.arg.run
      OBVIOUS
    <3>2. /\ x.row.progress.version = p + 1 /\ x.row.progress.task = covered
          /\ x.row.progress.run = run /\ x.row.contract = db[t].contract
          /\ covered >= k /\ covered <= n /\ run >= r
      <4>1. x.stage = "event"
        BY <1>1, <2>7 DEF Commit, Written, At
      <4>2. QED
        BY <2>2, <2>3, <2>7, <3>1, <4>1 DEF KeepsColumns, CheckedProgress, Replaced
    <3>3. x.row.state = s
      BY <1>2, <1>5, <2>3, <2>7 DEF InFlightVersion
    <3>4. new = [state |-> s, owner |-> o, contract |-> c, progress |-> p + 1, task |-> covered,
                 run |-> run, length |-> n + 1]
      BY <1>9, <2>2, <2>3, <3>2, <3>3
    <3>5. new = [old EXCEPT !.progress = @ + 1, !.task = covered, !.run = run, !.length = @ + 1]
      <4>1. PICK m, q : m = n + 1 /\ q = p + 1
        OBVIOUS
      <4>2. new = [state |-> s, owner |-> o, contract |-> c, progress |-> q, task |-> covered,
                   run |-> run, length |-> m]
        BY <3>4, <4>1
      <4>3. [old EXCEPT !.progress = @ + 1, !.task = covered, !.run = run, !.length = @ + 1]
            = [f \in DOMAIN old |-> IF f = "length" THEN old.length + 1
                                    ELSE IF f = "run" THEN run
                                    ELSE IF f = "task" THEN covered
                                    ELSE IF f = "progress" THEN old.progress + 1 ELSE old[f]]
        BY <2>4
      <4>4. old.length + 1 = m /\ old.progress + 1 = q
        BY <2>4, <4>1
      <4>5. QED
        BY <2>4, <4>2, <4>3, <4>4
    <3>6. LedgerOf'[t] = new /\ new.run = run /\ old.run = r /\ old.task = k /\ old.length = n
      <4>1. LedgerOf'[t] = new
        BY <1>6, <2>1 DEF Ledger!Put, LedgerOf, Kept
      <4>2. QED
        BY <2>4, <3>4, <4>1
    <3>7. covered \in k..n
      <4>1. covered \in Nat
        <5>1. x.arg \in Progress
          BY <1>7, <2>7 DEF GoodTx, IsTx, TxOf, Idle
        <5>2. QED
          BY <3>1, <5>1 DEF Progress
      <4>2. k \in Nat /\ n \in Nat
        <5>1. db[t].progress \in Progress
          <6>1. IsRow(db[t])
            BY <2>1, RowsOf
          <6>2. QED
            BY <6>1 DEF IsRow
        <5>2. n \in Nat
          <6>1. PICK m \in Nat : m >= 2 /\ DOMAIN db[t].events = 1..m
            BY <2>1, RowsOf DEF Contiguous
          <6>2. NextSequence(db[t].events) = m + 1
            BY <6>1, NextOfContiguous
          <6>3. QED
            BY <2>3, <6>1, <6>2 DEF Last
        <5>3. QED
          BY <2>3, <5>1, <5>2 DEF Progress
      <4>3. QED
        BY <3>2, <4>1, <4>2
    <3>8. Ledger!Report(t)
      <4>1. Ledger!Put(t, [old EXCEPT !.progress = @ + 1, !.task = covered, !.run = LedgerOf'[t].run,
                                      !.length = @ + 1])
        <5>1. LedgerOf'[t].run = run
          BY <3>6
        <5>2. QED
          BY <1>6, <3>5, <5>1
      <4>2. covered \in LedgerOf[t].task..LedgerOf[t].length /\ LedgerOf'[t].run >= LedgerOf[t].run
        BY <2>1, <3>2, <3>6, <3>7
      <4>3. QED
        BY <2>1, <4>1, <4>2 DEF Ledger!Report, LedgerOf, Kept
    <3>9. QED
      BY <1>7, <3>8 DEF Ledger!LNext
  <2>8. QED
    BY <1>5, <1>12, <2>5, <2>6, <2>7
<1>13. QED
  BY <1>11, <1>12

LEMMA OpenRefines ==
    ASSUME TypeInv, OwnerInv, TypeInv', OwnerInv', NEW h \in Handles, OpenStore(h)
    PROVE  Ledger!LNext \/ UNCHANGED Ledger!lvars
<1>1. CASE schema = 3
  <2>1. schema' = schema /\ db' = db
    BY <1>1 DEF OpenStore, Migrated, TypeInv, TypeOK
  <2>2. LedgerOf' = LedgerOf
    BY <2>1 DEF LedgerOf, Kept, LedgerRow
  <2>3. QED
    BY <2>1, <2>2 DEF Ledger!lvars, LedgerOf, Kept
<1>2. CASE schema # 3
  <2>1. schema' = 3
    BY DEF OpenStore
  <2>2. DOMAIN LedgerOf' = DOMAIN db' /\ \A u \in DOMAIN db' : LedgerOf'[u] = LedgerRow(db'[u])
    BY <2>1 DEF LedgerOf, Kept, LedgerRow
  <2>3. OneActivePerAgent(db') /\ \A u \in DOMAIN db' : db'[u].active <=> db'[u].state \notin Terminal
    BY <2>1 DEF OwnerInv, OwnedRow
  <2>4. \A t, u \in DOMAIN LedgerOf' :
            /\ LedgerOf'[t].owner = LedgerOf'[u].owner
            /\ LedgerOf'[t].state \notin Ledger!Finished /\ LedgerOf'[u].state \notin Ledger!Finished
            => t = u
    BY <2>2, <2>3 DEF LedgerRow, Terminal, Ledger!Finished, OneActivePerAgent
  <2>5. Ledger!Exclusive(LedgerOf')
    BY <2>4 DEF Ledger!Exclusive, Ledger!Unfinished
  <2>6. Ledger!Adopt
    BY <1>2, <2>1, <2>5 DEF Ledger!Adopt, LedgerOf, Kept
  <2>7. QED
    BY <2>6 DEF Ledger!LNext
<1>3. QED
  BY <1>1, <1>2

\* Every commit is one step of the ledger, and nothing else is seen in it but
\* the adoption of an older file: transactions, races, failures and crashes are
\* invisible to callers (each operation of the store).
THEOREM StoreImplementsLedger == Spec => ImplementsLedger
<1>1. Init => Ledger!LInit
  <2>1. SUFFICES ASSUME Init PROVE Ledger!LInit
    OBVIOUS
  <2>2. Kept = {}
    BY <2>1 DEF Kept, Init, EmptyTable
  <2>3. LedgerOf = [t \in {} |-> t]
    BY <2>2 DEF LedgerOf
  <2>4. QED
    BY <2>3 DEF Ledger!LInit, LedgerOf, Kept
<1>2. /\ TypeInv /\ OwnerInv /\ HistoryInv /\ (TypeInv /\ OwnerInv /\ HistoryInv)' /\ [Next]_vars
      => [Ledger!LNext]_(Ledger!lvars)
  <2>1. SUFFICES ASSUME TypeInv, OwnerInv, HistoryInv, TypeInv', OwnerInv', [Next]_vars
                 PROVE  Ledger!LNext \/ UNCHANGED Ledger!lvars
    OBVIOUS
  <2>2. CASE UNCHANGED <<schema, db>>
    <3>1. LedgerOf' = LedgerOf
      BY <2>2 DEF LedgerOf, Kept, LedgerRow
    <3>2. QED
      BY <2>2, <3>1 DEF Ledger!lvars, LedgerOf, Kept
  <2>3. QED
    BY <2>1, <2>2, OpenRefines, CommitRefines, QuietSteps
<1>3. QED
  BY <1>1, <1>2, HistoryInvHolds, PTL DEF Spec, ImplementsLedger, Ledger!Spec
(***************************************************************************)
(* Tables.  What a committed row says of itself, and what a transaction    *)
(* that may commit has made of the committed row: exactly the statements   *)
(* of the stages it is past.                                               *)
(***************************************************************************)

\* The history tables hold every version up to the current one, and every
\* contract but the first was checked.
Versioned(row) ==
    /\ row.contract.version >= 1
    /\ DOMAIN row.contracts = 1..row.contract.version
    /\ \A v \in DOMAIN row.contracts : row.contracts[v].version = v /\ (v > 1 => row.contracts[v].schema)
    /\ row.contracts[row.contract.version] = row.contract
    /\ DOMAIN row.progresses = 0..row.progress.version
    /\ \A v \in DOMAIN row.progresses : row.progresses[v].version = v
    /\ row.progresses[row.progress.version] = row.progress

\* The last lifecycle event announces the state.
StateReplays(row) ==
    IF LifecycleSequences(row) = {} THEN row.state = "ready"
    ELSE \E n \in LifecycleSequences(row) :
             /\ StateAfter(row.events[n].type) = row.state
             /\ \A m \in LifecycleSequences(row) : m <= n

\* A report covers events before its own, and a later one never less.
CoversBehind(row) ==
    /\ \A n \in DOMAIN row.events :
          row.events[n].type = "ProgressRefreshed" =>
              row.progresses[row.events[n].version].task < n
    /\ \A v, w \in DOMAIN row.progresses :
          v < w => /\ row.progresses[v].task <= row.progresses[w].task
                   /\ row.progresses[v].run <= row.progresses[w].run

Replays(row) ==
    /\ StateReplays(row)
    /\ CoversBehind(row)
    /\ VersionLog(row, "ContractChanged", 1, row.contract.version)
    /\ VersionLog(row, "ProgressRefreshed", 0, row.progress.version)

\* The event a transaction appends.
EventFor(x) ==
    IF x.op = "transition"
    THEN [type |-> EventOf[x.arg.expected][x.arg.target], version |-> 0]
    ELSE [type |-> IF x.op = "contract" THEN "ContractChanged" ELSE "ProgressRefreshed",
          version |-> x.arg.version]

\* The stages after the version has been inserted into its history.
Recorded == {"history", "current", "event"}

HasWritten(x, old) ==
    /\ x.row.contracts =
          IF x.op = "contract" /\ x.stage \in Recorded
          THEN Insert(old.contracts, x.arg.version, x.arg) ELSE old.contracts
    /\ x.row.progresses =
          IF x.op = "progress" /\ x.stage \in Recorded
          THEN Insert(old.progresses, x.arg.version, x.arg) ELSE old.progresses
    /\ x.row.events =
          IF x.stage \in Appended
          THEN Insert(old.events, NextSequence(old.events), EventFor(x)) ELSE old.events
    /\ x.op = "contract" => x.arg.schema

FirstTables(row) ==
    /\ row.contracts = Only(1, row.contract)
    /\ row.progresses = Only(0, row.progress)
    /\ row.events = CreatedEvents

WritesTables(x) ==
    MayCommit(x) =>
        IF x.op = "create" THEN FirstTables(x.row) ELSE HasWritten(x, db[x.task])

TableInv ==
    /\ \A h \in Handles : WritesTables(tx[h])
    /\ \A t \in DOMAIN db : Replays(db[t])
    /\ schema = 0 => DOMAIN db = {}
    /\ IF schema = 3 THEN \A t \in DOMAIN db : Versioned(db[t])
       ELSE \A t \in DOMAIN db : db[t].contract.version = 1 /\ db[t].progress.version = 0

\* The log after one more event.
LEMMA AppendedLog ==
    \A e, v : \A n \in Nat : DOMAIN e = 1..n =>
        LET f == Insert(e, NextSequence(e), v)
        IN  /\ NextSequence(e) = n + 1 /\ DOMAIN f = 1..(n + 1) /\ f[n + 1] = v
            /\ \A k \in 1..n : f[k] = e[k] /\ k < n + 1
            /\ \A k \in 1..(n + 1) : k \in 1..n \/ k = n + 1
<1> SUFFICES ASSUME NEW e, NEW v, NEW n \in Nat, DOMAIN e = 1..n
             PROVE  LET f == Insert(e, NextSequence(e), v)
                    IN  /\ NextSequence(e) = n + 1 /\ DOMAIN f = 1..(n + 1) /\ f[n + 1] = v
                        /\ \A k \in 1..n : f[k] = e[k] /\ k < n + 1
                        /\ \A k \in 1..(n + 1) : k \in 1..n \/ k = n + 1
  OBVIOUS
<1>1. NextSequence(e) = n + 1
  BY NextOfContiguous
<1>2. PICK m : m = n + 1 /\ m \notin 1..n /\ m \in 1..(n + 1) /\ 1..n \cup {m} = 1..(n + 1)
  OBVIOUS
<1>3. Insert(e, m, v) = [k \in 1..n \cup {m} |-> IF k = m THEN v ELSE e[k]]
  BY DEF Insert
<1>4. PICK f : f = [k \in 1..n \cup {m} |-> IF k = m THEN v ELSE e[k]]
  OBVIOUS
<1>5. DOMAIN f = 1..m /\ f[m] = v /\ \A k \in 1..n : f[k] = e[k]
  BY <1>2, <1>4
<1>6. (\A k \in 1..n : k < m) /\ \A k \in 1..m : k \in 1..n \/ k = m
  BY <1>2
<1>7. Insert(e, NextSequence(e), v) = f
  BY <1>1, <1>2, <1>3, <1>4
<1>8. QED
  BY <1>1, <1>2, <1>5, <1>6, <1>7

\* The versions of one kind of event, after an event of another kind.
LEMMA OtherEvent ==
    \A old, new, type, first, current, v : \A n \in Nat :
        /\ DOMAIN old.events = 1..n
        /\ new.events = Insert(old.events, NextSequence(old.events), v)
        /\ v.type # type
        /\ VersionLog(old, type, first, current)
        => VersionLog(new, type, first, current)
<1> SUFFICES ASSUME NEW old, NEW new, NEW type, NEW first, NEW current, NEW v, NEW n \in Nat,
                    DOMAIN old.events = 1..n,
                    new.events = Insert(old.events, NextSequence(old.events), v),
                    v.type # type, VersionLog(old, type, first, current)
             PROVE  VersionLog(new, type, first, current)
  OBVIOUS
<1>1. /\ DOMAIN new.events = 1..(n + 1) /\ new.events[n + 1] = v
      /\ \A k \in 1..n : new.events[k] = old.events[k]
      /\ \A k \in 1..(n + 1) : k \in 1..n \/ k = n + 1
  <2>1. PICK e : e = old.events
    OBVIOUS
  <2>2. DOMAIN e = 1..n /\ new.events = Insert(e, NextSequence(e), v)
    BY <2>1
  <2>3. QED
    BY <2>1, <2>2, AppendedLog, SMTT(40)
<1>2. {k \in DOMAIN new.events : new.events[k].type = type}
      = {k \in DOMAIN old.events : old.events[k].type = type}
  <2>1. n + 1 \notin {k \in DOMAIN new.events : new.events[k].type = type}
    BY <1>1
  <2>2. \A k \in 1..n : k \in 1..(n + 1)
    OBVIOUS
  <2>3. QED
    BY <1>1, <2>1, <2>2
<1>3. \A k \in {k \in DOMAIN old.events : old.events[k].type = type} : new.events[k] = old.events[k]
  BY <1>1
<1>4. QED
  BY <1>2, <1>3 DEF VersionLog

\* The same after the event of the next version.
LEMMA NextVersionEvent ==
    \A old, new, type, v : \A first, current, n \in Nat :
        /\ DOMAIN old.events = 1..n /\ first <= current
        /\ new.events = Insert(old.events, NextSequence(old.events), v)
        /\ v.type = type /\ v.version = current + 1
        /\ VersionLog(old, type, first, current)
        => VersionLog(new, type, first, current + 1)
<1> SUFFICES ASSUME NEW old, NEW new, NEW type, NEW v,
                    NEW first \in Nat, NEW current \in Nat, NEW n \in Nat,
                    DOMAIN old.events = 1..n, first <= current,
                    new.events = Insert(old.events, NextSequence(old.events), v),
                    v.type = type, v.version = current + 1, VersionLog(old, type, first, current)
             PROVE  VersionLog(new, type, first, current + 1)
  OBVIOUS
<1>1. /\ DOMAIN new.events = 1..(n + 1) /\ new.events[n + 1] = v
      /\ \A k \in 1..n : new.events[k] = old.events[k] /\ k < n + 1
      /\ \A k \in 1..(n + 1) : k \in 1..n \/ k = n + 1
  BY AppendedLog, SMTT(40)
<1> DEFINE were == {k \in DOMAIN old.events : old.events[k].type = type}
           are == {k \in DOMAIN new.events : new.events[k].type = type}
<1>2. /\ \A w \in (first + 1)..current : \E k \in were : old.events[k].version = w
      /\ \A k \in were : old.events[k].version \in (first + 1)..current
      /\ \A k, m \in were : k < m => old.events[k].version < old.events[m].version
  BY DEF VersionLog
<1>3. n + 1 \in 1..(n + 1) /\ \A k \in 1..n : k \in 1..(n + 1)
  OBVIOUS
<1>4. n + 1 \in are /\ \A k \in are : k \in were \/ k = n + 1
  BY <1>1, <1>3
<1>5. \A k \in were : k \in are /\ k < n + 1 /\ k \in Nat /\ new.events[k].version = old.events[k].version
  BY <1>1, <1>3
<1>6. new.events[n + 1].version = current + 1
  BY <1>1
<1> HIDE DEF were, are
<1>7. ASSUME NEW w \in (first + 1)..(current + 1) PROVE \E k \in are : new.events[k].version = w
  <2>1. CASE w = current + 1
    BY <1>4, <1>6, <2>1
  <2>2. CASE w # current + 1
    <3>1. w \in (first + 1)..current
      BY <2>2
    <3>2. QED
      BY <1>2, <1>5, <3>1
  <2>3. QED
    BY <2>1, <2>2
<1>8. ASSUME NEW k \in are PROVE new.events[k].version \in (first + 1)..(current + 1)
  <2>1. CASE k = n + 1
    BY <1>6, <2>1
  <2>2. CASE k # n + 1
    <3>1. new.events[k].version \in (first + 1)..current
      BY <1>2, <1>4, <1>5, <2>2
    <3>2. QED
      BY <3>1
  <2>3. QED
    BY <2>1, <2>2
<1>9. ASSUME NEW k \in are, NEW m \in are, k < m PROVE new.events[k].version < new.events[m].version
  <2>1. CASE k \in were /\ m \in were
    BY <1>2, <1>5, <1>9, <2>1
  <2>2. CASE k \in were /\ m = n + 1
    <3>1. new.events[k].version \in (first + 1)..current
      BY <1>2, <1>5, <2>2
    <3>2. QED
      BY <1>6, <2>2, <3>1
  <2>3. CASE k = n + 1
    <3>1. ~(n + 1 < m)
      <4>1. m = n + 1 \/ m \in were
        BY <1>4
      <4>2. m \in Nat /\ m <= n + 1
        BY <1>5, <4>1
      <4>3. QED
        BY <4>2
    <3>2. QED
      BY <1>9, <2>3, <3>1
  <2>4. QED
    BY <1>4, <2>1, <2>2, <2>3
<1>10. QED
  BY <1>7, <1>8, <1>9 DEF VersionLog, are

\* The states the lifecycle events announce are those the transitions go to.
LEMMA Announced ==
    \A from, to \in States : Allowed(from, to) =>
        /\ EventOf[from][to] \in LifecycleEvents
        /\ StateAfter(EventOf[from][to]) = to
        /\ EventOf[from][to] \notin {"ContractChanged", "ProgressRefreshed"}
  BY DEF States, Allowed, EventOf, LifecycleEvents, StateAfter

\* A lifecycle event for the state reached keeps the log replaying to it; any
\* other event leaves it alone.
LEMMA StateFollows ==
    \A old, new, v : \A n \in Nat :
        /\ DOMAIN old.events = 1..n /\ StateReplays(old)
        /\ new.events = Insert(old.events, NextSequence(old.events), v)
        /\ \/ v.type \in LifecycleEvents /\ StateAfter(v.type) = new.state
           \/ v.type \notin LifecycleEvents /\ new.state = old.state
        => StateReplays(new)
<1> SUFFICES ASSUME NEW old, NEW new, NEW v, NEW n \in Nat,
                    DOMAIN old.events = 1..n, StateReplays(old),
                    new.events = Insert(old.events, NextSequence(old.events), v),
                    \/ v.type \in LifecycleEvents /\ StateAfter(v.type) = new.state
                    \/ v.type \notin LifecycleEvents /\ new.state = old.state
             PROVE  StateReplays(new)
  OBVIOUS
<1>1. /\ DOMAIN new.events = 1..(n + 1) /\ new.events[n + 1] = v
      /\ \A k \in 1..n : new.events[k] = old.events[k]
      /\ \A k \in 1..(n + 1) : k \in 1..n \/ k = n + 1
  BY AppendedLog, SMTT(40)
<1>2. n + 1 \in 1..(n + 1) /\ (\A k \in 1..n : k \in 1..(n + 1)) /\ \A k \in 1..(n + 1) : k <= n + 1
  OBVIOUS
<1>3. CASE v.type \in LifecycleEvents /\ StateAfter(v.type) = new.state
  <2>1. n + 1 \in LifecycleSequences(new)
    BY <1>1, <1>2, <1>3 DEF LifecycleSequences
  <2>2. \A m \in LifecycleSequences(new) : m <= n + 1
    BY <1>1, <1>2 DEF LifecycleSequences
  <2>3. QED
    BY <1>1, <1>3, <2>1, <2>2 DEF StateReplays
<1>4. CASE v.type \notin LifecycleEvents /\ new.state = old.state
  <2>1. LifecycleSequences(new) = LifecycleSequences(old)
    <3>1. n + 1 \notin LifecycleSequences(new)
      BY <1>1, <1>4 DEF LifecycleSequences
    <3>2. QED
      BY <1>1, <1>2, <3>1 DEF LifecycleSequences
  <2>2. \A k \in LifecycleSequences(old) : new.events[k] = old.events[k]
    BY <1>1 DEF LifecycleSequences
  <2>3. QED
    BY <1>4, <2>1, <2>2 DEF StateReplays
<1>5. QED
  BY <1>3, <1>4

\* A transition.
LEMMA MovedReplays ==
    ASSUME NEW old, IsRow(old), Contiguous(old), Replays(old), NEW new,
           NEW from \in States, NEW to \in States, Allowed(from, to), new.state = to,
           new.contract = old.contract, new.progress = old.progress,
           new.progresses = old.progresses,
           new.events = Insert(old.events, NextSequence(old.events),
                               [type |-> EventOf[from][to], version |-> 0])
    PROVE  Replays(new)
<1>1. PICK n \in Nat : DOMAIN old.events = 1..n
  BY DEF Contiguous
<1>2. PICK v : v = [type |-> EventOf[from][to], version |-> 0]
  OBVIOUS
<1>3. /\ v.type \in LifecycleEvents /\ StateAfter(v.type) = to
      /\ v.type # "ContractChanged" /\ v.type # "ProgressRefreshed"
  BY <1>2, Announced
<1>4. new.events = Insert(old.events, NextSequence(old.events), v)
  BY <1>2
<1>5. StateReplays(new)
  BY <1>1, <1>3, <1>4, StateFollows DEF Replays
<1>6. /\ VersionLog(new, "ContractChanged", 1, new.contract.version)
      /\ VersionLog(new, "ProgressRefreshed", 0, new.progress.version)
  BY <1>1, <1>3, <1>4, OtherEvent DEF Replays
<1>7. /\ DOMAIN new.events = 1..(n + 1) /\ new.events[n + 1] = v
      /\ \A k \in 1..n : new.events[k] = old.events[k]
      /\ \A k \in 1..(n + 1) : k \in 1..n \/ k = n + 1
  BY <1>1, <1>4, AppendedLog, SMTT(40)
<1>8. CoversBehind(new)
  BY <1>1, <1>3, <1>7 DEF Replays, CoversBehind
<1>9. QED
  BY <1>5, <1>6, <1>8 DEF Replays

\* A new contract version.
LEMMA RevisedReplays ==
    ASSUME NEW old, IsRow(old), Contiguous(old), Replays(old), old.contract.version >= 1,
           NEW new, NEW arg, CheckedContract(arg, old), new.contract = arg,
           new.state = old.state, new.progress = old.progress, new.progresses = old.progresses,
           new.events = Insert(old.events, NextSequence(old.events),
                               [type |-> "ContractChanged", version |-> arg.version])
    PROVE  Replays(new)
<1>1. PICK n \in Nat : DOMAIN old.events = 1..n
  BY DEF Contiguous
<1>2. PICK v : v = [type |-> "ContractChanged", version |-> arg.version]
  OBVIOUS
<1>3. v.type = "ContractChanged" /\ v.type \notin LifecycleEvents /\ v.type # "ProgressRefreshed"
  BY <1>2 DEF LifecycleEvents
<1>4. new.events = Insert(old.events, NextSequence(old.events), v)
  BY <1>2
<1>5. StateReplays(new)
  BY <1>1, <1>3, <1>4, StateFollows DEF Replays
<1>6. VersionLog(new, "ProgressRefreshed", 0, new.progress.version)
  BY <1>1, <1>3, <1>4, OtherEvent DEF Replays
<1>7. VersionLog(new, "ContractChanged", 1, new.contract.version)
  <2>1. PICK c \in Nat : c = old.contract.version /\ 1 <= c
    BY DEF IsRow, Contract
  <2>2. v.version = c + 1 /\ new.contract.version = c + 1
    BY <1>2, <2>1 DEF CheckedContract
  <2>3. VersionLog(new, "ContractChanged", 1, c + 1)
    BY <1>1, <1>3, <1>4, <2>1, <2>2, NextVersionEvent DEF Replays
  <2>4. QED
    BY <2>2, <2>3
<1>8. /\ DOMAIN new.events = 1..(n + 1) /\ new.events[n + 1] = v
      /\ \A k \in 1..n : new.events[k] = old.events[k]
      /\ \A k \in 1..(n + 1) : k \in 1..n \/ k = n + 1
  BY <1>1, <1>4, AppendedLog, SMTT(40)
<1>9. CoversBehind(new)
  BY <1>1, <1>3, <1>8 DEF Replays, CoversBehind
<1>10. QED
  BY <1>5, <1>6, <1>7, <1>9 DEF Replays

\* A new progress report: its watermark was checked against the committed log,
\* which is still the committed log.
LEMMA ReportedReplays ==
    ASSUME NEW old, IsRow(old), Contiguous(old), Replays(old), Versioned(old),
           NEW new, NEW arg \in Progress, CheckedProgress(arg, old), new.progress = arg,
           new.state = old.state, new.contract = old.contract,
           new.progresses = Insert(old.progresses, arg.version, arg),
           new.events = Insert(old.events, NextSequence(old.events),
                               [type |-> "ProgressRefreshed", version |-> arg.version])
    PROVE  Replays(new)
<1>1. PICK n \in Nat : DOMAIN old.events = 1..n
  BY DEF Contiguous
<1>2. PICK v : v = [type |-> "ProgressRefreshed", version |-> arg.version]
  OBVIOUS
<1>3. v.type = "ProgressRefreshed" /\ v.type \notin LifecycleEvents /\ v.type # "ContractChanged"
  BY <1>2 DEF LifecycleEvents
<1>4. new.events = Insert(old.events, NextSequence(old.events), v)
  BY <1>2
<1>5. StateReplays(new)
  BY <1>1, <1>3, <1>4, StateFollows DEF Replays
<1>6. VersionLog(new, "ContractChanged", 1, new.contract.version)
  BY <1>1, <1>3, <1>4, OtherEvent DEF Replays
<1>7. PICK c \in Nat : c = old.progress.version
  BY DEF IsRow, Progress
<1>8. v.version = c + 1 /\ arg.version = c + 1
  BY <1>2, <1>7 DEF CheckedProgress
<1>9. VersionLog(new, "ProgressRefreshed", 0, new.progress.version)
  <2>1. VersionLog(new, "ProgressRefreshed", 0, c + 1)
    BY <1>1, <1>3, <1>4, <1>7, <1>8, NextVersionEvent DEF Replays
  <2>2. QED
    BY <1>8, <2>1
<1>10. /\ DOMAIN new.events = 1..(n + 1) /\ new.events[n + 1] = v
       /\ \A k \in 1..n : new.events[k] = old.events[k]
       /\ \A k \in 1..(n + 1) : k \in 1..n \/ k = n + 1
  BY <1>1, <1>4, AppendedLog, SMTT(40)
<1>11. Last(old) = n
  BY <1>1, NextOfContiguous DEF Last
<1>12. /\ DOMAIN old.progresses = 0..c /\ old.progresses[c] = old.progress
       /\ \A w \in 0..c : old.progresses[w] \in Progress
  BY <1>7 DEF Versioned, IsRow, IsTable
<1>13. /\ DOMAIN new.progresses = 0..c \cup {c + 1} /\ new.progresses[c + 1] = arg
       /\ \A w \in 0..c : new.progresses[w] = old.progresses[w]
  <2>1. c + 1 \notin 0..c
    OBVIOUS
  <2>2. QED
    BY <1>8, <1>12, <2>1 DEF Insert
<1>14. \A k \in DOMAIN new.events : new.events[k].type = "ProgressRefreshed" =>
           new.progresses[new.events[k].version].task < k
  <2>1. SUFFICES ASSUME NEW k \in DOMAIN new.events, new.events[k].type = "ProgressRefreshed"
                 PROVE  new.progresses[new.events[k].version].task < k
    OBVIOUS
  <2>2. CASE k = n + 1
    <3>1. new.progresses[new.events[k].version] = arg
      BY <1>8, <1>10, <1>13, <2>2
    <3>2. arg.task \in Nat /\ arg.task <= n
      BY <1>11 DEF CheckedProgress, Progress
    <3>3. QED
      BY <2>2, <3>1, <3>2
  <2>3. CASE k \in 1..n
    <3>1. new.events[k] = old.events[k] /\ old.events[k].type = "ProgressRefreshed"
      BY <1>10, <2>1, <2>3
    <3>2. old.events[k].version \in 1..c
      <4>1. VersionLog(old, "ProgressRefreshed", 0, c)
        BY <1>7 DEF Replays
      <4>2. old.events[k].version \in (0 + 1)..c
        BY <1>1, <2>3, <3>1, <4>1 DEF VersionLog
      <4>3. QED
        BY <4>2
    <3>3. new.progresses[old.events[k].version] = old.progresses[old.events[k].version]
      BY <1>13, <3>2
    <3>4. QED
      BY <1>1, <2>3, <3>1, <3>3 DEF Replays, CoversBehind
  <2>4. QED
    BY <1>10, <2>2, <2>3
<1>15. \A u, w \in DOMAIN new.progresses : u < w =>
           /\ new.progresses[u].task <= new.progresses[w].task
           /\ new.progresses[u].run <= new.progresses[w].run
  <2>1. SUFFICES ASSUME NEW u \in DOMAIN new.progresses, NEW w \in DOMAIN new.progresses, u < w
                 PROVE  /\ new.progresses[u].task <= new.progresses[w].task
                        /\ new.progresses[u].run <= new.progresses[w].run
    OBVIOUS
  <2>2. \A x, y \in 0..c : x < y => /\ old.progresses[x].task <= old.progresses[y].task
                                    /\ old.progresses[x].run <= old.progresses[y].run
    BY <1>12 DEF Replays, CoversBehind
  <2>3. CASE u \in 0..c /\ w \in 0..c
    BY <1>13, <2>1, <2>2, <2>3
  <2>4. CASE u \in 0..c /\ w = c + 1
    <3>1. PICK p \in Progress, q \in Progress : p = old.progresses[u] /\ q = old.progresses[c]
      BY <1>12, <2>4
    <3>2. p.task <= q.task /\ p.run <= q.run
      <4>1. p.task \in Nat /\ p.run \in Nat
        BY <3>1 DEF Progress
      <4>2. CASE u = c
        BY <3>1, <4>1, <4>2
      <4>3. CASE u # c
        <5>1. u < c /\ c \in 0..c
          BY <2>4, <4>3
        <5>2. QED
          BY <2>2, <2>4, <3>1, <5>1
      <4>4. QED
        BY <4>2, <4>3
    <3>3. q.task <= arg.task /\ q.run <= arg.run
      <4>1. q = old.progress /\ q.task \in Nat /\ q.run \in Nat /\ arg.task \in Nat /\ arg.run \in Nat
        BY <1>12, <3>1 DEF Progress
      <4>2. QED
        BY <4>1 DEF CheckedProgress
    <3>4. p.task <= arg.task /\ p.run <= arg.run
      <4>1. /\ p.task \in Nat /\ q.task \in Nat /\ arg.task \in Nat
            /\ p.run \in Nat /\ q.run \in Nat /\ arg.run \in Nat
        BY <3>1 DEF Progress
      <4>2. QED
        BY <3>2, <3>3, <4>1
    <3>5. QED
      BY <1>13, <2>4, <3>1, <3>4
  <2>5. CASE u = c + 1
    <3>1. w \in 0..(c + 1)
      BY <1>13
    <3>2. QED
      BY <2>1, <2>5, <3>1
  <2>6. QED
    BY <1>13, <2>3, <2>4, <2>5
<1>16. QED
  BY <1>5, <1>6, <1>9, <1>14, <1>15 DEF Replays, CoversBehind

\* The histories after a contract or progress version has been committed.
LEMMA RevisedVersions ==
    ASSUME NEW old, IsRow(old), Versioned(old), NEW new, NEW arg \in Contract,
           CheckedContract(arg, old), arg.schema, new.contract = arg,
           new.contracts = Insert(old.contracts, arg.version, arg),
           new.progress = old.progress, new.progresses = old.progresses
    PROVE  Versioned(new)
<1>1. PICK c \in Nat : c = old.contract.version /\ c >= 1 /\ arg.version = c + 1
  BY DEF IsRow, Contract, Versioned, CheckedContract
<1>2. c + 1 \notin 1..c /\ 1..c \cup {c + 1} = 1..(c + 1) /\ c + 1 \in 1..(c + 1) /\ c + 1 >= 1
  BY <1>1
<1>3. PICK f : f = [v \in 1..c \cup {c + 1} |-> IF v = c + 1 THEN arg ELSE old.contracts[v]]
  OBVIOUS
<1>4. new.contracts = f
  BY <1>1, <1>3 DEF Versioned, Insert
<1>5. DOMAIN f = 1..(c + 1) /\ f[c + 1] = arg /\ \A v \in 1..c : f[v] = old.contracts[v]
  BY <1>2, <1>3
<1>6. \A v \in 1..(c + 1) : f[v].version = v /\ (v > 1 => f[v].schema)
  <2>1. SUFFICES ASSUME NEW v \in 1..(c + 1) PROVE f[v].version = v /\ (v > 1 => f[v].schema)
    OBVIOUS
  <2>2. CASE v = c + 1
    BY <1>1, <1>5, <2>2
  <2>3. CASE v \in 1..c
    BY <1>1, <1>5, <2>3 DEF Versioned
  <2>4. QED
    BY <1>2, <2>2, <2>3
<1>7. new.contract.version = c + 1 /\ DOMAIN new.contracts = 1..new.contract.version
  BY <1>1, <1>4, <1>5
<1>8. \A v \in DOMAIN new.contracts :
          new.contracts[v].version = v /\ (v > 1 => new.contracts[v].schema)
  BY <1>4, <1>5, <1>6
<1>9. new.contract.version >= 1 /\ new.contracts[new.contract.version] = new.contract
  BY <1>1, <1>2, <1>4, <1>5
<1>10. /\ DOMAIN new.progresses = 0..new.progress.version
       /\ \A v \in DOMAIN new.progresses : new.progresses[v].version = v
       /\ new.progresses[new.progress.version] = new.progress
  BY DEF Versioned
<1>11. QED
  BY <1>7, <1>8, <1>9, <1>10, Zenon DEF Versioned

LEMMA ReportedVersions ==
    ASSUME NEW old, IsRow(old), Versioned(old), NEW new, NEW arg \in Progress,
           CheckedProgress(arg, old), new.progress = arg,
           new.progresses = Insert(old.progresses, arg.version, arg),
           new.contract = old.contract, new.contracts = old.contracts
    PROVE  Versioned(new)
<1>1. PICK c \in Nat : c = old.progress.version /\ arg.version = c + 1
  BY DEF IsRow, Progress, Versioned, CheckedProgress
<1>2. c + 1 \notin 0..c /\ 0..c \cup {c + 1} = 0..(c + 1) /\ c + 1 \in 0..(c + 1)
  OBVIOUS
<1>3. PICK f : f = [v \in 0..c \cup {c + 1} |-> IF v = c + 1 THEN arg ELSE old.progresses[v]]
  OBVIOUS
<1>4. new.progresses = f
  BY <1>1, <1>3 DEF Versioned, Insert
<1>5. DOMAIN f = 0..(c + 1) /\ f[c + 1] = arg /\ \A v \in 0..c : f[v] = old.progresses[v]
  BY <1>2, <1>3
<1>6. \A v \in 0..(c + 1) : f[v].version = v
  <2>1. SUFFICES ASSUME NEW v \in 0..(c + 1) PROVE f[v].version = v
    OBVIOUS
  <2>2. CASE v = c + 1
    BY <1>1, <1>5, <2>2
  <2>3. CASE v \in 0..c
    BY <1>1, <1>5, <2>3 DEF Versioned
  <2>4. QED
    BY <1>2, <2>2, <2>3
<1>7. QED
  BY <1>1, <1>2, <1>4, <1>5, <1>6 DEF Versioned

\* A row with one version of each: as it is created, and as migrate leaves it.
LEMMA FirstVersions ==
    ASSUME NEW row, row.contract.version = 1, row.progress.version = 0,
           row.contracts = Only(1, row.contract), row.progresses = Only(0, row.progress)
    PROVE  Versioned(row)
<1>1. 1..1 = {1} /\ 0..0 = {0} /\ 1 >= 1 /\ ~(1 > 1)
  OBVIOUS
<1>2. QED
  BY <1>1 DEF Versioned, Only

\* A log without events of versions, of a row without versions to announce.
LEMMA FirstReplays ==
    ASSUME NEW row, row.contract.version = 1, row.progress.version = 0, StateReplays(row),
           \A n \in DOMAIN row.events :
               row.events[n].type \notin {"ContractChanged", "ProgressRefreshed"},
           DOMAIN row.progresses \subseteq {0}
    PROVE  Replays(row)
<1>1. (1 + 1)..1 = {} /\ (0 + 1)..0 = {}
  OBVIOUS
<1>2. {n \in DOMAIN row.events : row.events[n].type = "ContractChanged"} = {}
  OBVIOUS
<1>3. {n \in DOMAIN row.events : row.events[n].type = "ProgressRefreshed"} = {}
  OBVIOUS
<1>4. /\ VersionLog(row, "ContractChanged", 1, row.contract.version)
      /\ VersionLog(row, "ProgressRefreshed", 0, row.progress.version)
  BY <1>1, <1>2, <1>3 DEF VersionLog
<1>5. CoversBehind(row)
  BY DEF CoversBehind
<1>6. QED
  BY <1>4, <1>5 DEF Replays

\* The row a creation commits.
LEMMA CreatedRow ==
    ASSUME NEW row, FirstTables(row), row.state = "ready",
           row.contract.version = 1, row.progress.version = 0
    PROVE  Versioned(row) /\ Replays(row)
<1>1. /\ DOMAIN CreatedEvents = {1, 2}
      /\ \A n \in {1, 2} : CreatedEvents[n].type \in {"TaskCreated", "OwnerAssigned"}
  BY DEF CreatedEvents
<1>2. \A n \in DOMAIN row.events :
          row.events[n].type \notin LifecycleEvents \cup {"ContractChanged", "ProgressRefreshed"}
  BY <1>1 DEF FirstTables, LifecycleEvents
<1>3. LifecycleSequences(row) = {}
  BY <1>2 DEF LifecycleSequences
<1>4. StateReplays(row)
  BY <1>3 DEF StateReplays
<1>5. DOMAIN row.progresses \subseteq {0}
  BY DEF FirstTables, Only
<1>6. QED
  BY <1>2, <1>4, <1>5, FirstVersions, FirstReplays DEF FirstTables

\* A row as an earlier version of the schema left it.
LEMMA LegacyReplays ==
    \A n : \A r \in LegacyRows(n) :
        Replays(r) /\ r.contract.version = 1 /\ r.progress.version = 0
<1> SUFFICES ASSUME NEW n, NEW a \in Agents, NEW ok \in BOOLEAN, NEW p \in Payloads,
                    NEW s \in LegacyStates(n), NEW r, r = LegacyRow(a, ok, p, s)
             PROVE  Replays(r) /\ r.contract.version = 1 /\ r.progress.version = 0
  BY DEF LegacyRows
<1>1. s \in {"ready", "running", "cancelled"}
  BY DEF LegacyStates
<1>2. /\ r.state = s /\ r.progresses = EmptyTable
      /\ r.contract = FirstContract(ok, p) /\ r.progress = FirstProgress(p)
      /\ r.events = IF s = "ready" THEN CreatedEvents
                    ELSE Insert(CreatedEvents, 3, [type |-> EventOf["ready"][s], version |-> 0])
  BY DEF LegacyRow, NewRow
<1>3. /\ DOMAIN CreatedEvents = 1..2
      /\ \A k \in 1..2 : CreatedEvents[k].type \in {"TaskCreated", "OwnerAssigned"}
  BY DEF CreatedEvents
<1>4. PICK new : new = [events |-> CreatedEvents, state |-> "ready"]
  OBVIOUS
<1>5. StateReplays(new)
  BY <1>3, <1>4 DEF StateReplays, LifecycleSequences, LifecycleEvents
<1>6. DOMAIN r.progresses \subseteq {0}
  BY <1>2 DEF EmptyTable
<1>7. r.contract.version = 1 /\ r.progress.version = 0
  BY <1>2 DEF FirstContract, FirstProgress
<1>8. CASE s = "ready"
  <2>1. r.events = CreatedEvents
    BY <1>2, <1>8
  <2>2. StateReplays(r)
    BY <1>2, <1>3, <1>8, <2>1 DEF StateReplays, LifecycleSequences, LifecycleEvents
  <2>3. \A k \in DOMAIN r.events : r.events[k].type \notin {"ContractChanged", "ProgressRefreshed"}
    BY <1>3, <2>1
  <2>4. QED
    BY <1>6, <1>7, <2>2, <2>3, FirstReplays
<1>9. CASE s # "ready"
  <2>1. PICK v : v = [type |-> EventOf["ready"][s], version |-> 0]
    OBVIOUS
  <2>2. /\ v.type \in LifecycleEvents /\ StateAfter(v.type) = s
        /\ v.type \notin {"ContractChanged", "ProgressRefreshed"}
    BY <1>1, <1>9, <2>1 DEF EventOf, LifecycleEvents, StateAfter
  <2>3. NextSequence(CreatedEvents) = 3 /\ 2 \in Nat
    <3>1. NextSequence(CreatedEvents) = 2 + 1
      BY <1>3, NextOfContiguous
    <3>2. QED
      BY <3>1
  <2>4. r.events = Insert(new.events, NextSequence(new.events), v)
    BY <1>2, <1>4, <1>9, <2>1, <2>3
  <2>5. StateReplays(r)
    BY <1>2, <1>3, <1>4, <1>5, <2>2, <2>3, <2>4, StateFollows
  <2>6. \A k \in DOMAIN r.events : r.events[k].type \notin {"ContractChanged", "ProgressRefreshed"}
    <3>1. PICK m \in Nat : m = 2
      OBVIOUS
    <3>2. /\ DOMAIN r.events = 1..(m + 1) /\ r.events[m + 1] = v
          /\ \A k \in 1..m : r.events[k] = CreatedEvents[k]
          /\ \A k \in 1..(m + 1) : k \in 1..m \/ k = m + 1
      <4>1. DOMAIN CreatedEvents = 1..m /\ r.events = Insert(CreatedEvents, NextSequence(CreatedEvents), v)
        BY <1>3, <1>4, <2>4, <3>1
      <4>2. QED
        BY <4>1, AppendedLog, SMTT(40)
    <3>3. QED
      BY <1>3, <2>2, <3>1, <3>2
  <2>7. QED
    BY <1>6, <1>7, <2>5, <2>6, FirstReplays
<1>10. QED
  BY <1>8, <1>9

\* What migrate makes of such a row.
LEMMA MigratedReplays ==
    ASSUME NEW r, IsRow(r), Replays(r), r.contract.version = 1, r.progress.version = 0
    PROVE  Versioned(MigrateRow(r)) /\ Replays(MigrateRow(r))
<1>1. PICK q : q = MigrateRow(r)
  OBVIOUS
<1>2. /\ q.state = r.state /\ q.events = r.events
      /\ q.contract = r.contract /\ q.progress = r.progress
      /\ q.contracts = Only(1, r.contract) /\ q.progresses = Only(0, r.progress)
  BY <1>1 DEF MigrateRow, IsRow
<1>3. StateReplays(q)
  BY <1>2 DEF Replays, StateReplays, LifecycleSequences
<1>4. \A n \in DOMAIN r.events : r.events[n].type \notin {"ContractChanged", "ProgressRefreshed"}
  <2>1. VersionLog(r, "ContractChanged", 1, 1) /\ VersionLog(r, "ProgressRefreshed", 0, 0)
    BY DEF Replays
  <2>2. (1 + 1)..1 = {} /\ (0 + 1)..0 = {}
    OBVIOUS
  <2>3. QED
    BY <2>1, <2>2 DEF VersionLog
<1>5. DOMAIN q.progresses \subseteq {0}
  BY <1>2 DEF Only
<1>6. QED
  BY <1>1, <1>2, <1>3, <1>4, <1>5, FirstVersions, FirstReplays

LEMMA TableInit == Init => TableInv
<1> SUFFICES ASSUME Init PROVE TableInv
  OBVIOUS
<1>1. \A h \in Handles : ~MayCommit(tx[h])
  BY DEF Init, Idle, MayCommit, Holding
<1>2. CASE schema \in {0, 3} /\ db = EmptyTable
  <2>1. DOMAIN db = {}
    BY <1>2 DEF EmptyTable
  <2>2. QED
    BY <1>1, <2>1 DEF TableInv, WritesTables
<1>3. ASSUME NEW n, NEW T \in SUBSET Tasks, db \in [T -> LegacyRows(n)], schema \in {1, 2}
      PROVE  TableInv
  BY <1>1, <1>3, LegacyReplays DEF TableInv, WritesTables
<1>4. QED
  BY <1>2, <1>3 DEF Init

\* One handle's transaction moved, and the file did not.
LEMMA TablesMoved ==
    ASSUME TypeInv, TableInv, NEW h \in Handles, NEW x, tx' = [tx EXCEPT ![h] = x],
           UNCHANGED <<schema, db>>, WritesTables(x)
    PROVE  TableInv'
<1>1. \A g \in Handles : tx'[g] = IF g = h THEN x ELSE tx[g]
  BY DEF TypeInv, TypeOK
<1>2. ASSUME NEW g \in Handles PROVE WritesTables(tx[g])'
  <2>1. CASE g = h
    BY <1>1, <2>1 DEF WritesTables
  <2>2. CASE g # h
    BY <1>1, <2>2 DEF TableInv, WritesTables
  <2>3. QED
    BY <2>1, <2>2
<1>3. QED
  BY <1>2 DEF TableInv

\* What each statement does to the tables of the row.
LEMMA ColumnKeepsTables ==
    ASSUME NEW r, IsRow(r), NEW q, NEW v,
           \/ q = [r EXCEPT !.state = v] \/ q = [r EXCEPT !.active = v]
           \/ q = [r EXCEPT !.contract = v] \/ q = [r EXCEPT !.progress = v]
    PROVE  q.contracts = r.contracts /\ q.progresses = r.progresses /\ q.events = r.events
BY DEF IsRow

LEMMA RecordedTables ==
    ASSUME NEW r, IsRow(r), NEW q, NEW v, NEW c
    PROVE  /\ q = [r EXCEPT !.contracts = Insert(@, v, c)] =>
                  /\ q.contracts = Insert(r.contracts, v, c)
                  /\ q.progresses = r.progresses /\ q.events = r.events
           /\ q = [r EXCEPT !.progresses = Insert(@, v, c)] =>
                  /\ q.progresses = Insert(r.progresses, v, c)
                  /\ q.contracts = r.contracts /\ q.events = r.events
           /\ q = AppendEvent(r, v, c) =>
                  /\ q.events = Insert(r.events, NextSequence(r.events), [type |-> v, version |-> c])
                  /\ q.contracts = r.contracts /\ q.progresses = r.progresses
<1>1. PICK f, g, e :
          /\ f = Insert(r.contracts, v, c) /\ g = Insert(r.progresses, v, c)
          /\ e = Insert(r.events, NextSequence(r.events), [type |-> v, version |-> c])
  OBVIOUS
<1>2. q = [r EXCEPT !.contracts = f] => q.contracts = f /\ q.progresses = r.progresses /\ q.events = r.events
  BY DEF IsRow
<1>3. q = [r EXCEPT !.progresses = g] => q.progresses = g /\ q.contracts = r.contracts /\ q.events = r.events
  BY DEF IsRow
<1>4. q = [r EXCEPT !.events = e] => q.events = e /\ q.contracts = r.contracts /\ q.progresses = r.progresses
  BY DEF IsRow
<1>5. QED
  BY <1>1, <1>2, <1>3, <1>4 DEF AppendEvent

\* A statement of a transaction that may commit: each table is left alone or
\* gets its row at the stage that says so.
LEMMA TablesWrote ==
    ASSUME TypeInv, TableInv, NEW h \in Handles, NEW row, NEW stage, Write(h, row, stage),
           tx[h].op \in {"transition", "contract", "progress"}, MayCommit(tx[h]),
           \/ /\ row.contracts = tx[h].row.contracts
              /\ tx[h].op = "contract" => (stage \in Recorded <=> tx[h].stage \in Recorded)
           \/ /\ row.contracts = Insert(tx[h].row.contracts, tx[h].arg.version, tx[h].arg)
              /\ tx[h].op = "contract" /\ stage \in Recorded /\ tx[h].stage \notin Recorded,
           \/ /\ row.progresses = tx[h].row.progresses
              /\ tx[h].op = "progress" => (stage \in Recorded <=> tx[h].stage \in Recorded)
           \/ /\ row.progresses = Insert(tx[h].row.progresses, tx[h].arg.version, tx[h].arg)
              /\ tx[h].op = "progress" /\ stage \in Recorded /\ tx[h].stage \notin Recorded,
           \/ /\ row.events = tx[h].row.events
              /\ stage \in Appended <=> tx[h].stage \in Appended
           \/ /\ row.events = Insert(tx[h].row.events, NextSequence(tx[h].row.events), EventFor(tx[h]))
              /\ stage \in Appended /\ tx[h].stage \notin Appended
    PROVE  TableInv'
<1>1. PICK y : y = [tx[h] EXCEPT !.row = row, !.stage = stage]
  OBVIOUS
<1>2. tx' = [tx EXCEPT ![h] = y] /\ UNCHANGED <<schema, db>>
  BY <1>1 DEF Write, TypeInv, TypeOK
<1>3. /\ y.op = tx[h].op /\ y.task = tx[h].task /\ y.row = row /\ y.stage = stage
      /\ y.arg = tx[h].arg /\ y.op # "create"
  <2>1. GoodTx(tx[h])
    BY DEF TypeInv
  <2>2. QED
    BY <1>1, <2>1 DEF GoodTx, IsTx, TxOf, Idle
<1>4. PICK old : old = db[tx[h].task]
  OBVIOUS
<1>5. HasWritten(tx[h], old)
  BY <1>4 DEF TableInv, WritesTables
<1>6. EventFor(y) = EventFor(tx[h])
  BY <1>3 DEF EventFor
<1>7. y.row.contracts = IF y.op = "contract" /\ y.stage \in Recorded
                        THEN Insert(old.contracts, y.arg.version, y.arg) ELSE old.contracts
  BY <1>3, <1>5 DEF HasWritten
<1>8. y.row.progresses = IF y.op = "progress" /\ y.stage \in Recorded
                         THEN Insert(old.progresses, y.arg.version, y.arg) ELSE old.progresses
  BY <1>3, <1>5 DEF HasWritten
<1>9. y.row.events = IF y.stage \in Appended
                     THEN Insert(old.events, NextSequence(old.events), EventFor(y)) ELSE old.events
  BY <1>3, <1>5, <1>6 DEF HasWritten
<1>10. y.op = "contract" => y.arg.schema
  BY <1>3, <1>5 DEF HasWritten
<1>11. HasWritten(y, old)
  BY <1>7, <1>8, <1>9, <1>10 DEF HasWritten
<1>12. WritesTables(y)
  BY <1>3, <1>4, <1>11 DEF WritesTables
<1>13. QED
  BY <1>2, <1>12, TablesMoved

\* A begun transaction has written nothing.
LEMMA TablesBegun ==
    ASSUME TypeInv, TableInv, NEW h \in Handles, NEW op, NEW t, NEW arg, Begin(h, op, t, arg),
           op # "create", op = "contract" => arg.schema
    PROVE  TableInv'
<1>1. PICK x : x = [op |-> op, task |-> t, row |-> db[t], fresh |-> TRUE, stage |-> "read", arg |-> arg]
  OBVIOUS
<1>2. x.op = op /\ x.task = t /\ x.row = db[t] /\ x.stage = "read" /\ x.arg = arg
  BY <1>1
<1>3. tx' = [tx EXCEPT ![h] = x] /\ UNCHANGED <<schema, db>>
  BY <1>1 DEF Begin
<1>4. WritesTables(x)
  BY <1>2 DEF WritesTables, HasWritten, Appended, Recorded
<1>5. QED
  BY <1>3, <1>4, TablesMoved

\* What a commit puts into the file is versioned and replays.
LEMMA TablesCommitted ==
    ASSUME TypeInv, OwnerInv, HistoryInv, TableInv, NEW h \in Handles, Commit(h)
    PROVE  Versioned(tx[h].row) /\ Replays(tx[h].row)
<1>1. PICK x : x = tx[h]
  OBVIOUS
<1>2. PICK old : old = db[x.task]
  OBVIOUS
<1>3. /\ schema = 3 /\ MayCommit(x) /\ x.op \in {"create", "transition", "contract", "progress"}
      /\ x.stage \in {"event", "owner"} /\ KeepsHistory(x) /\ WritesTables(x) /\ GoodTx(x)
      /\ x.op = "create" => InFlightCreate(x)
      /\ x.op = "transition" => InFlightTransition(x)
      /\ x.op \in {"contract", "progress"} => InFlightVersion(x)
  BY <1>1, CommitFacts DEF HistoryInv, TableInv, TypeInv
<1>4. CASE x.op = "create"
  BY <1>1, <1>3, <1>4, CreatedRow DEF WritesTables, KeepsHistory, InFlightCreate
<1>5. CASE x.op # "create"
  <2>1. x.task \in DOMAIN db
    BY <1>3, <1>5 DEF InFlightTransition, InFlightVersion
  <2>2. IsRow(old) /\ Contiguous(old) /\ Replays(old) /\ Versioned(old)
    BY <1>2, <1>3, <2>1, RowsOf DEF TableInv
  <2>3. HasWritten(x, old) /\ KeepsColumns(x, old) /\ x.stage \in Appended
    BY <1>2, <1>3, <1>5 DEF WritesTables, KeepsHistory, Appended
  <2>4. x.row.events = Insert(old.events, NextSequence(old.events), EventFor(x))
    BY <2>3 DEF HasWritten
  <2>5. CASE x.op = "transition"
    <3>1. PICK from \in States, to \in States : from = x.arg.expected /\ to = x.arg.target /\ Allowed(from, to)
      BY <1>3, <2>5 DEF GoodTx, IsTx, TxOf, Idle
    <3>2. x.row.state = to
      BY <1>3, <2>5, <3>1 DEF InFlightTransition
    <3>3. /\ x.row.contract = old.contract /\ x.row.progress = old.progress
          /\ x.row.contracts = old.contracts /\ x.row.progresses = old.progresses
      BY <2>3, <2>5 DEF HasWritten, KeepsColumns
    <3>4. EventFor(x) = [type |-> EventOf[from][to], version |-> 0]
      BY <2>5, <3>1 DEF EventFor
    <3>5. Replays(x.row)
      BY <2>2, <2>4, <3>1, <3>2, <3>3, <3>4, MovedReplays
    <3>6. Versioned(x.row)
      BY <2>2, <3>3 DEF Versioned
    <3>7. QED
      BY <1>1, <3>5, <3>6
  <2>6. CASE x.op = "contract"
    <3>1. x.stage = "event"
      BY <1>1, <2>6 DEF Commit, Written, At
    <3>2. PICK arg \in Contract : arg = x.arg
      BY <1>3, <2>6 DEF GoodTx, IsTx, TxOf, Idle
    <3>3. /\ CheckedContract(arg, old) /\ arg.schema /\ x.row.contract = arg
          /\ x.row.contracts = Insert(old.contracts, arg.version, arg)
          /\ x.row.progress = old.progress /\ x.row.progresses = old.progresses
      BY <2>3, <2>6, <3>1, <3>2 DEF HasWritten, KeepsColumns, Recorded, Replaced
    <3>4. x.row.state = old.state
      BY <1>2, <1>3, <2>6 DEF InFlightVersion
    <3>5. EventFor(x) = [type |-> "ContractChanged", version |-> arg.version]
      BY <2>6, <3>2 DEF EventFor
    <3>6. old.contract.version >= 1
      BY <2>2 DEF Versioned
    <3>7. Replays(x.row)
      BY <2>2, <2>4, <3>3, <3>4, <3>5, <3>6, RevisedReplays
    <3>8. Versioned(x.row)
      BY <2>2, <3>2, <3>3, RevisedVersions
    <3>9. QED
      BY <1>1, <3>7, <3>8
  <2>7. CASE x.op = "progress"
    <3>1. x.stage = "event"
      BY <1>1, <2>7 DEF Commit, Written, At
    <3>2. PICK arg \in Progress : arg = x.arg
      BY <1>3, <2>7 DEF GoodTx, IsTx, TxOf, Idle
    <3>3. /\ CheckedProgress(arg, old) /\ x.row.progress = arg
          /\ x.row.progresses = Insert(old.progresses, arg.version, arg)
          /\ x.row.contract = old.contract /\ x.row.contracts = old.contracts
      BY <2>3, <2>7, <3>1, <3>2 DEF HasWritten, KeepsColumns, Recorded, Replaced
    <3>4. x.row.state = old.state
      BY <1>2, <1>3, <2>7 DEF InFlightVersion
    <3>5. EventFor(x) = [type |-> "ProgressRefreshed", version |-> arg.version]
      BY <2>7, <3>2 DEF EventFor
    <3>6. Replays(x.row)
      BY <2>2, <2>4, <3>2, <3>3, <3>4, <3>5, ReportedReplays
    <3>7. Versioned(x.row)
      BY <2>2, <3>2, <3>3, ReportedVersions
    <3>8. QED
      BY <1>1, <3>6, <3>7
  <2>8. QED
    BY <1>3, <1>5, <2>5, <2>6, <2>7
<1>6. QED
  BY <1>4, <1>5

LEMMA TableStep == TypeInv /\ OwnerInv /\ HistoryInv /\ TableInv /\ [Next]_vars => TableInv'
<1> SUFFICES ASSUME TypeInv, OwnerInv, HistoryInv, TableInv, [Next]_vars PROVE TableInv'
  OBVIOUS
<1>a. \A h \in Handles : tx[h].op # "idle" => IsRow(tx[h].row)
  BY RowsOf
<1>1. ASSUME UNCHANGED <<schema, db, tx>> PROVE TableInv'
  BY <1>1 DEF TableInv, WritesTables
<1>2. ASSUME NEW h \in Handles, OpenStore(h) PROVE TableInv'
  <2>1. schema' = 3 /\ tx' = tx
    BY <1>2 DEF OpenStore
  <2>2. CASE schema = 3
    <3>1. db' = db
      BY <1>2, <2>2 DEF OpenStore, Migrated, TypeInv, TypeOK
    <3>2. QED
      BY <2>1, <2>2, <3>1, <1>1
  <2>3. CASE schema # 3
    <3>1. \A g \in Handles : tx'[g].op = "idle"
      BY <2>1, <2>3 DEF OwnerInv
    <3>2. \A g \in Handles : WritesTables(tx[g])'
      BY <3>1 DEF WritesTables, MayCommit, Holding
    <3>3. ASSUME NEW t \in DOMAIN db' PROVE Versioned(db'[t]) /\ Replays(db'[t])
      <4>1. t \in DOMAIN db /\ schema \in {1, 2}
        BY <1>2, <2>3 DEF OpenStore, Migrated, TableInv, TypeInv, TypeOK
      <4>2. db'[t] = MigrateRow(db[t])
        BY <1>2, <4>1 DEF OpenStore, Migrated
      <4>3. /\ IsRow(db[t]) /\ Replays(db[t])
            /\ db[t].contract.version = 1 /\ db[t].progress.version = 0
        BY <2>3, <4>1, RowsOf DEF TableInv
      <4>4. QED
        BY <4>2, <4>3, MigratedReplays
    <3>4. QED
      BY <2>1, <3>2, <3>3 DEF TableInv
  <2>4. QED
    BY <2>2, <2>3
<1>3. ASSUME NEW h \in Handles, Crash(h) \/ Rollback(h) \/ Return(h) PROVE TableInv'
  <2>1. tx' = [tx EXCEPT ![h] = Idle] /\ UNCHANGED <<schema, db>>
    BY <1>3 DEF Crash, Rollback, Return
  <2>2. WritesTables(Idle)
    BY DEF WritesTables, MayCommit, Holding, Idle
  <2>3. QED
    BY <2>1, <2>2, TablesMoved
<1>4. ASSUME NEW h \in Handles, Create(h) PROVE TableInv'
  <2>1. PICK t \in Tasks, a \in Agents, ok \in BOOLEAN, p \in Payloads :
            CreateTask(h, t, a, FirstContract(ok, p), FirstProgress(p))
    BY <1>4 DEF Create
  <2>2. PICK x : x = [op |-> "create", task |-> t,
                      row |-> NewRow(a, FirstContract(ok, p), FirstProgress(p)),
                      fresh |-> TRUE, stage |-> "event", arg |-> a]
    OBVIOUS
  <2>3. x.op = "create" /\ tx' = [tx EXCEPT ![h] = x] /\ UNCHANGED <<schema, db>>
    BY <2>1, <2>2 DEF CreateTask
  <2>4. FirstTables(x.row)
    BY <2>2 DEF NewRow, FirstTables
  <2>5. QED
    BY <2>3, <2>4, TablesMoved DEF WritesTables
<1>5. ASSUME NEW h \in Handles, NEW q, NEW v, NEW stage, Write(h, q, stage),
             tx[h].op \in {"transition", "contract", "progress"}, MayCommit(tx[h]),
             \/ q = [tx[h].row EXCEPT !.state = v] \/ q = [tx[h].row EXCEPT !.active = v]
             \/ q = [tx[h].row EXCEPT !.contract = v] \/ q = [tx[h].row EXCEPT !.progress = v],
             tx[h].op # "transition" => (stage \in Recorded <=> tx[h].stage \in Recorded),
             stage \in Appended <=> tx[h].stage \in Appended
      PROVE  TableInv'
  <2>1. /\ q.contracts = tx[h].row.contracts /\ q.progresses = tx[h].row.progresses
        /\ q.events = tx[h].row.events
    <3>1. PICK r : r = tx[h].row /\ IsRow(r)
      BY <1>5, <1>a
    <3>2. \/ q = [r EXCEPT !.state = v] \/ q = [r EXCEPT !.active = v]
          \/ q = [r EXCEPT !.contract = v] \/ q = [r EXCEPT !.progress = v]
      BY <1>5, <3>1
    <3>3. q.contracts = r.contracts /\ q.progresses = r.progresses /\ q.events = r.events
      BY <3>1, <3>2, ColumnKeepsTables
    <3>4. QED
      BY <3>1, <3>3
  <2>2. QED
    BY <1>5, <2>1, TablesWrote
<1>6. ASSUME NEW h \in Handles, NEW type, NEW version,
             Write(h, AppendEvent(tx[h].row, type, version), "event"),
             tx[h].op \in {"transition", "contract", "progress"},
             tx[h].op # "transition" => tx[h].stage \in Recorded,
             tx[h].stage \notin Appended \cup {"read", "done"},
             EventFor(tx[h]) = [type |-> type, version |-> version]
      PROVE  TableInv'
  <2>1. PICK q : q = AppendEvent(tx[h].row, type, version)
    OBVIOUS
  <2>2. /\ q.contracts = tx[h].row.contracts /\ q.progresses = tx[h].row.progresses
        /\ q.events = Insert(tx[h].row.events, NextSequence(tx[h].row.events), EventFor(tx[h]))
    BY <1>6, <1>a, <2>1, RecordedTables
  <2>3. MayCommit(tx[h])
    BY <1>6, WriterMayCommit
  <2>4. QED
    BY <1>6, <2>1, <2>2, <2>3, TablesWrote DEF Appended, Recorded
<1>7. ASSUME NEW h \in Handles, Transition(h) PROVE TableInv'
  <2>1. ASSUME NEW t \in Tasks, NEW s \in States, NEW g \in States, BeginTransition(h, t, s, g)
        PROVE TableInv'
    BY <2>1, TablesBegun DEF BeginTransition
  <2>2. CASE UpdateState(h)
    <3>1. /\ tx[h].op = "transition" /\ tx[h].stage = "read" /\ FirstWrite(h)
          /\ Write(h, [tx[h].row EXCEPT !.state = tx[h].arg.target], "state")
      BY <2>2 DEF UpdateState, At
    <3>2. MayCommit(tx[h])
      BY <3>1, WriterMayCommit
    <3>3. QED
      BY <1>5, <3>1, <3>2 DEF Appended
  <2>3. CASE AppendTransitionEvent(h)
    <3>1. /\ tx[h].op = "transition" /\ tx[h].stage = "state"
          /\ Write(h, AppendEvent(tx[h].row, EventOf[tx[h].arg.expected][tx[h].arg.target], 0), "event")
      BY <2>3 DEF AppendTransitionEvent, At
    <3>2. EventFor(tx[h]) = [type |-> EventOf[tx[h].arg.expected][tx[h].arg.target], version |-> 0]
      BY <3>1 DEF EventFor
    <3>3. QED
      BY <1>6, <3>1, <3>2 DEF Appended
  <2>4. CASE ReleaseOwner(h)
    <3>1. /\ tx[h].op = "transition" /\ tx[h].stage = "event"
          /\ Write(h, [tx[h].row EXCEPT !.active = FALSE], "owner")
      BY <2>4 DEF ReleaseOwner, At
    <3>2. MayCommit(tx[h])
      BY <3>1, WriterMayCommit
    <3>3. QED
      BY <1>5, <3>1, <3>2 DEF Appended
  <2>5. QED
    BY <1>7, <2>1, <2>2, <2>3, <2>4 DEF Transition
<1>8. ASSUME NEW h \in Handles, UpdateContract(h) PROVE TableInv'
  <2>1. ASSUME NEW t \in Tasks, NEW v \in Versions, NEW p \in Payloads,
               BeginContract(h, t, v, [version |-> v + 1, schema |-> TRUE, payload |-> p])
        PROVE TableInv'
    BY <2>1, TablesBegun DEF BeginContract
  <2>2. CASE AppendContractHistory(h)
    <3>1. tx[h].op = "contract" /\ tx[h].stage = "read" /\ FirstWrite(h)
      BY <2>2 DEF AppendContractHistory, At
    <3>2. PICK q : q = [tx[h].row EXCEPT !.contracts = Insert(@, tx[h].arg.version, tx[h].arg)]
      OBVIOUS
    <3>3. /\ q.contracts = Insert(tx[h].row.contracts, tx[h].arg.version, tx[h].arg)
          /\ q.progresses = tx[h].row.progresses /\ q.events = tx[h].row.events
      BY <1>a, <3>1, <3>2, RecordedTables
    <3>4. Write(h, q, "history") /\ MayCommit(tx[h])
      BY <2>2, <3>1, <3>2, WriterMayCommit DEF AppendContractHistory
    <3>5. QED
      BY <3>1, <3>3, <3>4, TablesWrote DEF Appended, Recorded
  <2>3. CASE ReplaceContract(h)
    <3>1. /\ tx[h].op = "contract" /\ tx[h].stage = "history"
          /\ Write(h, [tx[h].row EXCEPT !.contract = tx[h].arg], "current")
      BY <2>3 DEF ReplaceContract, At
    <3>2. MayCommit(tx[h])
      BY <3>1, WriterMayCommit
    <3>3. QED
      BY <1>5, <3>1, <3>2 DEF Appended, Recorded
  <2>4. CASE AppendVersionEvent(h, "contract", "ContractChanged")
    <3>1. /\ tx[h].op = "contract" /\ tx[h].stage = "current"
          /\ Write(h, AppendEvent(tx[h].row, "ContractChanged", tx[h].arg.version), "event")
      BY <2>4 DEF AppendVersionEvent, At
    <3>2. EventFor(tx[h]) = [type |-> "ContractChanged", version |-> tx[h].arg.version]
      BY <3>1 DEF EventFor
    <3>3. QED
      BY <1>6, <3>1, <3>2 DEF Appended, Recorded
  <2>5. QED
    BY <1>8, <2>1, <2>2, <2>3, <2>4 DEF UpdateContract
<1>9. ASSUME NEW h \in Handles, UpdateProgress(h) PROVE TableInv'
  <2>1. ASSUME NEW t \in Tasks, NEW v \in Versions, NEW m \in Versions, NEW r \in 0..MaxRun,
               NEW p \in Payloads,
               BeginProgress(h, t, v, [version |-> v + 1, payload |-> p, task |-> m, run |-> r])
        PROVE TableInv'
    BY <2>1, TablesBegun DEF BeginProgress
  <2>2. CASE AppendProgressHistory(h)
    <3>1. tx[h].op = "progress" /\ tx[h].stage = "read" /\ FirstWrite(h)
      BY <2>2 DEF AppendProgressHistory, At
    <3>2. PICK q : q = [tx[h].row EXCEPT !.progresses = Insert(@, tx[h].arg.version, tx[h].arg)]
      OBVIOUS
    <3>3. /\ q.progresses = Insert(tx[h].row.progresses, tx[h].arg.version, tx[h].arg)
          /\ q.contracts = tx[h].row.contracts /\ q.events = tx[h].row.events
      BY <1>a, <3>1, <3>2, RecordedTables
    <3>4. Write(h, q, "history") /\ MayCommit(tx[h])
      BY <2>2, <3>1, <3>2, WriterMayCommit DEF AppendProgressHistory
    <3>5. QED
      BY <3>1, <3>3, <3>4, TablesWrote DEF Appended, Recorded
  <2>3. CASE ReplaceProgress(h)
    <3>1. /\ tx[h].op = "progress" /\ tx[h].stage = "history"
          /\ Write(h, [tx[h].row EXCEPT !.progress = tx[h].arg], "current")
      BY <2>3 DEF ReplaceProgress, At
    <3>2. MayCommit(tx[h])
      BY <3>1, WriterMayCommit
    <3>3. QED
      BY <1>5, <3>1, <3>2 DEF Appended, Recorded
  <2>4. CASE AppendVersionEvent(h, "progress", "ProgressRefreshed")
    <3>1. /\ tx[h].op = "progress" /\ tx[h].stage = "current"
          /\ Write(h, AppendEvent(tx[h].row, "ProgressRefreshed", tx[h].arg.version), "event")
      BY <2>4 DEF AppendVersionEvent, At
    <3>2. EventFor(tx[h]) = [type |-> "ProgressRefreshed", version |-> tx[h].arg.version]
      BY <3>1 DEF EventFor
    <3>3. QED
      BY <1>6, <3>1, <3>2 DEF Appended, Recorded
  <2>5. QED
    BY <1>9, <2>1, <2>2, <2>3, <2>4 DEF UpdateProgress
<1>10. ASSUME NEW h \in Handles, Commit(h) PROVE TableInv'
  <2>1. PICK task, row : task = tx[h].task /\ row = tx[h].row
    OBVIOUS
  <2>2. /\ schema = 3 /\ schema' = 3
        /\ db' = [t \in DOMAIN db \cup {task} |-> IF t = task THEN row ELSE db[t]]
    BY <1>10, <2>1, CommitFacts
  <2>3. \A g \in Handles : WritesTables(tx[g])'
    BY <1>10, CommitEnds DEF WritesTables
  <2>4. Versioned(row) /\ Replays(row)
    BY <1>10, <2>1, TablesCommitted
  <2>5. \A t \in DOMAIN db' : Versioned(db'[t]) /\ Replays(db'[t])
    BY <2>2, <2>4 DEF TableInv
  <2>6. QED
    BY <2>2, <2>3, <2>5 DEF TableInv
<1>11. QED
  BY <1>1, <1>2, <1>3, <1>4, <1>7, <1>8, <1>9, <1>10 DEF Next, Close, vars

LEMMA TableInvHolds == Spec => [](TypeInv /\ TableInv)
BY TypeInit, TypeStep, OwnerInit, OwnerStep, HistoryInit, HistoryStep, TableInit, TableStep, PTL DEF Spec

\* Whatever handles race and wherever they fail, the log of a task replays to
\* its stored state: one event per commit, none lost, doubled or out of order,
\* and no report covers its own event although it was checked against a snapshot
\* (TransitionTask, appendVersionEvent, requireProgressPosition).
THEOREM LogReplaysHolds == Spec => []LogReplays
<1>1. TableInv => LogReplays
  BY DEF TableInv, Replays, StateReplays, CoversBehind, LogReplays, WatermarksBehindLog
<1>2. QED
  BY <1>1, TableInvHolds, PTL

\* A row that is versioned and has a log without gaps passes the validation.
LEMMA VersionedIsRecoverable ==
    ASSUME NEW row, IsRow(row), Contiguous(row), Versioned(row), row.contracts[1].schema
    PROVE  Recoverable(row)
<1>1. PICK c \in Nat, p \in Nat : c = row.contract.version /\ p = row.progress.version /\ c >= 1
  BY DEF IsRow, Contract, Progress, Versioned
<1>2. PICK n \in Nat : DOMAIN row.events = 1..n
  BY DEF Contiguous
<1>3. DOMAIN row.contracts = 1..c /\ DOMAIN row.progresses = 0..p
  BY <1>1 DEF Versioned
<1>4. Cardinality(1..c) = c /\ Cardinality(0..p) = p + 1 /\ Cardinality(1..n) = n
  <2>1. Cardinality(1..c) = IF 1 > c THEN 0 ELSE c - 1 + 1
    BY FS_Interval
  <2>2. Cardinality(0..p) = IF 0 > p THEN 0 ELSE p - 0 + 1
    BY FS_Interval
  <2>3. Cardinality(1..n) = IF 1 > n THEN 0 ELSE n - 1 + 1
    BY FS_Interval
  <2>4. QED
    BY <1>1, <2>1, <2>2, <2>3
<1>5. DOMAIN row.contracts = 1..Cardinality(DOMAIN row.contracts)
  BY <1>3, <1>4
<1>6. DOMAIN row.progresses = 0..(Cardinality(DOMAIN row.progresses) - 1)
  BY <1>3, <1>4
<1>7. DOMAIN row.events = 1..Cardinality(DOMAIN row.events)
  BY <1>2, <1>4
<1>8. \A v \in DOMAIN row.contracts : row.contracts[v].version = v /\ row.contracts[v].schema
  <2>1. \A v \in 1..c : v = 1 \/ v > 1
    OBVIOUS
  <2>2. QED
    BY <1>3, <2>1 DEF Versioned
<1>9. /\ Cardinality(DOMAIN row.contracts) > 0
      /\ row.contract = row.contracts[Cardinality(DOMAIN row.contracts)]
      /\ Cardinality(DOMAIN row.progresses) > 0
      /\ row.progress = row.progresses[Cardinality(DOMAIN row.progresses) - 1]
  BY <1>1, <1>3, <1>4 DEF Versioned
<1>10. \A v \in DOMAIN row.progresses : row.progresses[v].version = v
  BY DEF Versioned
<1>11. QED
  BY <1>5, <1>6, <1>7, <1>8, <1>9, <1>10 DEF Recoverable

\* A task created with a complete schema reference is never found corrupt: no
\* crash, race or migration leaves a version out, a current column that is not
\* the last version, or a hole in the log (validateRecoveredTask).
THEOREM RecoveryNeverCorruptHolds == Spec => []RecoveryNeverCorrupt
<1>1. TypeInv /\ TableInv => RecoveryNeverCorrupt
  BY RowsOf, VersionedIsRecoverable DEF TableInv, RecoveryNeverCorrupt
<1>2. QED
  BY <1>1, TableInvHolds, PTL
=============================================================================
