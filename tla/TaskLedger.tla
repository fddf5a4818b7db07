---------------------------- MODULE TaskLedger ----------------------------
(***************************************************************************)
(* What the Control store promises its callers, without transactions,      *)
(* handles, history tables or failures: a ledger of tasks in which each    *)
(* successful operation is one indivisible step.  A database written by an *)
(* earlier schema version is adopted as a whole.                           *)
(***************************************************************************)
EXTENDS Integers

CONSTANTS Tasks, Agents

VARIABLES
    adopted,  \* has the database been brought to the current schema?
    ledger    \* the tasks that exist, by task ID

lvars == <<adopted, ledger>>

Finished == {"completed", "cancelled"}

Successors ==
    [ready     |-> {"running", "cancelled"},
     running   |-> {"waiting", "suspended", "reviewing_completion", "cancelled"},
     waiting   |-> {"running", "cancelled"},
     suspended |-> {"running", "cancelled"},
     reviewing_completion |-> {"running", "completed", "cancelled"},
     completed |-> {},
     cancelled |-> {}]

Unfinished(d, agent) ==
    {t \in DOMAIN d : d[t].owner = agent /\ d[t].state \notin Finished}

\* No agent has two unfinished tasks.
Exclusive(d) ==
    \A a \in Agents : \A t, u \in Unfinished(d, a) : t = u

LInit ==
    /\ adopted \in BOOLEAN
    /\ ledger = [t \in {} |-> t]

Adopt ==
    /\ ~adopted
    /\ adopted' = TRUE
    /\ Exclusive(ledger')

Put(t, row) ==
    /\ adopted
    /\ ledger' = [u \in DOMAIN ledger \cup {t} |-> IF u = t THEN row ELSE ledger[u]]
    /\ UNCHANGED adopted

Create(t, agent) ==
    /\ t \notin DOMAIN ledger
    /\ Unfinished(ledger, agent) = {}
    /\ Put(t, [state |-> "ready", owner |-> agent, contract |-> 1, progress |-> 0,
               task |-> 0, run |-> 0, length |-> 2])

Move(t, target) ==
    /\ t \in DOMAIN ledger
    /\ target \in Successors[ledger[t].state]
    /\ Put(t, [ledger[t] EXCEPT !.state = target, !.length = @ + 1])

Revise(t) ==
    /\ t \in DOMAIN ledger
    /\ Put(t, [ledger[t] EXCEPT !.contract = @ + 1, !.length = @ + 1])

\* A report covers no more than the log it was added to, and no less than before.
Report(t) ==
    /\ t \in DOMAIN ledger
    /\ \E covered \in ledger[t].task..ledger[t].length :
         /\ ledger'[t].run >= ledger[t].run
         /\ Put(t, [ledger[t] EXCEPT !.progress = @ + 1, !.task = covered,
                                     !.run = ledger'[t].run, !.length = @ + 1])

LNext ==
    \/ Adopt
    \/ \E t \in Tasks :
        \/ \E a \in Agents : Create(t, a)
        \/ \E s \in DOMAIN Successors : Move(t, s)
        \/ Revise(t)
        \/ Report(t)

Spec == LInit /\ [][LNext]_lvars
=============================================================================
