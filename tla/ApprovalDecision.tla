------------------------- MODULE ApprovalDecision -------------------------
(***************************************************************************)
(* The coordinator of verified decisions                                   *)
(* (tools/dev-agent-harness/internal/approvaldecision), composed with the  *)
(* challenge manager and the durable store.                                *)
(*                                                                         *)
(* Begin reads the store and then asks for a challenge; Complete consumes  *)
(* the challenge and then records the decision.  There is no lock over     *)
(* both: other calls, a Close, a cancellation, the expiry of the request   *)
(* and a restart of the process come in between.                           *)
(*                                                                         *)
(* Of the store (ApprovalStore) only what the coordinator sees is kept:    *)
(* one atomic, durable change per operation that may fail without effect,  *)
(* or poison the store with or without effect.                             *)
(***************************************************************************)
EXTENDS ApprovalChallenge

CONSTANTS
    NoOperator,  \* actor of a request nobody decided
    Deadline     \* when the requests expire

ASSUME DecisionConstants == NoOperator \notin Operators /\ Deadline \in Nat

VARIABLES
    record,     \* the requests as they are on disk
    storeLast,  \* the latest time the store has seen
    poisoned,
    results     \* what callers of Complete were told

decisionVars == <<record, storeLast, poisoned, results>>
vars == <<clock, challengeVars, verified, call, decisionVars>>

RequestState == [state: {"pending", "approved", "denied", "cancelled", "expired", "stale"},
                 actor: Operators \cup {NoOperator}]

Result == [challenge: Challenges, request: Requests, state: {"approved", "denied"},
           operator: Operators]

Init ==
    /\ ChallengeInit
    /\ record = [r \in Requests |-> [state |-> "pending", actor |-> NoOperator]]
    /\ storeLast = 0 /\ poisoned = FALSE
    /\ results = {}

-----------------------------------------------------------------------------
(* The store, as its callers see it.                                        *)

StoreUsable == ~poisoned /\ clock >= storeLast

Due(r) == record[r].state \in {"pending", "approved"} /\ clock >= Deadline

\* A commit: done, failed before the rename, or poisoned with unknown effect.
Done(r, state) ==
    record' = [record EXCEPT ![r] = state] /\ UNCHANGED poisoned

Fails(r, state) ==
    \/ UNCHANGED <<record, poisoned>>
    \/ poisoned' = TRUE /\ record' \in {record, [record EXCEPT ![r] = state]}

Commit(r, state) == Done(r, state) \/ Fails(r, state)

ExpiredState(r) ==
    [state |-> "expired",
     actor |-> IF record[r].state = "pending" THEN NoOperator ELSE record[r].actor]

\* Cancel and MarkStale, called by others.
Withdraw(r) ==
    /\ StoreUsable
    /\ storeLast' = clock
    /\ \/ Due(r) /\ Commit(r, ExpiredState(r))
       \/ ~Due(r) /\ record[r].state = "pending" /\ Commit(r, [record[r] EXCEPT !.state = "cancelled"])
       \/ ~Due(r) /\ record[r].state = "approved" /\ Commit(r, [record[r] EXCEPT !.state = "stale"])
    /\ UNCHANGED <<clock, challengeVars, verified, call, results>>

-----------------------------------------------------------------------------
(* Begin.                                                                   *)

BeginRead(t, r, decision, operator) ==
    /\ call[t].at = "idle"
    /\ StoreUsable
    /\ ~Due(r)
    /\ record[r].state = "pending"
    /\ storeLast' = clock
    /\ Goto(t, [at |-> "issue", request |-> r, decision |-> decision, operator |-> operator])
    /\ UNCHANGED <<clock, challengeVars, verified, record, poisoned, results>>

\* Get records an expiry; what it returns is then not pending.
BeginExpires(t, r) ==
    /\ call[t].at = "idle"
    /\ StoreUsable
    /\ Due(r)
    /\ storeLast' = clock
    /\ Commit(r, ExpiredState(r))
    /\ UNCHANGED <<clock, challengeVars, verified, call, results>>

-----------------------------------------------------------------------------
(* Complete, once the challenge is verified.                                *)

\* Mutant: the decision of the binding is not passed on.
DecidedStateApproved(b) == [state |-> "approved", actor |-> b.operator]

DecidedState(b) ==
    [state |-> IF b.decision = "approve" THEN "approved" ELSE "denied", actor |-> b.operator]

\* Mutant: a transition from any state.
DecideAgain(t) ==
    /\ call[t].at = "record"
    /\ LET b == binding[call[t].challenge]
       IN  /\ StoreUsable /\ ~Due(b.request)
           /\ Done(b.request, DecidedState(b))
    /\ storeLast' = clock
    /\ Goto(t, [call[t] EXCEPT !.at = "answer"])
    /\ UNCHANGED <<clock, challengeVars, verified, results>>

Decide(t) ==
    /\ call[t].at = "record"
    /\ LET b == binding[call[t].challenge]
       IN  /\ StoreUsable /\ ~Due(b.request)
           /\ record[b.request].state = "pending"
           /\ Done(b.request, DecidedState(b))
    /\ storeLast' = clock
    /\ Goto(t, [call[t] EXCEPT !.at = "answer"])
    /\ UNCHANGED <<clock, challengeVars, verified, results>>

\* The store refuses, records the expiry instead, or fails.
DecideFails(t) ==
    /\ call[t].at = "record"
    /\ LET b == binding[call[t].challenge]
           r == b.request
       IN  \/ ~StoreUsable /\ UNCHANGED <<record, storeLast, poisoned>>
           \/ /\ StoreUsable /\ storeLast' = clock
              /\ \/ Due(r) /\ Commit(r, ExpiredState(r))
                 \/ ~Due(r) /\ record[r].state # "pending" /\ UNCHANGED <<record, poisoned>>
                 \/ ~Due(r) /\ record[r].state = "pending" /\ Fails(r, DecidedState(b))
    /\ Goto(t, Idle)
    /\ UNCHANGED <<clock, challengeVars, verified, results>>

Answer(t) ==
    /\ call[t].at = "answer"
    /\ LET c == call[t].challenge
           b == binding[c]
       IN results' = results \cup {[challenge |-> c, request |-> b.request,
                                    state |-> DecidedState(b).state, operator |-> b.operator]}
    /\ Goto(t, Idle)
    /\ UNCHANGED <<clock, challengeVars, verified, record, storeLast, poisoned>>

\* The process restarts: calls and challenges are gone, the store is opened anew
\* and knows the time of its last commit only.
Restart ==
    /\ closed' = FALSE /\ pending' = {} /\ lastNow' = 0
    /\ call' = [t \in Threads |-> Idle]
    /\ poisoned' = FALSE
    /\ storeLast' \in 0..storeLast
    /\ UNCHANGED <<clock, binding, invoked, verified, record, results>>

-----------------------------------------------------------------------------
Manager(t) ==
    \/ \E c \in Challenges : Issue(t, c) \/ Reserve(t, c)
    \/ IssueFails(t) \/ ReserveFails(t) \/ VerifierAccepts(t) \/ VerifierRejects(t)

Coordinator(t) ==
    \/ \E r \in Requests :
        \/ \E d \in {"approve", "deny"}, o \in Operators : BeginRead(t, r, d, o)
        \/ BeginExpires(t, r)
    \/ Decide(t) \/ DecideFails(t) \/ Answer(t)

Next ==
    \/ \E t \in Threads : Coordinator(t) \/ (Manager(t) /\ UNCHANGED decisionVars)
    \/ CloseManager /\ UNCHANGED decisionVars
    \/ \E t \in Times : SetClock(t) /\ UNCHANGED decisionVars
    \/ \E r \in Requests : Withdraw(r)
    \/ Restart

Spec == Init /\ [][Next]_vars

-----------------------------------------------------------------------------

\* The verifier runs at most once for a challenge, whoever races to complete it
\* and whatever becomes of the verification (Consume deletes before it calls).
OneShot == \A c \in DOMAIN invoked : invoked[c] <= 1

\* Every recorded decision, answered or not, was verified: there is a challenge
\* issued for exactly this request, decision and operator whose assertion was
\* accepted (Begin's binding, Consume's result and the single Approve or Deny).
DecisionsVerified ==
    \A r \in Requests :
        \A decision \in {"approve", "deny"} :
            record[r].state = (IF decision = "approve" THEN "approved" ELSE "denied") =>
                \E c \in verified : /\ binding[c].request = r
                                  /\ binding[c].decision = decision
                                  /\ binding[c].operator = record[r].actor

\* A caller is told of a decision only if it is the recorded one, and of opposing
\* challenges for one request only one ever succeeds; an approval may later expire
\* or become stale, but keeps its decider (Complete's use of the store's answer).
ResultsStand ==
    /\ \A s \in results :
        /\ record[s.request].actor = s.operator
        /\ record[s.request].state \in
              IF s.state = "approved" THEN {"approved", "expired", "stale"} ELSE {"denied"}
    /\ \A s, u \in results : s.request = u.request => s.challenge = u.challenge

\* Close suppresses the verification it overtakes: no challenge becomes verified
\* once the manager is closed (Consume's second look under the mutex).
CloseSuppressesStep ==
    closed => \A t \in Threads : call'[t].at = "record" => call[t].at = "record"

CloseSuppresses == [][CloseSuppressesStep]_vars
=============================================================================
