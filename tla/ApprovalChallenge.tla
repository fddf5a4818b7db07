------------------------- MODULE ApprovalChallenge -------------------------
(***************************************************************************)
(* The one-shot passkey challenges                                         *)
(* (tools/dev-agent-harness/internal/approvalchallenge).                   *)
(*                                                                         *)
(* A Manager keeps the pending challenges of one process in memory.  Its   *)
(* mutex is released while the verifier runs, so Consume is two steps: the *)
(* challenge is reserved, and after the callback the manager's state is    *)
(* looked at again.  This module has the manager's steps; ApprovalDecision *)
(* composes them with the coordinator and the store.                       *)
(*                                                                         *)
(* Abstracted: a challenge is a model value that is never drawn twice (32  *)
(* random bytes); RP ID, origin and the request's digest, which never      *)
(* change for a request, are part of the request.                          *)
(***************************************************************************)
EXTENDS Integers, FiniteSets

CONSTANTS
    Threads,      \* concurrent callers
    Challenges,   \* random challenges, a bound on how many are issued
    Requests,     \* approval requests (with their digests)
    Operators,    \* operator IDs
    MaxTime,      \* bound: the clock
    TTL,          \* Rules.TTL
    MaxPending    \* Rules.MaxPending

ASSUME ChallengeConstants ==
    MaxTime \in Nat /\ TTL \in Nat \ {0} /\ MaxPending \in Nat \ {0}

Times == 0..MaxTime

Binding == [request: Requests, decision: {"approve", "deny"}, operator: Operators,
            expires: 0..(MaxTime + TTL)]

VARIABLES
    clock,
    closed,    \* the manager has been closed
    pending,   \* the challenges that can still be consumed
    lastNow,   \* the latest time the manager has seen
    binding,   \* what every challenge ever issued is bound to
    invoked,   \* how often the verifier ran for each challenge issued
    verified,  \* the challenges whose assertion the verifier accepted
    call       \* where each caller is

challengeVars == <<closed, pending, lastNow, binding, invoked>>

Idle == [at |-> "idle"]

\* The caller is at a step of Begin with a request to bind, or at a step of
\* Complete with a challenge.
Call ==
    {Idle}
    \cup [at: {"issue"}, request: Requests, decision: {"approve", "deny"}, operator: Operators]
    \cup [at: {"verify", "record", "answer"}, challenge: Challenges]

ChallengeInit ==
    /\ clock \in Times
    /\ closed = FALSE /\ pending = {} /\ lastNow = 0
    /\ binding = [c \in {} |-> c] /\ invoked = [c \in {} |-> 0]
    /\ verified = {}
    /\ call = [t \in Threads |-> Idle]

Goto(t, state) == call' = [call EXCEPT ![t] = state]

\* trustedNowLocked on a manager that is not closed
Trusted == ~closed /\ clock >= lastNow

\* purgeDueLocked
Live == {c \in pending : clock < binding[c].expires}

Extend(table, c, value) == [d \in DOMAIN table \cup {c} |-> IF d = c THEN value ELSE table[d]]

Issue(t, c) ==
    /\ call[t].at = "issue"
    /\ Trusted
    /\ Cardinality(Live) < MaxPending
    /\ c \notin DOMAIN binding
    /\ lastNow' = clock
    /\ pending' = Live \cup {c}
    /\ binding' = Extend(binding, c, [request |-> call[t].request, decision |-> call[t].decision,
                                      operator |-> call[t].operator, expires |-> clock + TTL])
    /\ invoked' = Extend(invoked, c, 0)
    /\ Goto(t, Idle)
    /\ UNCHANGED <<clock, closed, verified>>

\* Closed, clock set back, at capacity, or no randomness.
IssueFails(t) ==
    /\ call[t].at = "issue"
    /\ IF Trusted THEN lastNow' = clock /\ pending' = Live ELSE UNCHANGED <<lastNow, pending>>
    /\ Goto(t, Idle)
    /\ UNCHANGED <<clock, closed, binding, invoked, verified>>

\* Mutant: the challenge is deleted only when the verifier has returned.
ReserveLate(t, c) ==
    /\ call[t].at = "idle"
    /\ Trusted
    /\ c \in Live
    /\ lastNow' = clock
    /\ pending' = Live
    /\ invoked' = [invoked EXCEPT ![c] = @ + 1]
    /\ Goto(t, [at |-> "verify", challenge |-> c])
    /\ UNCHANGED <<clock, closed, binding, verified>>

\* Consume, up to the verifier callback.
Reserve(t, c) ==
    /\ call[t].at = "idle"
    /\ Trusted
    /\ c \in Live
    /\ lastNow' = clock
    /\ pending' = Live \ {c}
    /\ invoked' = [invoked EXCEPT ![c] = @ + 1]
    /\ Goto(t, [at |-> "verify", challenge |-> c])
    /\ UNCHANGED <<clock, closed, binding, verified>>

\* An unknown or due challenge; what is due is purged all the same.
ReserveFails(t) ==
    /\ call[t].at = "idle"
    /\ Trusted
    /\ <<lastNow, pending>> # <<clock, Live>>
    /\ lastNow' = clock
    /\ pending' = Live
    /\ UNCHANGED <<clock, closed, binding, invoked, verified, call>>

\* Mutant: the manager is not looked at again after the callback.
VerifierAcceptsUnlocked(t) ==
    /\ call[t].at = "verify"
    /\ lastNow' = clock
    /\ verified' = verified \cup {call[t].challenge}
    /\ Goto(t, [call[t] EXCEPT !.at = "record"])
    /\ UNCHANGED <<clock, closed, pending, binding, invoked>>

\* The trusted verifier (external) accepts the assertion, and the manager is
\* still open and its clock still trusted.
VerifierAccepts(t) ==
    /\ call[t].at = "verify"
    /\ Trusted
    /\ lastNow' = clock
    /\ verified' = verified \cup {call[t].challenge}
    /\ Goto(t, [call[t] EXCEPT !.at = "record"])
    /\ UNCHANGED <<clock, closed, pending, binding, invoked>>

\* It rejects, fails, panics or returns no credential, or the manager has been
\* closed or its clock set back meanwhile.
VerifierRejects(t) ==
    /\ call[t].at = "verify"
    /\ Goto(t, Idle)
    /\ UNCHANGED <<clock, challengeVars, verified>>

CloseManager ==
    /\ ~closed
    /\ closed' = TRUE
    /\ pending' = {}
    /\ UNCHANGED <<clock, lastNow, binding, invoked, verified, call>>

SetClock(t) ==
    /\ t # clock
    /\ clock' = t
    /\ UNCHANGED <<challengeVars, verified, call>>
=============================================================================
