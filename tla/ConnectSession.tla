-------------------------- MODULE ConnectSession --------------------------
(***************************************************************************)
(* The connections of the egress broker, from a bound peer to the reply:   *)
(* connectsession (phases), capabilitycontrol (issue and revoke),          *)
(* brokerhttp and brokerexchange, egresstransaction (consume, resolve,     *)
(* forward), upstreamforwarder (one round trip), over the registry.        *)
(*                                                                         *)
(* A connection carries one request.  The phase context of a connection    *)
(* may end at any step; it is looked at only where the code looks at it,   *)
(* so an exchange that has begun runs on after its client's time is up.    *)
(* A reply may be lost: the broker then has done what the client never     *)
(* learns.                                                                 *)
(*                                                                         *)
(* Abstracted: the wire formats, TLS and the policy are a request that is  *)
(* either refused before anything happens or is one of the three below     *)
(* with the scope the policy derives for it.                               *)
(***************************************************************************)
EXTENDS CapabilityRegistry

CONSTANTS
    Conns,        \* connections at a time
    MaxIssueTry   \* maxIssueTry: draws per issue

ASSUME SessionConstants == MaxIssueTry \in Nat \ {0}

VARIABLES
    conn,     \* what each connection is doing
    lease,    \* history: the lease that every handle ever drawn was given
    log       \* history: what happened to each handle

historyVars == <<lease, log>>
vars == <<clockVars, registryVars, conn, historyVars>>

Free == [at |-> "free"]

Connection ==
    {Free}
    \cup [at: {"issue"}, subject: Subjects, scope: Scopes]
    \cup [at: {"draw"}, subject: Subjects, scope: Scopes, reading: Reading, tries: 0..MaxIssueTry]
    \cup [at: {"revoke", "issued", "revoked"}, subject: Subjects, handle: Handles]
    \cup [at: {"exchange", "consumed", "upstream", "delivered"},
          subject: Subjects, handle: Handles, scope: Scopes]

Lease == [subject: Subjects, scope: Scopes, born: 0..MaxTime]

\* The upstream attempts made with a handle, and whether somebody was told
\* that it is over.
Log == [attempts: Nat, over: BOOLEAN]

Init ==
    /\ RegistryInit
    /\ conn = [c \in Conns |-> Free]
    /\ lease = [h \in {} |-> h]
    /\ log = [h \in Handles |-> [attempts |-> 0, over |-> FALSE]]

Goto(c, state) == conn' = [conn EXCEPT ![c] = state]
Move(c, at) == Goto(c, [conn[c] EXCEPT !.at = at])

\* What a client can know: the handles the broker has drawn.
Known == DOMAIN lease

Accept(c) ==
    /\ conn[c] = Free
    /\ \E s \in Subjects :
          \/ \E x \in Scopes : Goto(c, [at |-> "issue", subject |-> s, scope |-> x])
          \/ \E h \in Known : Goto(c, [at |-> "revoke", subject |-> s, handle |-> h])
          \/ \E h \in Known, x \in Scopes :
                Goto(c, [at |-> "exchange", subject |-> s, handle |-> h, scope |-> x])
    /\ UNCHANGED <<clockVars, registryVars, historyVars>>

-----------------------------------------------------------------------------
(* Control requests.                                                        *)

\* Controller.Issue and the first half of Registry.Issue.
ReadClocks(c) ==
    /\ conn[c].at = "issue"
    /\ Goto(c, [at |-> "draw", subject |-> conn[c].subject, scope |-> conn[c].scope,
                reading |-> Now, tries |-> 0])
    /\ UNCHANGED <<clockVars, registryVars, historyVars>>

Issue(c, h) ==
    /\ conn[c].at = "draw"
    /\ h \notin Known \/ h \in DOMAIN entries
    /\ Insert(h, conn[c].subject, conn[c].scope, conn[c].reading)
    /\ lease' = [k \in Known \cup {h} |->
                    IF k = h THEN [subject |-> conn[c].subject, scope |-> conn[c].scope, born |-> conn[c].reading.elapsed]
                    ELSE lease[k]]
    /\ Goto(c, [at |-> "issued", subject |-> conn[c].subject, handle |-> h])
    /\ UNCHANGED <<clockVars, log>>

Collide(c, h) ==
    /\ conn[c].at = "draw"
    /\ h \in DOMAIN entries
    /\ Goto(c, IF conn[c].tries + 1 < MaxIssueTry THEN [conn[c] EXCEPT !.tries = @ + 1] ELSE Free)
    /\ UNCHANGED <<clockVars, registryVars, historyVars>>

Revoke(c) ==
    /\ conn[c].at = "revoke"
    /\ RevokeForSubject(conn[c].handle, conn[c].subject)
    /\ log' = [log EXCEPT ![conn[c].handle].over = TRUE]
    /\ Move(c, "revoked")
    /\ UNCHANGED <<clockVars, lease>>

RevokeDenied(c) ==
    /\ conn[c].at = "revoke"
    /\ DenyRevoke(conn[c].handle, conn[c].subject)
    /\ Goto(c, Free)
    /\ UNCHANGED <<clockVars, historyVars>>

-----------------------------------------------------------------------------
(* An exchange: Transaction.Execute and Forwarder.Forward.                  *)

Spend(c) ==
    /\ conn[c].at = "exchange"
    /\ Consume(conn[c].handle, conn[c].subject, conn[c].scope)
    /\ Move(c, "consumed")
    /\ UNCHANGED <<clockVars, historyVars>>

SpendDenied(c) ==
    /\ conn[c].at = "exchange"
    /\ DenyConsume(conn[c].handle, conn[c].subject, conn[c].scope)
    /\ Goto(c, Free)
    /\ UNCHANGED <<clockVars, historyVars>>

\* Mutant: a failed attempt is followed by a second.
RoundTripAgain(c) ==
    /\ conn[c].at \in {"consumed", "upstream"}
    /\ log' = [log EXCEPT ![conn[c].handle].attempts = @ + 1]
    /\ Move(c, "upstream")
    /\ UNCHANGED <<clockVars, registryVars, lease>>

\* The resolver has the provider's credential, the policy allows the prepared
\* request again, and the one round trip starts.
RoundTrip(c) ==
    /\ conn[c].at = "consumed"
    /\ log' = [log EXCEPT ![conn[c].handle].attempts = @ + 1]
    /\ Move(c, "upstream")
    /\ UNCHANGED <<clockVars, registryVars, lease>>

\* A valid response reaches the sink of this exchange.
Deliver(c) ==
    /\ conn[c].at = "upstream"
    /\ Move(c, "delivered")
    /\ UNCHANGED <<clockVars, registryVars, historyVars>>

-----------------------------------------------------------------------------

\* The connection ends: the reply is written, denied or lost, the phase is
\* over, the client is gone, or the resolver or the upstream failed.  A use
\* that was spent stays spent.
End(c) ==
    /\ conn[c] # Free
    /\ Goto(c, Free)
    /\ UNCHANGED <<clockVars, registryVars, historyVars>>

\* The operator's revocation of everything.
Advance(e) ==
    /\ AdvanceRevocationEpoch(e)
    /\ log' = [h \in Handles |-> [log[h] EXCEPT !.over = @ \/ h \in DOMAIN entries]]
    /\ UNCHANGED <<clockVars, conn, lease>>

\* The revocation of one handle by the operator (no connection can ask for it).
Withdraw(h) ==
    /\ RevokeHandle(h)
    /\ log' = [log EXCEPT ![h].over = TRUE]
    /\ UNCHANGED <<clockVars, conn, lease>>

\* The broker restarts with an empty registry and a monotonic clock of its own.
Restart ==
    /\ entries' = [h \in {} |-> h] /\ epoch' = 1
    /\ elapsed' = 0
    /\ conn' = [c \in Conns |-> Free]
    /\ log' = [h \in Handles |-> [log[h] EXCEPT !.over = @ \/ h \in Known]]
    /\ UNCHANGED <<wall, lease>>

PassTime == Tick /\ UNCHANGED <<conn, historyVars>>

ControlStep(c) ==
    \/ ReadClocks(c)
    \/ \E h \in Handles : Issue(c, h) \/ Collide(c, h)
    \/ Revoke(c) \/ RevokeDenied(c)

ExchangeStep(c) ==
    Spend(c) \/ SpendDenied(c) \/ RoundTrip(c) \/ Deliver(c)

Next ==
    \/ \E c \in Conns : Accept(c) \/ ControlStep(c) \/ ExchangeStep(c) \/ End(c)
    \/ \E e \in 1..MaxEpoch : Advance(e)
    \/ \E h \in Handles : Withdraw(h)
    \/ Restart
    \/ PassTime

Spec == Init /\ [][Next]_vars

-----------------------------------------------------------------------------
(* Properties.                                                              *)

Paid(h) == Cardinality({c \in Conns : conn[c].at = "consumed" /\ conn[c].handle = h})

\* Consume is atomic and comes before the upstream attempt, and Execute neither
\* refunds nor retries: the attempts made with a handle, the exchanges on their
\* way to one and the uses left never exceed the uses of the lease.
AttemptsPaid ==
    \A h \in DOMAIN lease :
        log[h].attempts + Paid(h) + (IF h \in DOMAIN entries THEN entries[h].uses ELSE 0)
            <= UsesFor(lease[h].scope)

\* An exchange that got past Consume has the subject and the scope the handle
\* was issued for, however requests, revocations and restarts interleave.
AttemptsAuthorised ==
    \A c \in Conns :
        conn[c].at \in {"consumed", "upstream", "delivered"} =>
            /\ lease[conn[c].handle].subject = conn[c].subject
            /\ lease[conn[c].handle].scope = conn[c].scope

\* A handle somebody revoked, that an epoch or a restart invalidated, or whose
\* TTL has passed on the monotonic clock is never consumed again, not even
\* when the wall clock is set back or an issue was under way at the time.
OverIsOver ==
    [][\A c \in Conns :
          conn[c].at = "exchange" /\ conn'[c].at = "consumed" =>
              /\ ~log[conn[c].handle].over
              /\ elapsed < lease[conn[c].handle].born + TTL]_vars
=============================================================================
