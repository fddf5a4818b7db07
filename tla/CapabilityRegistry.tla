------------------------ MODULE CapabilityRegistry ------------------------
(***************************************************************************)
(* The broker's registry of opaque capabilities                            *)
(* (tools/dev-agent-harness/internal/capability).                          *)
(*                                                                         *)
(* A handle names a lease: one subject, one provider scope, a number of    *)
(* uses and a deadline on both the monotonic and the wall clock.  Every    *)
(* operation is one critical section of the registry's mutex, except Issue,*)
(* which reads the clocks before it draws a handle and takes the lock.     *)
(* This module has the critical sections; ConnectSession composes them     *)
(* with the connections of the broker.                                     *)
(*                                                                         *)
(* Abstracted: a handle and its digest are one model value; a draw may     *)
(* collide with a live handle but is never a handle that was deleted       *)
(* before (32 random bytes); a scope stands for provider, repository,      *)
(* operation and the host derived from them; a subject for instance, UID   *)
(* and workspace.  The policy version never changes in a registry.         *)
(***************************************************************************)
EXTENDS Integers, FiniteSets

CONSTANTS
    Handles,     \* random handles, a bound on how many are drawn
    Subjects,    \* peer-derived subjects
    ApiScopes,   \* the scopes of REST reads and of OpenAI responses
    GitScopes,   \* the scopes of Git reads
    ApiUses,     \* uses of a lease on an API scope
    TTL,         \* issueTTL
    MaxTime,     \* bound: both clocks
    MaxEpoch     \* bound: the revocation epoch

ASSUME RegistryConstants ==
    /\ ApiUses \in Nat \ {0} /\ TTL \in Nat \ {0}
    /\ MaxTime \in Nat /\ MaxEpoch \in Nat \ {0}
    /\ ApiScopes \cap GitScopes = {}

Scopes == ApiScopes \cup GitScopes

UsesFor(scope) == IF scope \in GitScopes THEN 1 ELSE ApiUses

Reading == [elapsed: 0..MaxTime, wall: 0..MaxTime]

Entry == [subject: Subjects, scope: Scopes, issued: Reading, uses: 1..ApiUses, epoch: 1..MaxEpoch]

VARIABLES
    elapsed,   \* the monotonic clock of this process
    wall,      \* the wall clock
    entries,   \* the live leases, by handle
    epoch      \* the revocation epoch

registryVars == <<entries, epoch>>
clockVars == <<elapsed, wall>>

RegistryInit ==
    /\ elapsed = 0 /\ wall \in 0..MaxTime
    /\ entries = [h \in {} |-> h] /\ epoch = 1

Now == [elapsed |-> elapsed, wall |-> wall]

Without(h) == [k \in DOMAIN entries \ {h} |-> entries[k]]
With(h, e) == [k \in DOMAIN entries \cup {h} |-> IF k = h THEN e ELSE entries[k]]

\* Mutant: the lease ends on the wall clock only.
ExpiredOnWall(e) == wall >= e.issued.wall + TTL

Expired(e) ==
    \/ elapsed >= e.issued.elapsed + TTL
    \/ wall >= e.issued.wall + TTL

\* Mutant: the handle is a bearer token.
MatchesScope(e, subject, scope) == e.scope = scope

Matches(e, subject, scope) == e.subject = subject /\ e.scope = scope

CanInsert(h) == h \notin DOMAIN entries

\* Issue, with the lock: the lease starts when the clocks were read, and has
\* the epoch of now.
Insert(h, subject, scope, reading) ==
    /\ CanInsert(h)
    /\ entries' = With(h, [subject |-> subject, scope |-> scope, issued |-> reading,
                           uses |-> UsesFor(scope), epoch |-> epoch])
    /\ UNCHANGED epoch

Consumable(h, subject, scope) ==
    /\ h \in DOMAIN entries
    /\ LET e == entries[h]
       IN  /\ e.epoch = epoch
           /\ Matches(e, subject, scope)
           /\ elapsed >= e.issued.elapsed
           /\ ~Expired(e)

\* Consume, granted: the last use deletes the lease.
Consume(h, subject, scope) ==
    /\ Consumable(h, subject, scope)
    /\ entries' = IF entries[h].uses = 1 THEN Without(h)
                  ELSE With(h, [entries[h] EXCEPT !.uses = @ - 1])
    /\ UNCHANGED epoch

\* Consume, denied: a dead lease is deleted, one of somebody else is left.
DenyConsume(h, subject, scope) ==
    /\ ~Consumable(h, subject, scope)
    /\ entries' = IF h \in DOMAIN entries /\ (entries[h].epoch # epoch \/ Expired(entries[h]))
                  THEN Without(h) ELSE entries
    /\ UNCHANGED epoch

Dead(h) ==
    \/ entries[h].epoch # epoch
    \/ elapsed < entries[h].issued.elapsed
    \/ Expired(entries[h])

Revocable(h, subject) ==
    h \in DOMAIN entries /\ ~Dead(h) /\ entries[h].subject = subject

\* Mutant: the caller is told the lease is gone and it is left to expire.
RevokeKeepsEntry(h, subject) ==
    /\ Revocable(h, subject)
    /\ UNCHANGED <<entries, epoch>>

RevokeForSubject(h, subject) ==
    /\ Revocable(h, subject)
    /\ entries' = Without(h)
    /\ UNCHANGED epoch

\* Registry.Revoke, by handle alone.
RevokeHandle(h) ==
    /\ h \in DOMAIN entries
    /\ entries' = Without(h)
    /\ UNCHANGED epoch

DenyRevoke(h, subject) ==
    /\ ~Revocable(h, subject)
    /\ entries' = IF h \in DOMAIN entries /\ Dead(h) THEN Without(h) ELSE entries
    /\ UNCHANGED epoch

AdvanceRevocationEpoch(e) ==
    /\ e > epoch
    /\ epoch' = e
    /\ entries' = [h \in {} |-> h]

\* Time passes; the wall clock may also be set.
Tick ==
    /\ elapsed' \in elapsed..MaxTime
    /\ wall' \in 0..MaxTime
    /\ <<elapsed', wall'>> # <<elapsed, wall>>
    /\ UNCHANGED registryVars
=============================================================================
