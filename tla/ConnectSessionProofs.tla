------------------------- MODULE ConnectSessionProofs -------------------------
(***************************************************************************)
(* Proofs about ConnectSession, for any connections, handles, subjects and *)
(* scopes and any number of uses.                                          *)
(*                                                                         *)
(* SessionInv ties the three places that know a handle together: the live  *)
(* leases of the registry, the requests of the connections, and the        *)
(* history of what the handle was issued for and what was done with it.    *)
(***************************************************************************)
EXTENDS ConnectSession, FiniteSetTheorems, TLAPS

HasHandle(s) == s.at \in {"revoke", "issued", "revoked", "exchange", "consumed", "upstream", "delivered"}
PastConsume(s) == s.at \in {"consumed", "upstream", "delivered"}

\* A request for a handle that was drawn; past Consume, of the one who has it.
RequestOk(s) ==
    /\ HasHandle(s) => s.handle \in Known
    /\ PastConsume(s) => lease[s.handle].subject = s.subject /\ lease[s.handle].scope = s.scope

ConnInv == conn \in [Conns -> Connection] /\ \A c \in Conns : RequestOk(conn[c])

\* A handle that was never drawn has no history.
HistoryInv ==
    /\ Known \subseteq Handles /\ \A h \in Known : lease[h] \in Lease
    /\ log \in [Handles -> Log]
    /\ \A h \in Handles \ Known : log[h].attempts = 0 /\ ~log[h].over

\* A live lease is the one that was issued, and nobody was told it is over.
EntryOk(h, e) ==
    /\ e \in Entry
    /\ e.subject = lease[h].subject /\ e.scope = lease[h].scope
    /\ e.issued.elapsed = lease[h].born
    /\ ~log[h].over

EntryInv ==
    /\ epoch \in 1..MaxEpoch /\ elapsed \in 0..MaxTime /\ wall \in 0..MaxTime
    /\ DOMAIN entries \subseteq Known
    /\ \A h \in DOMAIN entries : EntryOk(h, entries[h])

\* The exchanges on their way to an attempt, and the uses that are left.
Paying(h) == {c \in Conns : conn[c].at = "consumed" /\ conn[c].handle = h}
Left(h) == IF h \in DOMAIN entries THEN entries[h].uses ELSE 0

UseInv ==
    \A h \in Known :
        /\ IsFiniteSet(Paying(h))
        /\ log[h].attempts + Cardinality(Paying(h)) + Left(h) <= UsesFor(lease[h].scope)

SessionInv == ConnInv /\ HistoryInv /\ EntryInv /\ UseInv

-----------------------------------------------------------------------------
(* The records of a connection.                                             *)

LEMMA RequestRecord ==
    ASSUME NEW s \in Connection
    PROVE  /\ s.at = "free" <=> s = Free
           /\ s.at = "issue" => s.subject \in Subjects /\ s.scope \in Scopes
           /\ s.at = "draw" => /\ s.subject \in Subjects /\ s.scope \in Scopes
                               /\ s.reading \in Reading /\ s.tries \in 0..MaxIssueTry
           /\ HasHandle(s) => s.subject \in Subjects /\ s.handle \in Handles
           /\ s.at \in {"exchange"} \/ PastConsume(s) => s.scope \in Scopes
  BY DEF Connection, Free, HasHandle, PastConsume

LEMMA FreeOk == Free \in Connection /\ RequestOk(Free) /\ Free.at = "free"
  BY DEF Free, Connection, RequestOk, HasHandle, PastConsume

\* A request goes on with the handle, the subject and the scope it has.
LEMMA RequestGoesOn ==
    ASSUME NEW s \in Connection, NEW at,
           \/ s.at = "revoke" /\ at = "revoked"
           \/ /\ s.at \in {"exchange", "consumed", "upstream"}
              /\ at \in {"consumed", "upstream", "delivered"}
    PROVE  /\ [s EXCEPT !.at = at] \in Connection
           /\ [s EXCEPT !.at = at].at = at
           /\ [s EXCEPT !.at = at].handle = s.handle
           /\ at # "revoked" => [s EXCEPT !.at = at].subject = s.subject
           /\ at # "revoked" => [s EXCEPT !.at = at].scope = s.scope
<1>1. CASE s.at = "revoke" /\ at = "revoked"
  <2>1. s \in [at: {"revoke", "issued", "revoked"}, subject: Subjects, handle: Handles]
    BY <1>1 DEF Connection, Free
  <2>2. [s EXCEPT !.at = at] \in [at: {"revoke", "issued", "revoked"}, subject: Subjects, handle: Handles]
    BY <1>1, <2>1
  <2>3. QED
    BY <1>1, <2>1, <2>2 DEF Connection
<1>2. CASE s.at \in {"exchange", "consumed", "upstream"} /\ at \in {"consumed", "upstream", "delivered"}
  <2> DEFINE Exchange == [at: {"exchange", "consumed", "upstream", "delivered"},
                          subject: Subjects, handle: Handles, scope: Scopes]
  <2>1. s \in Exchange
    BY <1>2 DEF Connection, Free
  <2>2. [s EXCEPT !.at = at] \in Exchange
    BY <1>2, <2>1
  <2>3. QED
    BY <1>2, <2>1, <2>2 DEF Connection
<1>3. QED
  BY <1>1, <1>2

\* One connection goes on; the others keep what they have.
LEMMA ConnectionGoesOn ==
    ASSUME ConnInv, NEW c \in Conns, NEW s \in Connection, Goto(c, s), RequestOk(s), UNCHANGED lease
    PROVE  ConnInv'
<1>1. conn' \in [Conns -> Connection] /\ conn'[c] = s /\ \A d \in Conns : d # c => conn'[d] = conn[d]
  BY DEF ConnInv, Goto
<1>2. \A d \in Conns : RequestOk(conn'[d])
  BY <1>1 DEF ConnInv
<1>3. QED
  BY <1>1, <1>2 DEF ConnInv, RequestOk, Known

\* It comes to pay, or pays no longer.
LEMMA PayingOf ==
    ASSUME ConnInv, NEW c \in Conns, NEW s, Goto(c, s), NEW h
    PROVE  Paying(h)' = IF s.at = "consumed" /\ s.handle = h THEN Paying(h) \cup {c} ELSE Paying(h) \ {c}
<1>1. conn'[c] = s /\ \A d \in Conns : d # c => conn'[d] = conn[d]
  BY DEF ConnInv, Goto
<1>2. QED
  BY <1>1 DEF Paying

-----------------------------------------------------------------------------
(* The budget of a handle.                                                  *)

LEMMA UsesAreNat == \A x : UsesFor(x) \in 1..ApiUses
  BY RegistryConstants DEF UsesFor

LEMMA LeftIsNat ==
    ASSUME EntryInv, NEW h
    PROVE  Left(h) \in Nat
<1>1. CASE h \in DOMAIN entries
  <2>1. entries[h].uses \in 1..ApiUses
    BY <1>1 DEF EntryInv, EntryOk, Entry
  <2>2. QED
    BY <1>1, <2>1, RegistryConstants DEF Left
<1>2. CASE h \notin DOMAIN entries
  BY <1>2 DEF Left
<1>3. QED
  BY <1>1, <1>2

\* Fewer connections pay and no use is added: the budget holds.
LEMMA BudgetHolds ==
    ASSUME SessionInv, NEW h \in Known, UNCHANGED lease, Left(h)' \in Nat, Left(h)' <= Left(h),
           log'[h].attempts = log[h].attempts, Paying(h)' \subseteq Paying(h)
    PROVE  /\ IsFiniteSet(Paying(h)')
           /\ log'[h].attempts + Cardinality(Paying(h)') + Left(h)' <= UsesFor(lease'[h].scope)
<1>1. /\ IsFiniteSet(Paying(h))
      /\ log[h].attempts + Cardinality(Paying(h)) + Left(h) <= UsesFor(lease[h].scope)
  BY DEF SessionInv, UseInv
<1>2. IsFiniteSet(Paying(h)') /\ Cardinality(Paying(h)') <= Cardinality(Paying(h))
  BY <1>1, FS_Subset
<1>3. Cardinality(Paying(h)) \in Nat /\ Cardinality(Paying(h)') \in Nat
  BY <1>1, <1>2, FS_CardinalityType
<1>4. log[h].attempts \in Nat /\ Left(h) \in Nat /\ UsesFor(lease[h].scope) \in Nat
  BY LeftIsNat, UsesAreNat DEF SessionInv, HistoryInv, Log
<1>5. QED
  BY <1>1, <1>2, <1>3, <1>4

-----------------------------------------------------------------------------
(* The kinds of steps.                                                      *)

\* Leases are only deleted, only deleted ones are called over, and nobody
\* comes to pay.
LEMMA NothingSpent ==
    ASSUME SessionInv, ConnInv', UNCHANGED lease, log' \in [Handles -> Log],
           epoch' \in 1..MaxEpoch, elapsed' \in 0..MaxTime, wall' \in 0..MaxTime,
           DOMAIN entries' \subseteq DOMAIN entries, \A h \in DOMAIN entries' : entries'[h] = entries[h],
           \A h \in Handles : /\ log'[h].attempts = log[h].attempts
                              /\ log'[h].over => log[h].over \/ h \in Known \ DOMAIN entries',
           \A h \in Known : Paying(h)' \subseteq Paying(h)
    PROVE  SessionInv'
<1>1. HistoryInv'
  BY DEF SessionInv, HistoryInv, Known
<1>2. EntryInv'
  <2>1. ASSUME NEW h \in DOMAIN entries'
        PROVE  EntryOk(h, entries[h])'
    <3>1. h \in Handles /\ h \in DOMAIN entries /\ EntryOk(h, entries[h])
      BY DEF SessionInv, HistoryInv, EntryInv
    <3>2. ~log'[h].over
      BY <3>1 DEF EntryOk
    <3>3. entries'[h] = entries[h]
      OBVIOUS
    <3>4. QED
      BY <3>1, <3>2, <3>3 DEF EntryOk
  <2>2. DOMAIN entries' \subseteq Known'
    BY DEF SessionInv, EntryInv, Known
  <2>3. QED
    BY <2>1, <2>2 DEF EntryInv, EntryOk
<1>3. ASSUME NEW h \in Known
      PROVE  /\ IsFiniteSet(Paying(h)')
             /\ log'[h].attempts + Cardinality(Paying(h)') + Left(h)' <= UsesFor(lease'[h].scope)
  <2>1. Left(h)' \in {0, Left(h)} /\ Left(h) \in Nat
    BY LeftIsNat DEF Left, SessionInv
  <2>2. h \in Handles
    BY DEF SessionInv, HistoryInv
  <2>3. QED
    BY <2>1, <2>2, BudgetHolds
<1>4. UseInv'
  BY <1>3 DEF UseInv, Known
<1>5. QED
  BY <1>1, <1>2, <1>4 DEF SessionInv

\* What most steps of a connection come to.
LEMMA QuietStep ==
    ASSUME SessionInv, NEW c \in Conns, NEW s \in Connection, Goto(c, s), RequestOk(s), s.at # "consumed",
           UNCHANGED <<clockVars, historyVars, epoch>>,
           DOMAIN entries' \subseteq DOMAIN entries, \A h \in DOMAIN entries' : entries'[h] = entries[h]
    PROVE  SessionInv'
<1>1. UNCHANGED <<lease, log, elapsed, wall, epoch>>
  BY DEF clockVars, historyVars
<1>2. ConnInv'
  BY <1>1, ConnectionGoesOn DEF SessionInv
<1>3. \A h \in Known : Paying(h)' \subseteq Paying(h)
  BY PayingOf DEF SessionInv
<1>4. QED
  BY <1>1, <1>2, <1>3, NothingSpent DEF SessionInv, HistoryInv, EntryInv

LEMMA Deletes ==
    ASSUME NEW h, entries' = Without(h) \/ entries' = entries
    PROVE  DOMAIN entries' \subseteq DOMAIN entries /\ \A k \in DOMAIN entries' : entries'[k] = entries[k]
  BY DEF Without

-----------------------------------------------------------------------------
(* One step of a connection.                                                *)

LEMMA AcceptKeeps == \A c \in Conns : SessionInv /\ Accept(c) => SessionInv'
<1>1. SUFFICES ASSUME SessionInv, NEW c \in Conns, Accept(c) PROVE SessionInv'
  OBVIOUS
<1>2. /\ UNCHANGED <<clockVars, historyVars, epoch>>
      /\ DOMAIN entries' \subseteq DOMAIN entries /\ \A h \in DOMAIN entries' : entries'[h] = entries[h]
  BY <1>1 DEF Accept, registryVars
<1>3. PICK r \in Subjects :
          \/ \E x \in Scopes : Goto(c, [at |-> "issue", subject |-> r, scope |-> x])
          \/ \E h \in Known : Goto(c, [at |-> "revoke", subject |-> r, handle |-> h])
          \/ \E h \in Known, x \in Scopes : Goto(c, [at |-> "exchange", subject |-> r, handle |-> h, scope |-> x])
  BY <1>1 DEF Accept
<1>4. Known \subseteq Handles
  BY <1>1 DEF SessionInv, HistoryInv
<1>5. CASE \E x \in Scopes : Goto(c, [at |-> "issue", subject |-> r, scope |-> x])
  <2>1. PICK x \in Scopes : Goto(c, [at |-> "issue", subject |-> r, scope |-> x])
    BY <1>5
  <2>2. [at |-> "issue", subject |-> r, scope |-> x] \in Connection
    BY DEF Connection
  <2>3. RequestOk([at |-> "issue", subject |-> r, scope |-> x])
    BY DEF RequestOk, HasHandle, PastConsume
  <2>4. QED
    BY <1>1, <1>2, <2>1, <2>2, <2>3, QuietStep
<1>6. CASE \E h \in Known : Goto(c, [at |-> "revoke", subject |-> r, handle |-> h])
  <2>1. PICK h \in Known : Goto(c, [at |-> "revoke", subject |-> r, handle |-> h])
    BY <1>6
  <2>2. [at |-> "revoke", subject |-> r, handle |-> h] \in Connection
    BY <1>4 DEF Connection
  <2>3. RequestOk([at |-> "revoke", subject |-> r, handle |-> h])
    BY DEF RequestOk, PastConsume
  <2>4. QED
    BY <1>1, <1>2, <2>1, <2>2, <2>3, QuietStep
<1>7. CASE \E h \in Known, x \in Scopes : Goto(c, [at |-> "exchange", subject |-> r, handle |-> h, scope |-> x])
  <2>1. PICK h \in Known, x \in Scopes : Goto(c, [at |-> "exchange", subject |-> r, handle |-> h, scope |-> x])
    BY <1>7
  <2>2. [at |-> "exchange", subject |-> r, handle |-> h, scope |-> x] \in Connection
    BY <1>4 DEF Connection
  <2>3. RequestOk([at |-> "exchange", subject |-> r, handle |-> h, scope |-> x])
    BY DEF RequestOk, PastConsume
  <2>4. QED
    BY <1>1, <1>2, <2>1, <2>2, <2>3, QuietStep
<1>8. QED
  BY <1>3, <1>5, <1>6, <1>7

LEMMA ReadClocksKeeps == \A c \in Conns : SessionInv /\ ReadClocks(c) => SessionInv'
<1>1. SUFFICES ASSUME SessionInv, NEW c \in Conns, ReadClocks(c) PROVE SessionInv'
  OBVIOUS
<1> DEFINE s == [at |-> "draw", subject |-> conn[c].subject, scope |-> conn[c].scope, reading |-> Now, tries |-> 0]
<1>2. conn[c] \in Connection /\ conn[c].at = "issue" /\ Goto(c, s)
  BY <1>1 DEF ReadClocks, SessionInv, ConnInv
<1>3. conn[c].subject \in Subjects /\ conn[c].scope \in Scopes
  BY <1>2, RequestRecord
<1>4. Now \in Reading
  BY <1>1 DEF Now, Reading, SessionInv, EntryInv
<1>5. s \in Connection
  BY <1>3, <1>4, SessionConstants DEF Connection
<1>6. RequestOk(s)
  BY DEF RequestOk, HasHandle, PastConsume
<1>7. /\ UNCHANGED <<clockVars, historyVars, epoch>>
      /\ DOMAIN entries' \subseteq DOMAIN entries /\ \A h \in DOMAIN entries' : entries'[h] = entries[h]
  BY <1>1 DEF ReadClocks, registryVars
<1>8. QED
  BY <1>1, <1>2, <1>5, <1>6, <1>7, QuietStep

LEMMA CollideKeeps == \A c \in Conns, h \in Handles : SessionInv /\ Collide(c, h) => SessionInv'
<1>1. SUFFICES ASSUME SessionInv, NEW c \in Conns, NEW h \in Handles, Collide(c, h) PROVE SessionInv'
  OBVIOUS
<1>2. conn[c] \in Connection /\ conn[c].at = "draw"
  BY <1>1 DEF Collide, SessionInv, ConnInv
<1>3. /\ UNCHANGED <<clockVars, historyVars, epoch>>
      /\ DOMAIN entries' \subseteq DOMAIN entries /\ \A k \in DOMAIN entries' : entries'[k] = entries[k]
  BY <1>1 DEF Collide, registryVars
<1>4. CASE conn[c].tries + 1 < MaxIssueTry
  <2> DEFINE s == [conn[c] EXCEPT !.tries = @ + 1]
  <2>1. conn[c] \in [at: {"draw"}, subject: Subjects, scope: Scopes, reading: Reading, tries: 0..MaxIssueTry]
    BY <1>2 DEF Connection, Free
  <2>2. s \in [at: {"draw"}, subject: Subjects, scope: Scopes, reading: Reading, tries: 0..MaxIssueTry]
    BY <1>4, <2>1, SessionConstants
  <2>3. s \in Connection /\ s.at = "draw"
    BY <2>2 DEF Connection
  <2>4. RequestOk(s)
    BY <2>3 DEF RequestOk, HasHandle, PastConsume
  <2>5. Goto(c, s)
    BY <1>1, <1>4 DEF Collide
  <2>6. QED
    BY <1>1, <1>3, <2>3, <2>4, <2>5, QuietStep
<1>5. CASE ~(conn[c].tries + 1 < MaxIssueTry)
  <2>1. Goto(c, Free)
    BY <1>1, <1>5 DEF Collide
  <2>2. QED
    BY <1>1, <1>3, <2>1, FreeOk, QuietStep
<1>6. QED
  BY <1>4, <1>5

LEMMA DeniedKeeps == \A c \in Conns : SessionInv /\ (RevokeDenied(c) \/ SpendDenied(c) \/ End(c)) => SessionInv'
<1>1. SUFFICES ASSUME SessionInv, NEW c \in Conns, RevokeDenied(c) \/ SpendDenied(c) \/ End(c) PROVE SessionInv'
  OBVIOUS
<1>2. /\ Goto(c, Free) /\ UNCHANGED <<clockVars, historyVars, epoch>>
      /\ entries' = Without(conn[c].handle) \/ entries' = entries
  BY <1>1 DEF RevokeDenied, SpendDenied, End, DenyRevoke, DenyConsume, registryVars
<1>3. QED
  BY <1>1, <1>2, Deletes, FreeOk, QuietStep

LEMMA DeliverKeeps == \A c \in Conns : SessionInv /\ Deliver(c) => SessionInv'
<1>1. SUFFICES ASSUME SessionInv, NEW c \in Conns, Deliver(c) PROVE SessionInv'
  OBVIOUS
<1> DEFINE s == [conn[c] EXCEPT !.at = "delivered"]
<1>2. conn[c] \in Connection /\ RequestOk(conn[c]) /\ conn[c].at = "upstream" /\ Goto(c, s)
  BY <1>1 DEF Deliver, Move, SessionInv, ConnInv
<1>3. /\ s \in Connection /\ s.at = "delivered" /\ s.handle = conn[c].handle
      /\ s.subject = conn[c].subject /\ s.scope = conn[c].scope
  BY <1>2, RequestGoesOn
<1>4. RequestOk(s)
  BY <1>2, <1>3 DEF RequestOk, HasHandle, PastConsume
<1>5. /\ UNCHANGED <<clockVars, historyVars, epoch>>
      /\ DOMAIN entries' \subseteq DOMAIN entries /\ \A h \in DOMAIN entries' : entries'[h] = entries[h]
  BY <1>1 DEF Deliver, registryVars
<1>6. s.at # "consumed"
  BY <1>3
<1> HIDE DEF s
<1>7. QED
  BY <1>1, <1>2, <1>3, <1>4, <1>5, <1>6, QuietStep

LEMMA RevokeKeeps == \A c \in Conns : SessionInv /\ Revoke(c) => SessionInv'
<1>1. SUFFICES ASSUME SessionInv, NEW c \in Conns, Revoke(c) PROVE SessionInv'
  OBVIOUS
<1> DEFINE h == conn[c].handle  s == [conn[c] EXCEPT !.at = "revoked"]
<1>2. conn[c] \in Connection /\ RequestOk(conn[c]) /\ conn[c].at = "revoke" /\ Goto(c, s)
  BY <1>1 DEF Revoke, Move, SessionInv, ConnInv
<1>3. s \in Connection /\ s.at = "revoked" /\ s.handle = h
  BY <1>2, RequestGoesOn
<1>4. h \in Known /\ h \in Handles /\ RequestOk(s)
  BY <1>1, <1>2, <1>3 DEF RequestOk, HasHandle, PastConsume, SessionInv, HistoryInv
<1>5. UNCHANGED <<lease, elapsed, wall, epoch>> /\ entries' = Without(h)
  BY <1>1 DEF Revoke, RevokeForSubject, clockVars
<1>6. ConnInv'
  BY <1>1, <1>2, <1>3, <1>4, <1>5, ConnectionGoesOn DEF SessionInv
<1>7. \A k \in Known : Paying(k)' \subseteq Paying(k)
  <2> HIDE DEF s
  <2>1. \A k : Paying(k)' = Paying(k) \ {c}
    BY <1>1, <1>2, <1>3, PayingOf DEF SessionInv
  <2>2. QED
    BY <2>1
<1>8. log' = [log EXCEPT ![h].over = TRUE] /\ log \in [Handles -> Log]
  BY <1>1 DEF Revoke, SessionInv, HistoryInv
<1>9. /\ log' \in [Handles -> Log] /\ \A k \in Handles : k # h => log'[k] = log[k]
      /\ log'[h].attempts = log[h].attempts
  BY <1>4, <1>8 DEF Log
<1>10. /\ DOMAIN entries' \subseteq DOMAIN entries /\ \A k \in DOMAIN entries' : entries'[k] = entries[k]
       /\ h \notin DOMAIN entries'
  BY <1>5 DEF Without
<1>11. \A k \in Handles : /\ log'[k].attempts = log[k].attempts
                          /\ log'[k].over => log[k].over \/ k \in Known \ DOMAIN entries'
  BY <1>4, <1>9, <1>10
<1> HIDE DEF h, s
<1>12. QED
  BY <1>1, <1>5, <1>6, <1>7, <1>9, <1>10, <1>11, NothingSpent DEF SessionInv, EntryInv

\* Issue: a handle nobody has seen gets the uses of its scope.
LEMMA IssueKeeps == \A c \in Conns, h \in Handles : SessionInv /\ Issue(c, h) => SessionInv'
<1>1. SUFFICES ASSUME SessionInv, NEW c \in Conns, NEW h \in Handles, Issue(c, h) PROVE SessionInv'
  OBVIOUS
<1>2. PICK x \in Subjects, y \in Scopes, r \in Reading :
          x = conn[c].subject /\ y = conn[c].scope /\ r = conn[c].reading
  <2>1. conn[c] \in Connection /\ conn[c].at = "draw"
    BY <1>1 DEF Issue, SessionInv, ConnInv
  <2>2. QED
    BY <2>1, RequestRecord
<1> DEFINE e == [subject |-> x, scope |-> y, issued |-> r, uses |-> UsesFor(y), epoch |-> epoch]
           l == [subject |-> x, scope |-> y, born |-> r.elapsed]
           s == [at |-> "issued", subject |-> x, handle |-> h]
<1>3. h \notin Known /\ h \notin DOMAIN entries
  BY <1>1 DEF Issue, Insert, CanInsert
<1>4. /\ entries' = With(h, e) /\ lease' = [k \in Known \cup {h} |-> IF k = h THEN l ELSE lease[k]]
      /\ Goto(c, s) /\ UNCHANGED <<epoch, elapsed, wall, log>>
  BY <1>1, <1>2 DEF Issue, Insert, clockVars
<1>5. e \in Entry /\ e.subject = x /\ e.scope = y /\ e.issued.elapsed = r.elapsed /\ e.uses = UsesFor(y)
  BY <1>1, UsesAreNat DEF Entry, SessionInv, EntryInv
<1>6. l \in Lease /\ l.subject = x /\ l.scope = y /\ l.born = r.elapsed
  BY DEF Lease, Reading
<1>7. /\ Known' = Known \cup {h} /\ lease'[h] = l /\ \A k \in Known : lease'[k] = lease[k]
      /\ DOMAIN entries' = DOMAIN entries \cup {h} /\ entries'[h] = e
      /\ \A k \in DOMAIN entries : entries'[k] = entries[k]
  BY <1>3, <1>4 DEF With, Known
<1>8. s \in Connection /\ s.at = "issued" /\ s.handle = h
  BY DEF Connection
<1> HIDE DEF e, l, s
<1>9. conn' \in [Conns -> Connection] /\ conn'[c] = s /\ \A d \in Conns : d # c => conn'[d] = conn[d]
  BY <1>1, <1>4, <1>8 DEF SessionInv, ConnInv, Goto
<1>10. ConnInv'
  <2>1. RequestOk(s)'
    BY <1>7, <1>8 DEF RequestOk, PastConsume
  <2>2. ASSUME NEW d \in Conns, d # c PROVE RequestOk(conn[d])'
    <3>1. RequestOk(conn[d]) /\ conn'[d] = conn[d]
      BY <1>1, <1>9, <2>2 DEF SessionInv, ConnInv
    <3>2. PastConsume(conn[d]) => HasHandle(conn[d])
      BY DEF PastConsume, HasHandle
    <3>3. QED
      BY <1>7, <3>1, <3>2 DEF RequestOk, HasHandle, PastConsume
  <2>3. RequestOk(conn[c])'
    BY <1>9, <2>1 DEF RequestOk, HasHandle, PastConsume
  <2>4. \A d \in Conns : RequestOk(conn[d])'
    BY <2>2, <2>3
  <2>5. QED
    BY <1>9, <2>4 DEF ConnInv
<1>11. HistoryInv'
  BY <1>1, <1>4, <1>6, <1>7 DEF SessionInv, HistoryInv
<1>12. EntryInv'
  <2>1. ~log[h].over
    BY <1>1, <1>3 DEF SessionInv, HistoryInv
  <2>2. EntryOk(h, entries[h])'
    BY <1>4, <1>5, <1>6, <1>7, <2>1 DEF EntryOk
  <2>3. ASSUME NEW k \in DOMAIN entries PROVE EntryOk(k, entries[k])'
    <3>1. EntryOk(k, entries[k]) /\ k \in Known
      BY <1>1 DEF SessionInv, EntryInv
    <3>2. QED
      BY <1>4, <1>7, <3>1 DEF EntryOk
  <2>4. \A k \in DOMAIN entries' : EntryOk(k, entries[k])'
    BY <1>7, <2>2, <2>3
  <2>5. QED
    BY <1>1, <1>4, <1>7, <2>4 DEF SessionInv, EntryInv
<1>13. ASSUME NEW k \in Known'
       PROVE  /\ IsFiniteSet(Paying(k)')
              /\ log'[k].attempts + Cardinality(Paying(k)') + Left(k)' <= UsesFor(lease'[k].scope)
  <2>1. Paying(k)' = Paying(k) \ {c}
    BY <1>1, <1>4, <1>8, PayingOf DEF SessionInv
  <2>2. CASE k = h
    <3>1. Paying(h) = {}
      BY <1>1, <1>3 DEF Paying, SessionInv, ConnInv, RequestOk, HasHandle
    <3>2. Paying(h)' = {} /\ IsFiniteSet({}) /\ Cardinality({}) = 0
      BY <2>1, <2>2, <3>1, FS_EmptySet
    <3>3. Left(h)' = UsesFor(y)
      BY <1>5, <1>7 DEF Left
    <3>4. log'[h].attempts = 0
      BY <1>1, <1>3, <1>4 DEF SessionInv, HistoryInv
    <3>5. lease'[h].scope = y
      BY <1>6, <1>7
    <3>6. UsesFor(y) \in Nat
      BY UsesAreNat
    <3>7. log'[h].attempts + Cardinality(Paying(h)') + Left(h)' <= UsesFor(lease'[h].scope)
      BY <3>2, <3>3, <3>4, <3>5, <3>6
    <3>8. QED
      BY <2>2, <3>2, <3>7
  <2>3. CASE k # h
    <3>1. k \in Known /\ lease'[k] = lease[k] /\ Left(k)' = Left(k)
      BY <1>7, <2>3 DEF Left
    <3>2. IsFiniteSet(Paying(k)) /\ log[k].attempts + Cardinality(Paying(k)) + Left(k) <= UsesFor(lease[k].scope)
      BY <1>1, <3>1 DEF SessionInv, UseInv
    <3>3. Paying(k)' \subseteq Paying(k)
      BY <2>1
    <3>4. IsFiniteSet(Paying(k)') /\ Cardinality(Paying(k)') <= Cardinality(Paying(k))
      BY <3>2, <3>3, FS_Subset
    <3>5. Cardinality(Paying(k)) \in Nat /\ Cardinality(Paying(k)') \in Nat
      BY <3>2, <3>4, FS_CardinalityType
    <3>6. log[k].attempts \in Nat /\ Left(k) \in Nat /\ UsesFor(lease[k].scope) \in Nat /\ log' = log
      BY <1>1, <1>4, <3>1, LeftIsNat, UsesAreNat DEF SessionInv, HistoryInv, Log
    <3>7. QED
      BY <3>1, <3>2, <3>4, <3>5, <3>6
  <2>4. QED
    BY <2>2, <2>3
<1>14. UseInv'
  BY <1>13 DEF UseInv
<1>15. QED
  BY <1>10, <1>11, <1>12, <1>14 DEF SessionInv

\* Consume takes one use of the live lease, its last one with the lease.
LEMMA ConsumeTakesOne ==
    ASSUME EntryInv, NEW h, NEW x, NEW y, Consume(h, x, y)
    PROVE  /\ h \in DOMAIN entries /\ entries[h].subject = x /\ entries[h].scope = y
           /\ Left(h) \in Nat \ {0} /\ Left(h)' = Left(h) - 1
           /\ DOMAIN entries' \subseteq DOMAIN entries
           /\ \A k : k # h => Left(k)' = Left(k)
           /\ \A k \in DOMAIN entries' : EntryOk(k, entries'[k])
           /\ UNCHANGED epoch
<1>1. h \in DOMAIN entries /\ entries[h].subject = x /\ entries[h].scope = y /\ UNCHANGED epoch
  BY DEF Consume, Consumable, Matches
<1>2. PICK e : e = entries[h]
  OBVIOUS
<1>3. e \in Entry /\ EntryOk(h, e) /\ e.uses \in Nat \ {0}
  BY <1>1, <1>2, RegistryConstants DEF EntryInv, EntryOk, Entry
<1>4. CASE e.uses = 1
  <2>1. entries' = Without(h)
    BY <1>2, <1>4 DEF Consume
  <2>2. DOMAIN entries' = DOMAIN entries \ {h} /\ \A k \in DOMAIN entries' : entries'[k] = entries[k]
    BY <2>1 DEF Without
  <2>3. Left(h) = 1 /\ Left(h)' = 0 /\ \A k : k # h => Left(k)' = Left(k)
    BY <1>1, <1>2, <1>4, <2>2 DEF Left
  <2>4. \A k \in DOMAIN entries' : EntryOk(k, entries'[k])
    BY <2>2 DEF EntryInv
  <2>5. QED
    BY <1>1, <2>2, <2>3, <2>4
<1>5. CASE e.uses # 1
  <2> DEFINE f == [e EXCEPT !.uses = @ - 1]
  <2>1. entries' = With(h, f)
    BY <1>2, <1>5 DEF Consume
  <2>2. /\ DOMAIN entries' = DOMAIN entries /\ entries'[h] = f
        /\ \A k \in DOMAIN entries' : k # h => entries'[k] = entries[k]
    BY <1>1, <2>1 DEF With
  <2>3. f \in Entry /\ f.uses = e.uses - 1 /\ f.subject = e.subject /\ f.scope = e.scope /\ f.issued = e.issued
    BY <1>3, <1>5, RegistryConstants DEF Entry
  <2>4. EntryOk(h, f)
    BY <1>3, <2>3 DEF EntryOk
  <2> HIDE DEF f
  <2>5. \A k \in DOMAIN entries' : EntryOk(k, entries'[k])
    BY <2>2, <2>4 DEF EntryInv
  <2>6. Left(h) = e.uses /\ Left(h)' = e.uses - 1 /\ \A k : k # h => Left(k)' = Left(k)
    BY <1>1, <1>2, <2>2, <2>3 DEF Left
  <2>7. QED
    BY <1>1, <1>3, <2>2, <2>5, <2>6
<1>6. QED
  BY <1>4, <1>5

LEMMA SpendKeeps == \A c \in Conns : SessionInv /\ Spend(c) => SessionInv'
<1>1. SUFFICES ASSUME SessionInv, NEW c \in Conns, Spend(c) PROVE SessionInv'
  OBVIOUS
<1>2. PICK h, x, y : h = conn[c].handle /\ x = conn[c].subject /\ y = conn[c].scope
  OBVIOUS
<1>3. PICK s : s = [conn[c] EXCEPT !.at = "consumed"]
  OBVIOUS
<1>4. /\ conn[c] \in Connection /\ conn[c].at = "exchange" /\ Goto(c, s) /\ Consume(h, x, y)
      /\ UNCHANGED <<lease, log, elapsed, wall>>
  BY <1>1, <1>2, <1>3 DEF Spend, Move, SessionInv, ConnInv, clockVars, historyVars
<1>5. s \in Connection /\ s.at = "consumed" /\ s.handle = h /\ s.subject = x /\ s.scope = y
  BY <1>2, <1>3, <1>4, RequestGoesOn
<1>6. /\ h \in DOMAIN entries /\ entries[h].subject = x /\ entries[h].scope = y
      /\ Left(h) \in Nat \ {0} /\ Left(h)' = Left(h) - 1
      /\ DOMAIN entries' \subseteq DOMAIN entries
      /\ \A k : k # h => Left(k)' = Left(k)
      /\ \A k \in DOMAIN entries' : EntryOk(k, entries'[k])
      /\ UNCHANGED epoch
  BY <1>1, <1>4, ConsumeTakesOne DEF SessionInv
<1>7. h \in Known /\ lease[h].subject = x /\ lease[h].scope = y
  BY <1>1, <1>6 DEF SessionInv, EntryInv, EntryOk
<1>8. ConnInv'
  <2>1. RequestOk(s)
    BY <1>5, <1>7 DEF RequestOk
  <2>2. QED
    BY <1>1, <1>4, <1>5, <2>1, ConnectionGoesOn DEF SessionInv
<1>9. HistoryInv'
  BY <1>1, <1>4 DEF SessionInv, HistoryInv, Known
<1>10. EntryInv'
  BY <1>1, <1>4, <1>6 DEF SessionInv, EntryInv, EntryOk, Known
<1>11. ASSUME NEW k \in Known
       PROVE  /\ IsFiniteSet(Paying(k)')
              /\ log'[k].attempts + Cardinality(Paying(k)') + Left(k)' <= UsesFor(lease'[k].scope)
  <2>1. Paying(k)' = IF k = h THEN Paying(k) \cup {c} ELSE Paying(k) \ {c}
    BY <1>1, <1>4, <1>5, PayingOf DEF SessionInv
  <2>2. CASE k # h
    <3>1. Left(k)' = Left(k) /\ Left(k) \in Nat
      BY <1>1, <1>6, <2>1, <2>2, LeftIsNat DEF SessionInv
    <3>2. log'[k].attempts = log[k].attempts /\ Paying(k)' \subseteq Paying(k) /\ Left(k)' <= Left(k)
      BY <1>4, <2>1, <2>2, <3>1
    <3>3. QED
      BY <1>1, <1>4, <3>1, <3>2, BudgetHolds
  <2>3. CASE k = h
    <3>1. IsFiniteSet(Paying(h)) /\ log[h].attempts + Cardinality(Paying(h)) + Left(h) <= UsesFor(lease[h].scope)
      BY <1>1, <1>7 DEF SessionInv, UseInv
    <3>2. c \notin Paying(h)
      BY <1>4 DEF Paying
    <3>3. IsFiniteSet(Paying(h)') /\ Cardinality(Paying(h)') = Cardinality(Paying(h)) + 1
      BY <2>1, <2>3, <3>1, <3>2, FS_AddElement
    <3>4. Cardinality(Paying(h)) \in Nat /\ log[h].attempts \in Nat /\ UsesFor(lease[h].scope) \in Nat
      BY <1>1, <1>7, <3>1, FS_CardinalityType, UsesAreNat DEF SessionInv, HistoryInv, Log
    <3>5. log'[h].attempts + Cardinality(Paying(h)') + Left(h)' <= UsesFor(lease'[h].scope)
      BY <1>4, <1>6, <3>1, <3>3, <3>4
    <3>6. QED
      BY <2>3, <3>3, <3>5
  <2>4. QED
    BY <2>2, <2>3
<1>12. UseInv'
  BY <1>4, <1>11 DEF UseInv, Known
<1>13. QED
  BY <1>8, <1>9, <1>10, <1>12 DEF SessionInv

\* The attempt takes the place of the exchange that paid for it.
LEMMA RoundTripKeeps == \A c \in Conns : SessionInv /\ RoundTrip(c) => SessionInv'
<1>1. SUFFICES ASSUME SessionInv, NEW c \in Conns, RoundTrip(c) PROVE SessionInv'
  OBVIOUS
<1>2. PICK h : h = conn[c].handle
  OBVIOUS
<1>3. PICK s : s = [conn[c] EXCEPT !.at = "upstream"]
  OBVIOUS
<1>4. /\ conn[c] \in Connection /\ RequestOk(conn[c]) /\ conn[c].at = "consumed" /\ Goto(c, s)
      /\ log' = [log EXCEPT ![h].attempts = @ + 1]
      /\ UNCHANGED <<lease, elapsed, wall, entries, epoch>>
  BY <1>1, <1>2, <1>3 DEF RoundTrip, Move, SessionInv, ConnInv, clockVars, registryVars
<1>5. s \in Connection /\ s.at = "upstream" /\ s.handle = h /\ s.subject = conn[c].subject /\ s.scope = conn[c].scope
  BY <1>2, <1>3, <1>4, RequestGoesOn
<1>6. h \in Known /\ h \in Handles /\ RequestOk(s)
  BY <1>1, <1>2, <1>4, <1>5 DEF RequestOk, HasHandle, PastConsume, SessionInv, HistoryInv
<1>7. ConnInv'
  BY <1>1, <1>4, <1>5, <1>6, ConnectionGoesOn DEF SessionInv
<1>8. /\ log \in [Handles -> Log] /\ log' \in [Handles -> Log]
      /\ log'[h].attempts = log[h].attempts + 1 /\ log'[h].over = log[h].over
      /\ \A k \in Handles : k # h => log'[k] = log[k]
  BY <1>1, <1>4, <1>6 DEF SessionInv, HistoryInv, Log
<1>9. HistoryInv'
  BY <1>1, <1>4, <1>6, <1>8 DEF SessionInv, HistoryInv, Known
<1>10. EntryInv'
  <2>1. ASSUME NEW k \in DOMAIN entries PROVE EntryOk(k, entries[k])'
    <3>1. k \in Handles /\ EntryOk(k, entries[k]) /\ log'[k].over = log[k].over
      BY <1>1, <1>8 DEF SessionInv, HistoryInv, EntryInv
    <3>2. QED
      BY <1>4, <3>1 DEF EntryOk
  <2>2. QED
    BY <1>1, <1>4, <2>1 DEF SessionInv, EntryInv, Known
<1>11. ASSUME NEW k \in Known
       PROVE  /\ IsFiniteSet(Paying(k)')
              /\ log'[k].attempts + Cardinality(Paying(k)') + Left(k)' <= UsesFor(lease'[k].scope)
  <2>1. Paying(k)' = Paying(k) \ {c} /\ Left(k)' = Left(k) /\ k \in Handles
    BY <1>1, <1>4, <1>5, PayingOf DEF SessionInv, Left, HistoryInv
  <2>2. CASE k # h
    <3>1. Left(k)' = Left(k) /\ Left(k) \in Nat
      BY <1>1, <1>8, <2>1, <2>2, LeftIsNat DEF SessionInv
    <3>2. log'[k].attempts = log[k].attempts /\ Paying(k)' \subseteq Paying(k) /\ Left(k)' <= Left(k)
      BY <1>8, <2>1, <2>2, <3>1
    <3>3. QED
      BY <1>1, <1>4, <3>1, <3>2, BudgetHolds
  <2>3. CASE k = h
    <3>1. IsFiniteSet(Paying(h)) /\ log[h].attempts + Cardinality(Paying(h)) + Left(h) <= UsesFor(lease[h].scope)
      BY <1>1, <1>6 DEF SessionInv, UseInv
    <3>2. c \in Paying(h)
      BY <1>2, <1>4 DEF Paying
    <3>3. IsFiniteSet(Paying(h)') /\ Cardinality(Paying(h)') = Cardinality(Paying(h)) - 1
      BY <2>1, <2>3, <3>1, <3>2, FS_RemoveElement
    <3>4. /\ Cardinality(Paying(h)) \in Nat /\ log[h].attempts \in Nat /\ UsesFor(lease[h].scope) \in Nat
          /\ Left(h) \in Nat
      BY <1>1, <1>6, <3>1, FS_CardinalityType, UsesAreNat, LeftIsNat DEF SessionInv, HistoryInv, Log
    <3>5. log'[h].attempts + Cardinality(Paying(h)') + Left(h)' <= UsesFor(lease'[h].scope)
      BY <1>4, <1>8, <2>1, <2>3, <3>1, <3>3, <3>4
    <3>6. QED
      BY <2>3, <3>3, <3>5
  <2>4. QED
    BY <2>2, <2>3
<1>12. UseInv'
  BY <1>4, <1>11 DEF UseInv, Known
<1>13. QED
  BY <1>7, <1>9, <1>10, <1>12 DEF SessionInv

-----------------------------------------------------------------------------
(* The operator, the clocks and a restart.                                  *)

LEMMA StillConnected ==
    ASSUME SessionInv, UNCHANGED <<conn, lease>>
    PROVE  ConnInv' /\ \A h \in Known : Paying(h)' \subseteq Paying(h)
  BY DEF SessionInv, ConnInv, RequestOk, Known, Paying

LEMMA AdvanceKeeps == \A e \in 1..MaxEpoch : SessionInv /\ Advance(e) => SessionInv'
<1>1. SUFFICES ASSUME SessionInv, NEW e \in 1..MaxEpoch, Advance(e) PROVE SessionInv'
  OBVIOUS
<1>2. UNCHANGED <<conn, lease, elapsed, wall>> /\ epoch' = e /\ entries' = [h \in {} |-> h]
  BY <1>1 DEF Advance, AdvanceRevocationEpoch, clockVars
<1>3. log' = [h \in Handles |-> [log[h] EXCEPT !.over = @ \/ h \in DOMAIN entries]] /\ log \in [Handles -> Log]
  BY <1>1 DEF Advance, SessionInv, HistoryInv
<1>4. ASSUME NEW h \in Handles
      PROVE  /\ log'[h] \in Log /\ log'[h].attempts = log[h].attempts
             /\ log'[h].over => log[h].over \/ h \in Known \ DOMAIN entries'
  <2>1. PICK r \in Log : r = log[h]
    BY <1>3
  <2>2. log'[h] = [r EXCEPT !.over = @ \/ h \in DOMAIN entries]
    BY <1>3, <2>1
  <2>3. log'[h].attempts = r.attempts /\ log'[h].over = (r.over \/ h \in DOMAIN entries) /\ log'[h] \in Log
    BY <2>2 DEF Log
  <2>4. h \in DOMAIN entries => h \in Known
    BY <1>1 DEF SessionInv, EntryInv
  <2>5. QED
    BY <1>2, <2>1, <2>3, <2>4
<1>5. log' \in [Handles -> Log]
  BY <1>3, <1>4
<1>6. DOMAIN entries' = {}
  BY <1>2
<1>7. ConnInv' /\ \A h \in Known : Paying(h)' \subseteq Paying(h)
  BY <1>1, <1>2, StillConnected
<1>8. QED
  BY <1>1, <1>2, <1>4, <1>5, <1>6, <1>7, NothingSpent DEF SessionInv, EntryInv

LEMMA WithdrawKeeps == \A h \in Handles : SessionInv /\ Withdraw(h) => SessionInv'
<1>1. SUFFICES ASSUME SessionInv, NEW h \in Handles, Withdraw(h) PROVE SessionInv'
  OBVIOUS
<1>2. UNCHANGED <<conn, lease, elapsed, wall, epoch>> /\ entries' = Without(h) /\ h \in DOMAIN entries
  BY <1>1 DEF Withdraw, RevokeHandle, clockVars
<1>3. log' = [log EXCEPT ![h].over = TRUE] /\ log \in [Handles -> Log]
  BY <1>1 DEF Withdraw, SessionInv, HistoryInv
<1>4. /\ log' \in [Handles -> Log] /\ \A k \in Handles : k # h => log'[k] = log[k]
      /\ log'[h].attempts = log[h].attempts
  BY <1>3 DEF Log
<1>5. /\ DOMAIN entries' \subseteq DOMAIN entries /\ \A k \in DOMAIN entries' : entries'[k] = entries[k]
      /\ h \in Known \ DOMAIN entries'
  BY <1>1, <1>2 DEF Without, SessionInv, EntryInv
<1>6. \A k \in Handles : /\ log'[k].attempts = log[k].attempts
                         /\ log'[k].over => log[k].over \/ k \in Known \ DOMAIN entries'
  BY <1>4, <1>5
<1>7. ConnInv' /\ \A k \in Known : Paying(k)' \subseteq Paying(k)
  BY <1>1, <1>2, StillConnected
<1>8. QED
  BY <1>1, <1>2, <1>4, <1>5, <1>6, <1>7, NothingSpent DEF SessionInv, EntryInv

\* Every handle that was drawn is over, every connection is gone.
LEMMA RestartKeeps == SessionInv /\ Restart => SessionInv'
<1>1. SUFFICES ASSUME SessionInv, Restart PROVE SessionInv'
  OBVIOUS
<1>2. /\ UNCHANGED <<lease, wall>> /\ epoch' = 1 /\ elapsed' = 0 /\ entries' = [h \in {} |-> h]
      /\ conn' = [c \in Conns |-> Free]
  BY <1>1 DEF Restart
<1>3. log' = [h \in Handles |-> [log[h] EXCEPT !.over = @ \/ h \in Known]] /\ log \in [Handles -> Log]
  BY <1>1 DEF Restart, SessionInv, HistoryInv
<1>4. ASSUME NEW h \in Handles
      PROVE  /\ log'[h] \in Log /\ log'[h].attempts = log[h].attempts
             /\ log'[h].over => log[h].over \/ h \in Known \ DOMAIN entries'
  <2>1. PICK r \in Log : r = log[h]
    BY <1>3
  <2>2. log'[h] = [r EXCEPT !.over = @ \/ h \in Known]
    BY <1>3, <2>1
  <2>3. log'[h].attempts = r.attempts /\ log'[h].over = (r.over \/ h \in Known) /\ log'[h] \in Log
    BY <2>2 DEF Log
  <2>4. QED
    BY <1>2, <2>1, <2>3
<1>5. log' \in [Handles -> Log]
  BY <1>3, <1>4
<1>6. DOMAIN entries' = {}
  BY <1>2
<1>7. ConnInv'
  BY <1>2, FreeOk DEF ConnInv, RequestOk, HasHandle, PastConsume, Free
<1>8. \A h \in Known : Paying(h)' = {}
  BY <1>2, FreeOk DEF Paying
<1>9. 1 \in 1..MaxEpoch /\ 0 \in 0..MaxTime
  BY RegistryConstants
<1>10. wall' \in 0..MaxTime
  BY <1>1, <1>2 DEF SessionInv, EntryInv
<1>11. QED
  BY <1>1, <1>2, <1>4, <1>5, <1>6, <1>7, <1>8, <1>9, <1>10, NothingSpent

LEMMA PassTimeKeeps == SessionInv /\ PassTime => SessionInv'
<1>1. SUFFICES ASSUME SessionInv, PassTime PROVE SessionInv'
  OBVIOUS
<1>2. UNCHANGED <<conn, lease, log, entries, epoch>> /\ elapsed' \in elapsed..MaxTime /\ wall' \in 0..MaxTime
  BY <1>1 DEF PassTime, Tick, historyVars, registryVars
<1>3. elapsed' \in 0..MaxTime
  BY <1>1, <1>2, RegistryConstants DEF SessionInv, EntryInv
<1>4. ConnInv' /\ \A h \in Known : Paying(h)' \subseteq Paying(h)
  BY <1>1, <1>2, StillConnected
<1>5. QED
  BY <1>1, <1>2, <1>3, <1>4, NothingSpent DEF SessionInv, EntryInv, HistoryInv

LEMMA InitHolds == Init => SessionInv
<1>1. SUFFICES ASSUME Init PROVE SessionInv
  OBVIOUS
<1>2. DOMAIN lease = {} /\ DOMAIN entries = {} /\ Known = {}
  BY <1>1 DEF Init, RegistryInit, Known
<1>3. ConnInv
  BY <1>1, FreeOk DEF Init, ConnInv
<1>4. HistoryInv
  BY <1>1, <1>2 DEF Init, HistoryInv, Log
<1>5. EntryInv
  BY <1>1, <1>2, RegistryConstants DEF Init, RegistryInit, EntryInv
<1>6. QED
  BY <1>2, <1>3, <1>4, <1>5 DEF SessionInv, UseInv

LEMMA NextKeeps == SessionInv /\ [Next]_vars => SessionInv'
<1>1. SUFFICES ASSUME SessionInv, [Next]_vars PROVE SessionInv'
  OBVIOUS
<1>2. CASE UNCHANGED vars
  <2>1. UNCHANGED <<conn, lease, log, entries, epoch, elapsed, wall>>
    BY <1>2 DEF vars, clockVars, registryVars, historyVars
  <2>2. ConnInv' /\ \A h \in Known : Paying(h)' \subseteq Paying(h)
    BY <1>1, <2>1, StillConnected
  <2>3. QED
    BY <1>1, <2>1, <2>2, NothingSpent DEF SessionInv, EntryInv, HistoryInv
<1>3. ASSUME NEW c \in Conns, Accept(c) \/ ControlStep(c) \/ ExchangeStep(c) \/ End(c)
      PROVE  SessionInv'
  BY <1>1, <1>3, AcceptKeeps, ReadClocksKeeps, IssueKeeps, CollideKeeps, RevokeKeeps, DeniedKeeps,
     SpendKeeps, RoundTripKeeps, DeliverKeeps DEF ControlStep, ExchangeStep
<1>4. CASE (\E e \in 1..MaxEpoch : Advance(e)) \/ (\E h \in Handles : Withdraw(h)) \/ Restart \/ PassTime
  BY <1>1, <1>4, AdvanceKeeps, WithdrawKeeps, RestartKeeps, PassTimeKeeps
<1>5. QED
  BY <1>1, <1>2, <1>3, <1>4 DEF Next

THEOREM SessionInvHolds == Spec => []SessionInv
  BY InitHolds, NextKeeps, PTL DEF Spec

-----------------------------------------------------------------------------
(* What the broker promises.                                                *)

\* No handle is used upstream more often than it was paid for, however many
\* connections present it and whatever fails after the use was spent.
THEOREM AttemptsPaidHolds == Spec => []AttemptsPaid
<1>1. SessionInv => AttemptsPaid
  BY DEF SessionInv, UseInv, AttemptsPaid, Known, Paid, Paying, Left
<1>2. QED
  BY <1>1, SessionInvHolds, PTL

\* Who is past Consume has the handle's own subject and scope.
THEOREM AttemptsAuthorisedHolds == Spec => []AttemptsAuthorised
<1>1. SessionInv => AttemptsAuthorised
  BY DEF SessionInv, ConnInv, RequestOk, PastConsume, AttemptsAuthorised
<1>2. QED
  BY <1>1, SessionInvHolds, PTL

LEMMA OverStaysOver ==
    ASSUME SessionInv, [Next]_vars, NEW c \in Conns, conn[c].at = "exchange", conn'[c].at = "consumed"
    PROVE  ~log[conn[c].handle].over /\ elapsed < lease[conn[c].handle].born + TTL
<1>1. conn \in [Conns -> Connection]
  BY DEF SessionInv, ConnInv
<1>2. ASSUME NEW d \in Conns, NEW s, Goto(d, s), s.at # "consumed" PROVE FALSE
  BY <1>1, <1>2 DEF Goto
<1>3. Spend(c)
  <2>1. ~UNCHANGED vars
    BY DEF vars
  <2>2. ASSUME (\E e \in 1..MaxEpoch : Advance(e)) \/ (\E h \in Handles : Withdraw(h)) \/ Restart \/ PassTime
        PROVE  FALSE
    BY <2>2 DEF Advance, Withdraw, Restart, PassTime, Free
  <2>3. ASSUME NEW d \in Conns, Accept(d) \/ ReadClocks(d) \/ RevokeDenied(d) \/ SpendDenied(d) \/ End(d)
        PROVE  FALSE
    <3>1. CASE Accept(d)
      <4>1. PICK r \in Subjects :
                \/ \E x \in Scopes : Goto(d, [at |-> "issue", subject |-> r, scope |-> x])
                \/ \E h \in Known : Goto(d, [at |-> "revoke", subject |-> r, handle |-> h])
                \/ \E h \in Known, x \in Scopes :
                      Goto(d, [at |-> "exchange", subject |-> r, handle |-> h, scope |-> x])
        BY <3>1 DEF Accept
      <4>2. /\ conn'[d].at \in {"issue", "revoke", "exchange"}
            /\ \A e \in Conns : e # d => conn'[e] = conn[e]
        BY <1>1, <4>1 DEF Goto
      <4>3. QED
        BY <4>2
    <3>2. CASE ReadClocks(d)
      <4>1. PICK s : Goto(d, s) /\ s.at = "draw"
        BY <3>2 DEF ReadClocks
      <4>2. QED
        BY <1>2, <4>1
    <3>3. CASE RevokeDenied(d) \/ SpendDenied(d) \/ End(d)
      <4>1. Goto(d, Free) /\ Free.at # "consumed"
        BY <3>3, FreeOk DEF RevokeDenied, SpendDenied, End
      <4>2. QED
        BY <1>2, <4>1
    <3>4. QED
      BY <2>3, <3>1, <3>2, <3>3
  <2>4. ASSUME NEW d \in Conns, NEW h \in Handles, Issue(d, h) PROVE FALSE
    <3>1. PICK s : Goto(d, s) /\ s.at # "consumed"
      BY <2>4 DEF Issue
    <3>2. QED
      BY <1>2, <3>1
  <2>5. ASSUME NEW d \in Conns, NEW h \in Handles, Collide(d, h) PROVE FALSE
    <3>1. conn[d] \in Connection /\ conn[d].at = "draw"
      BY <1>1, <2>5 DEF Collide
    <3>2. [conn[d] EXCEPT !.tries = @ + 1].at = "draw"
      BY <3>1
    <3>3. PICK s : Goto(d, s) /\ s.at # "consumed"
      BY <2>5, <3>2, FreeOk DEF Collide
    <3>4. QED
      BY <1>2, <3>3
  <2>6. ASSUME NEW d \in Conns, Revoke(d) \/ RoundTrip(d) \/ Deliver(d) PROVE FALSE
    <3>1. PICK at \in {"revoked", "upstream", "delivered"} :
              /\ Goto(d, [conn[d] EXCEPT !.at = at])
              /\ \/ conn[d].at = "revoke" /\ at = "revoked"
                 \/ conn[d].at \in {"consumed", "upstream"} /\ at \in {"upstream", "delivered"}
      BY <2>6 DEF Revoke, RoundTrip, Deliver, Move
    <3>2. conn[d] \in Connection
      BY <1>1
    <3>3. [conn[d] EXCEPT !.at = at].at = at
      BY <3>1, <3>2, RequestGoesOn
    <3>4. QED
      BY <1>2, <3>1, <3>3
  <2>7. ASSUME NEW d \in Conns, d # c, Spend(d) PROVE FALSE
    <3>1. Goto(d, [conn[d] EXCEPT !.at = "consumed"])
      BY <2>7 DEF Spend, Move
    <3>2. QED
      BY <1>1, <2>7, <3>1 DEF Goto
  <2>8. QED
    BY <2>1, <2>2, <2>3, <2>4, <2>5, <2>6, <2>7 DEF Next, ControlStep, ExchangeStep
<1>4. PICK h : h = conn[c].handle
  OBVIOUS
<1>5. h \in DOMAIN entries /\ ~Expired(entries[h])
  BY <1>3, <1>4 DEF Spend, Consume, Consumable
<1>6. PICK e : e = entries[h]
  OBVIOUS
<1>7. e \in Entry /\ e.issued.elapsed = lease[h].born /\ ~log[h].over /\ elapsed \in 0..MaxTime
  BY <1>5, <1>6 DEF SessionInv, EntryInv, EntryOk
<1>8. e.issued.elapsed \in 0..MaxTime
  BY <1>7 DEF Entry, Reading
<1>9. ~(elapsed >= e.issued.elapsed + TTL)
  BY <1>5, <1>6 DEF Expired
<1>10. QED
  BY <1>4, <1>7, <1>8, <1>9, RegistryConstants

\* A lease that was revoked, lost or outlived is never consumed again, on no
\* interleaving of requests, clocks, epochs and restarts.
THEOREM OverIsOverHolds == Spec => OverIsOver
<1>1. SessionInv /\ [Next]_vars =>
          [\A c \in Conns :
              conn[c].at = "exchange" /\ conn'[c].at = "consumed" =>
                  /\ ~log[conn[c].handle].over
                  /\ elapsed < lease[conn[c].handle].born + TTL]_vars
  BY OverStaysOver
<1>2. QED
  BY <1>1, SessionInvHolds, PTL DEF Spec, OverIsOver
=============================================================================
