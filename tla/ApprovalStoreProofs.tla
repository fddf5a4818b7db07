------------------------ MODULE ApprovalStoreProofs ------------------------
(***************************************************************************)
(* Proofs about ApprovalStore: its five safety properties, for any sets of *)
(* processes, requests, digests and actors and any bounds.                 *)
(*                                                                         *)
(* StoreInv ties the five places a snapshot can be in: a process's memory, *)
(* the snapshot it is writing, the reply it owes for it, the file and the  *)
(* durable file.  Later(s, t) orders snapshots; every change of a snapshot *)
(* is one to a later one.                                                  *)
(***************************************************************************)
EXTENDS ApprovalStore, FiniteSetTheorems, TLAPS

IsRecords(records) ==
    DOMAIN records \subseteq Requests /\ records \in [DOMAIN records -> Record]

\* What may become of a record.
Follows(r, s) ==
    /\ s.digest = r.digest /\ s.created = r.created /\ s.expires = r.expires
    /\ s.state \in Reachable(r.state)
    /\ r.state # "pending" => s.actor = r.actor

Grown(old, new) == \A id \in DOMAIN old : id \in DOMAIN new /\ Follows(old[id], new[id])

Later(s, t) ==
    \/ t = s
    \/ /\ t.generation > s.generation /\ t.observed >= s.observed
       /\ Grown(s.records, t.records)

SoundRecords(records, observed) ==
    /\ IsFiniteSet(DOMAIN records) /\ Cardinality(DOMAIN records) <= MaxRecords
    /\ \A id \in DOMAIN records : ValidButOverdue(records[id], observed)

Sound(s) == (s = Blank \/ s.generation > 0) /\ SoundRecords(s.records, s.observed)

FactsOf(facts, records) ==
    \A f \in facts : f.id \in DOMAIN records /\ f = FactOf(records, f.id)

\* A process that replaces the file is not poisoned, and what it writes is
\* later than what it read.
Writing(p) ==
    phase[p] \in {"temp", "renamed"} =>
        /\ ~poisoned[p]
        /\ last[p] >= next[p].observed
        /\ Sound(next[p]) /\ FactsOf(reply[p], next[p].records)
        /\ phase[p] = "temp" => Later(memory[p], next[p])

OwnersInv ==
    /\ \A p, q \in Processes : Owns(p) /\ Owns(q) => p = q
    /\ \A p \in Processes : Owns(p) => last[p] >= memory[p].observed /\ Writing(p)

FilesInv == Later(durable, disk) /\ Sound(disk) /\ Sound(durable)

PerProcess == DOMAIN memory = Processes /\ DOMAIN next = Processes /\ DOMAIN reply = Processes

StoreInv == TypeOK /\ PerProcess /\ OwnersInv /\ MemoryIsDisk /\ FilesInv /\ ToldIsDurable

-----------------------------------------------------------------------------
(* Snapshots and their order.                                               *)

LEMMA SnapshotParts ==
    ASSUME NEW s, IsSnapshot(s)
    PROVE  s.generation \in Nat /\ s.observed \in Times /\ IsRecords(s.records)
BY ApprovalConstants DEF IsSnapshot, IsRecords

LEMMA SnapshotMade ==
    ASSUME NEW g \in 0..MaxGeneration, NEW o \in Times, NEW records, IsRecords(records)
    PROVE  IsSnapshot([generation |-> g, observed |-> o, records |-> records])
BY DEF IsSnapshot, IsRecords

LEMMA BlankIsSound == IsSnapshot(Blank) /\ Sound(Blank)
<1>1. IsRecords(Blank.records) /\ DOMAIN Blank.records = {}
  BY DEF Blank, IsRecords
<1>2. IsSnapshot(Blank)
  <2>1. 0 \in 0..MaxGeneration /\ 0 \in Times
    BY ApprovalConstants DEF Times
  <2>2. IsSnapshot([generation |-> 0, observed |-> 0, records |-> Blank.records])
    BY <1>1, <2>1, SnapshotMade
  <2>3. Blank = [generation |-> 0, observed |-> 0, records |-> Blank.records]
    BY DEF Blank
  <2>4. QED
    BY <2>2, <2>3
<1>3. IsFiniteSet({}) /\ Cardinality({}) = 0
  BY FS_EmptySet
<1>4. QED
  BY <1>1, <1>2, <1>3, ApprovalConstants DEF Sound, SoundRecords

LEMMA ReachableIsOrder ==
    ASSUME NEW a \in States
    PROVE  /\ a \in Reachable(a) /\ Reachable(a) \subseteq States
           /\ \A b \in Reachable(a) : Reachable(b) \subseteq Reachable(a)
           /\ a # "pending" => "pending" \notin Reachable(a)
BY DEF States, Reachable

LEMMA FollowsIsOrder ==
    ASSUME NEW r \in Record
    PROVE  /\ Follows(r, r)
           /\ \A s, t \in Record : Follows(r, s) /\ Follows(s, t) => Follows(r, t)
<1>1. r.state \in States
  BY DEF Record
<1>2. Follows(r, r)
  BY <1>1, ReachableIsOrder DEF Follows
<1>3. ASSUME NEW s \in Record, NEW t \in Record, Follows(r, s), Follows(s, t)
      PROVE  Follows(r, t)
  <2>1. t.state \in Reachable(r.state)
    BY <1>1, <1>3, ReachableIsOrder DEF Follows
  <2>2. r.state # "pending" => s.state # "pending"
    BY <1>1, <1>3, ReachableIsOrder DEF Follows
  <2>3. QED
    BY <1>3, <2>1, <2>2 DEF Follows
<1>4. QED
  BY <1>2, <1>3

LEMMA GrownIsOrder ==
    ASSUME NEW a, IsRecords(a), NEW b, IsRecords(b), NEW c, IsRecords(c), Grown(a, b), Grown(b, c)
    PROVE  Grown(a, c)
<1>1. SUFFICES ASSUME NEW id \in DOMAIN a PROVE id \in DOMAIN c /\ Follows(a[id], c[id])
  BY DEF Grown
<1>2. id \in DOMAIN b /\ Follows(a[id], b[id])
  BY DEF Grown
<1>3. id \in DOMAIN c /\ Follows(b[id], c[id])
  BY <1>2 DEF Grown
<1>4. a[id] \in Record /\ b[id] \in Record /\ c[id] \in Record
  BY <1>2, <1>3 DEF IsRecords
<1>5. QED
  BY <1>2, <1>3, <1>4, FollowsIsOrder

LEMMA LaterIsOrder ==
    ASSUME NEW s, IsSnapshot(s), NEW t, IsSnapshot(t), NEW u, IsSnapshot(u), Later(s, t), Later(t, u)
    PROVE  Later(s, u)
<1>1. CASE t = s \/ u = t
  BY <1>1
<1>2. CASE t # s /\ u # t
  <2>1. Grown(s.records, u.records)
    BY <1>2, SnapshotParts, GrownIsOrder DEF Later
  <2>2. s.generation \in Nat /\ t.generation \in Nat /\ u.generation \in Nat
    BY SnapshotParts
  <2>3. s.observed \in Int /\ t.observed \in Int /\ u.observed \in Int
    BY SnapshotParts, ApprovalConstants DEF Times
  <2>4. QED
    BY <1>2, <2>1, <2>2, <2>3 DEF Later
<1>3. QED
  BY <1>1, <1>2

-----------------------------------------------------------------------------
(* One record.                                                              *)

\* A record stays sound while time goes on.
LEMMA Aged ==
    ASSUME NEW r \in Record, NEW o \in Times, NEW now \in Times, o <= now, ValidButOverdue(r, o)
    PROVE  ValidButOverdue(r, now)
<1>1. r.created \in Int /\ r.expires \in Int /\ r.decided \in Int /\ o \in Int /\ now \in Int
  BY ApprovalConstants DEF Record, Times, Undecided
<1>2. CASE r.state # "pending"
  BY <1>1, <1>2 DEF ValidButOverdue, ValidRecord
<1>3. CASE r.state = "pending"
  <2> DEFINE e(t) == [r EXCEPT !.state = "expired", !.decided = t]
  <2>1. /\ e(o).state = "expired" /\ e(o).decided = o /\ e(o).actor = r.actor
        /\ e(o).created = r.created /\ e(o).expires = r.expires
        /\ e(now).state = "expired" /\ e(now).decided = now /\ e(now).actor = r.actor
        /\ e(now).created = r.created /\ e(now).expires = r.expires
    BY DEF Record
  <2> HIDE DEF e
  <2>2. ValidRecord(r, o) \/ ValidRecord(e(o), o)
    BY DEF ValidButOverdue, e
  <2>3. ValidRecord(r, now) \/ ValidRecord(e(now), now)
    <3>1. CASE now < r.expires
      BY <1>1, <1>3, <2>1, <2>2, <3>1 DEF ValidRecord
    <3>2. CASE now >= r.expires
      BY <1>1, <1>3, <2>1, <2>2, <3>2 DEF ValidRecord
    <3>3. QED
      BY <1>1, <3>1, <3>2
  <2>4. QED
    BY <1>3, <2>3 DEF ValidButOverdue, e
<1>4. QED
  BY <1>2, <1>3

LEMMA ExpiredRecord ==
    ASSUME NEW r \in Record, NEW o \in Times, clock \in Times, o <= clock,
           ValidButOverdue(r, o), Due(r)
    PROVE  Expire(r) \in Record /\ Follows(r, Expire(r)) /\ ValidButOverdue(Expire(r), clock)
<1> DEFINE e == Expire(r)
<1>1. /\ r.created \in Int /\ r.expires \in Int /\ r.decided \in Int /\ o \in Int /\ clock \in Int
      /\ r.state \in States
  BY ApprovalConstants DEF Record, Times, Undecided
<1>2. /\ e.state = "expired" /\ e.decided = clock
      /\ e.actor = IF r.state = "pending" THEN NoActor ELSE r.actor
      /\ e.digest = r.digest /\ e.created = r.created /\ e.expires = r.expires
  BY DEF Record, Expire
<1>3. e \in Record
  BY DEF Record, Expire, States
<1>4. Follows(r, e)
  BY <1>2 DEF Follows, Due, Active, Reachable, States
<1>5. r.created <= o /\ r.expires - r.created <= MaxTTL
  <2>1. CASE ValidRecord(r, o)
    BY <1>1, <2>1 DEF ValidRecord
  <2>2. CASE ValidRecord([r EXCEPT !.state = "expired", !.decided = o], o)
    <3>1. /\ [r EXCEPT !.state = "expired", !.decided = o].created = r.created
          /\ [r EXCEPT !.state = "expired", !.decided = o].expires = r.expires
      BY DEF Record
    <3>2. QED
      BY <1>1, <2>2, <3>1 DEF ValidRecord
  <2>3. QED
    BY <2>1, <2>2 DEF ValidButOverdue
<1>6. ValidRecord(e, clock)
  <2>1. clock >= r.expires
    BY DEF Due
  <2>2. QED
    BY <1>1, <1>2, <1>5, <2>1 DEF ValidRecord
<1>7. QED
  BY <1>3, <1>4, <1>6 DEF ValidButOverdue

\* A decision about a record that is not due.
Decided(r, target, actor) ==
    [r EXCEPT !.state = target, !.decided = clock,
              !.actor = IF target \in {"approved", "denied"} THEN actor ELSE @]

LEMMA DecidedRecord ==
    ASSUME NEW r \in Record, NEW o \in Times, clock \in Times, o <= clock,
           ValidButOverdue(r, o), ~Due(r),
           NEW target, NEW actor, Allowed(r.state, target),
           IF target \in {"approved", "denied"} THEN actor \in Actors ELSE actor = NoActor
    PROVE  /\ Decided(r, target, actor) \in Record
           /\ Follows(r, Decided(r, target, actor)) /\ ValidButOverdue(Decided(r, target, actor), clock)
<1> DEFINE d == Decided(r, target, actor)
<1>1. /\ r.created \in Int /\ r.expires \in Int /\ r.decided \in Int /\ o \in Int /\ clock \in Int
      /\ r.state \in {"pending", "approved"} /\ target \in {"approved", "denied", "cancelled", "stale"}
  BY ApprovalConstants DEF Record, Times, Undecided, Allowed
<1>2. /\ d.state = target /\ d.decided = clock
      /\ d.actor = IF target \in {"approved", "denied"} THEN actor ELSE r.actor
      /\ d.digest = r.digest /\ d.created = r.created /\ d.expires = r.expires
  BY DEF Record, Decided
<1>3. d \in Record
  BY <1>1 DEF Record, Decided, States
<1>4. Follows(r, d)
  BY <1>1, <1>2 DEF Follows, Allowed, Reachable, States
<1>5. clock < r.expires
  BY <1>1 DEF Due, Active
<1>6. ValidRecord(r, o)
  <2>1. [r EXCEPT !.state = "expired", !.decided = o].state = "expired"
    BY DEF Record
  <2>2. /\ [r EXCEPT !.state = "expired", !.decided = o].decided = o
        /\ [r EXCEPT !.state = "expired", !.decided = o].expires = r.expires
    BY DEF Record
  <2>3. ~ValidRecord([r EXCEPT !.state = "expired", !.decided = o], o)
    BY <1>1, <1>5, <2>1, <2>2 DEF ValidRecord
  <2>4. QED
    BY <2>3 DEF ValidButOverdue
<1>7. ValidRecord(d, clock)
  <2>1. CASE r.state = "pending"
    BY <1>1, <1>2, <1>5, <1>6, <2>1, ApprovalConstants DEF ValidRecord, Allowed
  <2>2. CASE r.state = "approved"
    BY <1>1, <1>2, <1>5, <1>6, <2>2, ApprovalConstants DEF ValidRecord, Allowed
  <2>3. QED
    BY <1>1, <2>1, <2>2
<1>8. QED
  BY <1>3, <1>4, <1>7 DEF ValidButOverdue

-----------------------------------------------------------------------------
(* One operation: what commit is given.                                     *)

GoodChange(p, records, facts) ==
    /\ IsRecords(records) /\ Grown(memory[p].records, records)
    /\ SoundRecords(records, clock)
    /\ FactsOf(facts, records) /\ facts \subseteq Fact

\* One record of a sound map is replaced.
LEMMA PutIsGood ==
    ASSUME NEW old, IsRecords(old), NEW o \in Times, NEW now \in Times, o <= now, SoundRecords(old, o),
           NEW id \in DOMAIN old, NEW r \in Record, Follows(old[id], r), ValidButOverdue(r, now)
    PROVE  LET new == Put(old, id, r)
           IN  /\ IsRecords(new) /\ Grown(old, new) /\ SoundRecords(new, now)
               /\ FactsOf({FactOf(new, id)}, new) /\ {FactOf(new, id)} \subseteq Fact
<1> DEFINE new == Put(old, id, r)
<1>1. DOMAIN new = DOMAIN old /\ new[id] = r /\ \A i \in DOMAIN old : i # id => new[i] = old[i]
  BY DEF Put
<1>2. new = [i \in DOMAIN new |-> new[i]]
  BY DEF Put
<1> HIDE DEF new
<1>3. \A i \in DOMAIN old : old[i] \in Record /\ ValidButOverdue(old[i], o)
  BY DEF IsRecords, SoundRecords
<1>4. \A i \in DOMAIN old : new[i] \in Record
  BY <1>1, <1>3
<1>5. IsRecords(new)
  BY <1>1, <1>2, <1>4 DEF IsRecords
<1>6. Grown(old, new)
  BY <1>1, <1>3, FollowsIsOrder DEF Grown
<1>7. \A i \in DOMAIN new : ValidButOverdue(new[i], now)
  BY <1>1, <1>3, Aged
<1>8. SoundRecords(new, now)
  BY <1>1, <1>7 DEF SoundRecords
<1>9. FactsOf({FactOf(new, id)}, new) /\ {FactOf(new, id)} \subseteq Fact
  BY <1>1 DEF FactsOf, FactOf, Fact, Record, IsRecords
<1>10. QED
  BY <1>5, <1>6, <1>8, <1>9 DEF new

\* A record is added.
LEMMA AddIsGood ==
    ASSUME NEW old, IsRecords(old), NEW o \in Times, NEW now \in Times, o <= now, SoundRecords(old, o),
           NEW id \in Requests, id \notin DOMAIN old, Cardinality(DOMAIN old) < MaxRecords,
           NEW r \in Record, ValidButOverdue(r, now)
    PROVE  LET new == Put(old, id, r)
           IN  /\ IsRecords(new) /\ Grown(old, new) /\ SoundRecords(new, now)
               /\ FactsOf({FactOf(new, id)}, new) /\ {FactOf(new, id)} \subseteq Fact
<1> DEFINE new == Put(old, id, r)
<1>1. DOMAIN new = DOMAIN old \cup {id} /\ new[id] = r /\ \A i \in DOMAIN old : new[i] = old[i]
  BY DEF Put
<1>2. new = [i \in DOMAIN new |-> new[i]]
  BY DEF Put
<1> HIDE DEF new
<1>3. \A i \in DOMAIN old : old[i] \in Record /\ ValidButOverdue(old[i], o)
  BY DEF IsRecords, SoundRecords
<1>4. IsRecords(new)
  BY <1>1, <1>2, <1>3 DEF IsRecords
<1>5. Grown(old, new)
  BY <1>1, <1>3, FollowsIsOrder DEF Grown
<1>6. \A i \in DOMAIN new : ValidButOverdue(new[i], now)
  BY <1>1, <1>3, Aged
<1>7. IsFiniteSet(DOMAIN new) /\ Cardinality(DOMAIN new) <= MaxRecords
  <2>1. IsFiniteSet(DOMAIN old)
    BY DEF SoundRecords
  <2>2. IsFiniteSet(DOMAIN new) /\ Cardinality(DOMAIN new) = Cardinality(DOMAIN old) + 1
    BY <1>1, <2>1, FS_AddElement
  <2>3. Cardinality(DOMAIN old) \in Nat
    BY <2>1, FS_CardinalityType
  <2>4. QED
    BY <2>2, <2>3, ApprovalConstants
<1>8. FactsOf({FactOf(new, id)}, new) /\ {FactOf(new, id)} \subseteq Fact
  BY <1>1 DEF FactsOf, FactOf, Fact, Record
<1>9. QED
  BY <1>4, <1>5, <1>6, <1>7, <1>8 DEF SoundRecords, new

LEMMA FactsAboutRecords ==
    ASSUME NEW records, IsRecords(records), NEW ids \in SUBSET DOMAIN records
    PROVE  FactsOf(FactsAbout(records, ids), records) /\ FactsAbout(records, ids) \subseteq Fact
<1>1. ASSUME NEW id \in ids
      PROVE  /\ FactOf(records, id).id = id /\ id \in DOMAIN records /\ FactOf(records, id) \in Fact
  BY DEF FactOf, Fact, Record, IsRecords
<1>2. QED
  BY <1>1 DEF FactsOf, FactsAbout

LEMMA ExpireAllIsGood ==
    ASSUME NEW old, IsRecords(old), NEW o \in Times, clock \in Times, o <= clock, SoundRecords(old, o)
    PROVE  LET new == ExpireAll(old)
           IN  /\ IsRecords(new) /\ Grown(old, new) /\ SoundRecords(new, clock)
               /\ \A ids \in SUBSET DOMAIN old :
                      FactsOf(FactsAbout(new, ids), new) /\ FactsAbout(new, ids) \subseteq Fact
<1> DEFINE new == ExpireAll(old)
<1>1. DOMAIN new = DOMAIN old
  BY DEF ExpireAll
<1>2. \A i \in DOMAIN old : new[i] = IF Due(old[i]) THEN Expire(old[i]) ELSE old[i]
  BY DEF ExpireAll
<1>3. new = [i \in DOMAIN new |-> new[i]]
  BY DEF ExpireAll
<1> HIDE DEF new
<1>4. \A i \in DOMAIN old : old[i] \in Record /\ ValidButOverdue(old[i], o)
  BY DEF IsRecords, SoundRecords
<1>5. ASSUME NEW i \in DOMAIN old
      PROVE  new[i] \in Record /\ Follows(old[i], new[i]) /\ ValidButOverdue(new[i], clock)
  <2>1. CASE Due(old[i])
    BY <1>2, <1>4, <2>1, ExpiredRecord
  <2>2. CASE ~Due(old[i])
    BY <1>2, <1>4, <2>2, FollowsIsOrder, Aged
  <2>3. QED
    BY <2>1, <2>2
<1>6. IsRecords(new) /\ Grown(old, new) /\ SoundRecords(new, clock)
  BY <1>1, <1>3, <1>5 DEF IsRecords, Grown, SoundRecords
<1>7. ASSUME NEW ids \in SUBSET DOMAIN old
      PROVE  FactsOf(FactsAbout(new, ids), new) /\ FactsAbout(new, ids) \subseteq Fact
  BY <1>1, <1>6, FactsAboutRecords
<1>8. QED
  BY <1>6, <1>7 DEF new

LEMMA OperationIsGood ==
    ASSUME StoreInv, NEW p \in Processes, Operation(p)
    PROVE  \/ Observe(p)
           \/ \E ids \in SUBSET DOMAIN memory[p].records : Read(p, ids)
           \/ \E records, facts : Commit(p, records, facts) /\ GoodChange(p, records, facts)
<1> DEFINE old == memory[p].records
           o == memory[p].observed
<1> DEFINE Reads == \E ids \in SUBSET DOMAIN old : Read(p, ids)
<1>1. CASE Observe(p) \/ Reads
  BY <1>1
<1>2. ASSUME ~Observe(p), ~Reads
      PROVE  \E records, facts : Commit(p, records, facts) /\ GoodChange(p, records, facts)
  <2>0. \/ ExpireDue(p)
        \/ \E id \in Requests :
            \/ \E d \in Digests, c \in Times, e \in 0..(MaxTime + MaxTTL) : Create(p, id, d, c, e)
            \/ ExpireOne(p, id)
            \/ \E d \in Digests, a \in Actors, s \in {"approved", "denied"} : Transition(p, id, d, s, a)
            \/ \E d \in Digests, s \in {"cancelled", "stale"} : Transition(p, id, d, s, NoActor)
    <3>1. ~Read(p, DOMAIN old) /\ \A id \in DOMAIN old : ~Read(p, {id})
      BY <1>2
    <3>2. QED
      BY <1>2, <3>1 DEF Operation
  <2>1. phase[p] = "idle" /\ ~poisoned[p] /\ clock >= last[p]
    <3>1. \E records, facts : Commit(p, records, facts)
      BY <2>0 DEF Create, ExpireOne, ExpireDue, Transition
    <3>2. QED
      BY <3>1 DEF Commit, Usable
  <2>2. Owns(p) /\ disk = memory[p] /\ last[p] >= o
    BY <2>1 DEF Owns, StoreInv, MemoryIsDisk, OwnersInv
  <2>3. clock \in Times /\ last[p] \in Times
    BY DEF StoreInv, TypeOK
  <2>4. IsSnapshot(memory[p]) /\ Sound(memory[p])
    BY <2>2 DEF StoreInv, TypeOK, FilesInv
  <2>5. o \in Times /\ IsRecords(old)
    BY <2>4, SnapshotParts
  <2>6. SoundRecords(old, o)
    BY <2>4 DEF Sound
  <2>7. o <= clock
    BY <2>1, <2>2, <2>3, <2>5, ApprovalConstants DEF Times
  <2> HIDE DEF old, o
  <2>8. CASE ExpireDue(p)
    <3>1. PICK ids \in SUBSET DOMAIN old : Commit(p, ExpireAll(old), FactsAbout(ExpireAll(old), ids))
      BY <2>8 DEF ExpireDue, old
    <3>2. GoodChange(p, ExpireAll(old), FactsAbout(ExpireAll(old), ids))
      BY <2>3, <2>5, <2>6, <2>7, ExpireAllIsGood DEF GoodChange, old
    <3>3. QED
      BY <3>1, <3>2
  <2>9. ASSUME NEW id \in Requests, NEW d \in Digests, NEW c \in Times, NEW e \in 0..(MaxTime + MaxTTL),
               Create(p, id, d, c, e)
        PROVE  \E records, facts : Commit(p, records, facts) /\ GoodChange(p, records, facts)
    <3> DEFINE r == [digest |-> d, created |-> c, expires |-> e,
                     state |-> "pending", decided |-> Undecided, actor |-> NoActor]
    <3>1. /\ c <= clock /\ clock < e /\ e - c <= MaxTTL
          /\ id \notin DOMAIN old /\ Cardinality(DOMAIN old) < MaxRecords
          /\ Commit(p, Put(old, id, r), {FactOf(Put(old, id, r), id)})
      BY <2>9 DEF Create, old
    <3>2. r \in Record
      BY <2>9 DEF Record, States
    <3>3. ValidButOverdue(r, clock)
      BY <3>1 DEF ValidButOverdue, ValidRecord
    <3> HIDE DEF r
    <3>4. GoodChange(p, Put(old, id, r), {FactOf(Put(old, id, r), id)})
      BY <2>3, <2>5, <2>6, <2>7, <3>1, <3>2, <3>3, AddIsGood DEF GoodChange, old
    <3>5. QED
      BY <3>1, <3>4
  <2>10. ASSUME NEW id \in Requests, ExpireOne(p, id)
         PROVE  \E records, facts : Commit(p, records, facts) /\ GoodChange(p, records, facts)
    <3>1. /\ id \in DOMAIN old /\ Due(old[id])
          /\ Commit(p, Put(old, id, Expire(old[id])), {FactOf(Put(old, id, Expire(old[id])), id)})
      BY <2>10 DEF ExpireOne, old
    <3>2. old[id] \in Record /\ ValidButOverdue(old[id], o)
      BY <2>5, <2>6, <3>1 DEF IsRecords, SoundRecords
    <3>3. /\ Expire(old[id]) \in Record /\ Follows(old[id], Expire(old[id]))
          /\ ValidButOverdue(Expire(old[id]), clock)
      BY <2>3, <2>5, <2>7, <3>1, <3>2, ExpiredRecord
    <3>4. GoodChange(p, Put(old, id, Expire(old[id])), {FactOf(Put(old, id, Expire(old[id])), id)})
      BY <2>3, <2>5, <2>6, <2>7, <3>1, <3>3, PutIsGood DEF GoodChange, old
    <3>5. QED
      BY <3>1, <3>4
  <2>11. ASSUME NEW id \in Requests, NEW d \in Digests, NEW target, NEW actor,
                IF target \in {"approved", "denied"} THEN actor \in Actors ELSE actor = NoActor,
                Transition(p, id, d, target, actor)
         PROVE  \E records, facts : Commit(p, records, facts) /\ GoodChange(p, records, facts)
    <3> DEFINE r == Decided(old[id], target, actor)
    <3>1. /\ id \in DOMAIN old /\ ~Due(old[id]) /\ Allowed(old[id].state, target)
          /\ Commit(p, Put(old, id, r), {FactOf(Put(old, id, r), id)})
      BY <2>11 DEF Transition, Decided, old
    <3>2. old[id] \in Record /\ ValidButOverdue(old[id], o)
      BY <2>5, <2>6, <3>1 DEF IsRecords, SoundRecords
    <3>3. r \in Record /\ Follows(old[id], r) /\ ValidButOverdue(r, clock)
      BY <2>3, <2>5, <2>7, <2>11, <3>1, <3>2, DecidedRecord
    <3> HIDE DEF r
    <3>4. GoodChange(p, Put(old, id, r), {FactOf(Put(old, id, r), id)})
      BY <2>3, <2>5, <2>6, <2>7, <3>1, <3>3, PutIsGood DEF GoodChange, old
    <3>5. QED
      BY <3>1, <3>4
  <2>12. QED
    BY <2>0, <2>8, <2>9, <2>10, <2>11
<1>3. QED
  BY <1>1, <1>2

-----------------------------------------------------------------------------
(* What callers were told.                                                  *)

LEMMA RecordedStays ==
    ASSUME NEW s, IsSnapshot(s), NEW t, IsSnapshot(t), Later(s, t), NEW f \in Fact, Recorded(f, s)
    PROVE  Recorded(f, t)
<1>1. CASE t = s
  BY <1>1
<1>2. CASE t # s
  <2> DEFINE a == s.records[f.id]
             b == t.records[f.id]
  <2>1. f.id \in DOMAIN s.records /\ f.id \in DOMAIN t.records /\ Follows(a, b)
    BY <1>2 DEF Recorded, Later, Grown
  <2>2. f.state \in States /\ a.digest = f.digest /\ a.state \in Reachable(f.state)
        /\ (f.state # "pending" => a.actor = f.actor)
    BY DEF Fact, Recorded
  <2> HIDE DEF a, b
  <2>3. b.state \in Reachable(f.state)
    BY <2>1, <2>2, ReachableIsOrder DEF Follows
  <2>4. f.state # "pending" => a.state # "pending"
    BY <2>2, ReachableIsOrder
  <2>5. QED
    BY <2>1, <2>2, <2>3, <2>4 DEF Recorded, Follows, a, b
<1>3. QED
  BY <1>1, <1>2

LEMMA FactRecorded ==
    ASSUME NEW s, NEW f \in Fact, FactsOf({f}, s.records)
    PROVE  Recorded(f, s)
<1>1. f.state \in States /\ f.id \in DOMAIN s.records /\ f = FactOf(s.records, f.id)
  BY DEF Fact, FactsOf
<1>2. /\ f.digest = s.records[f.id].digest /\ f.state = s.records[f.id].state
      /\ f.actor = s.records[f.id].actor
  BY <1>1 DEF FactOf
<1>3. QED
  BY <1>1, <1>2, ReachableIsOrder DEF Recorded

\* When the file moves on, so does what was read of it.
LEMMA ShownStays ==
    ASSUME StoreInv, NEW t, IsSnapshot(t), Later(disk, t)
    PROVE  \A f \in shown : Recorded(f, t)
BY RecordedStays DEF StoreInv, TypeOK, ToldIsDurable

-----------------------------------------------------------------------------
(* StoreInv holds at first, and each step keeps it.                         *)

LEMMA StartsRight == Init => StoreInv
<1> SUFFICES ASSUME Init PROVE StoreInv
  OBVIOUS
<1>1. disk = Blank /\ durable = Blank /\ \A p \in Processes : memory[p] = Blank /\ next[p] = Blank
  BY DEF Init
<1>2. \A p \in Processes : phase[p] = "out" /\ ~Owns(p)
  BY DEF Init, Owns
<1>3. TypeOK
  <2>1. 0 \in Times
    BY ApprovalConstants DEF Times
  <2>2. IsSnapshot(disk) /\ IsSnapshot(durable)
    BY <1>1, BlankIsSound
  <2>3. \A p \in Processes : IsSnapshot(memory[p]) /\ IsSnapshot(next[p])
    BY <1>1, BlankIsSound
  <2>4. QED
    BY <2>1, <2>2, <2>3 DEF Init, TypeOK
<1>4. OwnersInv /\ MemoryIsDisk /\ PerProcess
  BY <1>2 DEF OwnersInv, MemoryIsDisk, PerProcess, Init
<1>5. FilesInv
  BY <1>1, BlankIsSound DEF FilesInv, Later
<1>6. ToldIsDurable
  BY DEF Init, ToldIsDurable
<1>7. QED
  BY <1>3, <1>4, <1>5, <1>6 DEF StoreInv

\* Neither the clock nor the look for the temporary file concerns anybody.
LEMMA AsideKeeps ==
    ASSUME StoreInv, (\E t \in Times : SetClock(t)) \/ \E p \in Processes : CheckTemp(p)
    PROVE  StoreInv'
<1>1. UNCHANGED <<disk, durable, temp, memory, last, poisoned, next, reply, told, shown>> /\ clock' \in Times
  BY DEF SetClock, CheckTemp, files, answers, StoreInv, TypeOK
<1>2. /\ phase' \in [Processes -> {"out", "checked", "idle", "temp", "renamed"}]
      /\ \A p \in Processes : phase'[p] = phase[p] \/ {phase[p], phase'[p]} \subseteq {"out", "checked"}
  BY DEF SetClock, CheckTemp, StoreInv, TypeOK
<1>3. TypeOK' /\ PerProcess'
  BY <1>1, <1>2 DEF StoreInv, TypeOK, IsSnapshot, PerProcess
<1>4. OwnersInv' /\ MemoryIsDisk'
  BY <1>1, <1>2 DEF StoreInv, OwnersInv, MemoryIsDisk, Owns, Writing
<1>5. FilesInv' /\ ToldIsDurable'
  BY <1>1 DEF StoreInv, FilesInv, ToldIsDurable
<1>6. QED
  BY <1>3, <1>4, <1>5 DEF StoreInv

LEMMA ObserveKeeps ==
    ASSUME StoreInv, NEW p \in Processes, Observe(p)
    PROVE  StoreInv'
<1>1. /\ UNCHANGED <<clock, disk, durable, temp, phase, memory, poisoned, next, reply, told, shown>>
      /\ last' = [last EXCEPT ![p] = clock] /\ clock >= last[p] /\ phase[p] = "idle"
  BY DEF Observe, Usable, files, answers
<1>2. clock \in Times /\ last \in [Processes -> Times]
  BY DEF StoreInv, TypeOK
<1>3. TypeOK' /\ PerProcess'
  BY <1>1, <1>2 DEF StoreInv, TypeOK, IsSnapshot, PerProcess
<1>4. ASSUME NEW q \in Processes, Owns(q) PROVE last'[q] >= memory[q].observed /\ Writing(q)'
  <2>1. last[q] >= memory[q].observed /\ Writing(q)
    BY <1>4 DEF StoreInv, OwnersInv
  <2>2. memory[q].observed \in Times
    BY SnapshotParts DEF StoreInv, TypeOK
  <2>3. CASE q = p
    BY <1>1, <1>2, <2>1, <2>2, <2>3, ApprovalConstants DEF Writing, Times
  <2>4. CASE q # p
    BY <1>1, <1>2, <2>1, <2>4 DEF Writing
  <2>5. QED
    BY <2>3, <2>4
<1>5. OwnersInv' /\ MemoryIsDisk'
  BY <1>1, <1>4 DEF StoreInv, OwnersInv, MemoryIsDisk, Owns
<1>6. FilesInv' /\ ToldIsDurable'
  BY <1>1 DEF StoreInv, FilesInv, ToldIsDurable
<1>7. QED
  BY <1>3, <1>5, <1>6 DEF StoreInv

\* A read tells what the file says: of a synced file, the durable file too.
LEMMA ReadKeeps ==
    ASSUME StoreInv, NEW p \in Processes, NEW ids \in SUBSET DOMAIN memory[p].records, Read(p, ids)
    PROVE  StoreInv'
<1> DEFINE facts == FactsAbout(memory[p].records, ids)
<1>1. /\ UNCHANGED <<clock, disk, durable, temp, phase, memory, poisoned, next, reply>>
      /\ last' = [last EXCEPT ![p] = clock] /\ clock >= last[p] /\ phase[p] = "idle" /\ ~poisoned[p]
      /\ IF disk = durable THEN told' = told \cup facts /\ shown' = shown
                           ELSE shown' = shown \cup facts /\ told' = told
  BY DEF Read, Usable, files
<1>2. clock \in Times /\ last \in [Processes -> Times] /\ IsSnapshot(memory[p])
  BY DEF StoreInv, TypeOK
<1>3. disk = memory[p]
  BY <1>1 DEF StoreInv, MemoryIsDisk, Owns
<1>4. facts \subseteq Fact /\ \A f \in facts : Recorded(f, disk)
  <2>1. FactsOf(facts, disk.records) /\ facts \subseteq Fact
    BY <1>2, <1>3, SnapshotParts, FactsAboutRecords
  <2>2. \A f \in facts : FactsOf({f}, disk.records)
    BY <2>1 DEF FactsOf
  <2>3. QED
    BY <2>1, <2>2, FactRecorded
<1> HIDE DEF facts
<1>5. TypeOK' /\ PerProcess'
  BY <1>1, <1>2, <1>4 DEF StoreInv, TypeOK, IsSnapshot, PerProcess
<1>6. ASSUME NEW q \in Processes, Owns(q) PROVE last'[q] >= memory[q].observed /\ Writing(q)'
  <2>1. last[q] >= memory[q].observed /\ Writing(q)
    BY <1>6 DEF StoreInv, OwnersInv
  <2>2. memory[q].observed \in Times
    BY SnapshotParts DEF StoreInv, TypeOK
  <2>3. CASE q = p
    BY <1>1, <1>2, <2>1, <2>2, <2>3, ApprovalConstants DEF Writing, Times
  <2>4. CASE q # p
    BY <1>1, <1>2, <2>1, <2>4 DEF Writing
  <2>5. QED
    BY <2>3, <2>4
<1>7. OwnersInv' /\ MemoryIsDisk'
  BY <1>1, <1>6 DEF StoreInv, OwnersInv, MemoryIsDisk, Owns
<1>8. FilesInv' /\ ToldIsDurable'
  <2>1. (\A f \in told : Recorded(f, durable)) /\ (\A f \in shown : Recorded(f, disk))
    BY DEF StoreInv, ToldIsDurable
  <2>2. CASE disk = durable
    BY <1>1, <1>4, <2>1, <2>2 DEF StoreInv, FilesInv, ToldIsDurable
  <2>3. CASE disk # durable
    BY <1>1, <1>4, <2>1, <2>3 DEF StoreInv, FilesInv, ToldIsDurable
  <2>4. QED
    BY <2>2, <2>3
<1>9. QED
  BY <1>5, <1>7, <1>8 DEF StoreInv

\* A process lets go, by Close, a failed Open or its death.
LEMMA LeaveKeeps ==
    ASSUME StoreInv, NEW p \in Processes, Leave(p), UNCHANGED <<clock, files, answers>>
    PROVE  StoreInv'
<1>1. UNCHANGED <<clock, disk, durable, temp, told, shown>>
  BY DEF files, answers
<1>2. TypeOK' /\ PerProcess'
  BY <1>1, BlankIsSound, ApprovalConstants DEF StoreInv, TypeOK, Leave, IsSnapshot, Times, PerProcess
<1>3. \A q \in Processes : Owns(q)' => Owns(q) /\ q # p
  BY DEF StoreInv, TypeOK, Owns, Leave
<1>4. \A q \in Processes : q # p => /\ phase'[q] = phase[q] /\ memory'[q] = memory[q] /\ last'[q] = last[q]
                                    /\ poisoned'[q] = poisoned[q] /\ next'[q] = next[q] /\ reply'[q] = reply[q]
  BY DEF Leave, StoreInv, TypeOK
<1>5. OwnersInv'
  BY <1>3, <1>4 DEF StoreInv, OwnersInv, Writing
<1>6. MemoryIsDisk'
  BY <1>1, <1>3, <1>4 DEF StoreInv, MemoryIsDisk
<1>7. FilesInv' /\ ToldIsDurable'
  BY <1>1 DEF StoreInv, FilesInv, ToldIsDurable
<1>8. QED
  BY <1>2, <1>5, <1>6, <1>7 DEF StoreInv

LEMMA LoadKeeps ==
    ASSUME StoreInv, NEW p \in Processes, LockAndLoad(p)
    PROVE  StoreInv'
<1>1. /\ UNCHANGED <<clock, disk, durable, temp, next, reply, told, shown>>
      /\ phase' = [phase EXCEPT ![p] = "idle"] /\ memory' = [memory EXCEPT ![p] = disk]
      /\ last' = [last EXCEPT ![p] = disk.observed] /\ poisoned' = [poisoned EXCEPT ![p] = FALSE]
      /\ \A q \in Processes : ~Owns(q)
  BY DEF LockAndLoad, files, answers
<1>2. disk.observed \in Times
  BY SnapshotParts DEF StoreInv, TypeOK
<1>3. TypeOK' /\ PerProcess'
  BY <1>1, <1>2 DEF StoreInv, TypeOK, IsSnapshot, PerProcess
<1>4. \A q \in Processes : Owns(q)' => q = p
  BY <1>1 DEF StoreInv, TypeOK, Owns
<1>5. phase'[p] = "idle" /\ memory'[p] = disk /\ last'[p] = disk.observed
  BY <1>1 DEF StoreInv, TypeOK, PerProcess
<1>6. OwnersInv' /\ MemoryIsDisk'
  <2>1. last'[p] >= memory'[p].observed
    BY <1>2, <1>5, ApprovalConstants DEF Times
  <2>2. QED
    BY <1>1, <1>4, <1>5, <2>1 DEF OwnersInv, MemoryIsDisk, Writing
<1>7. FilesInv' /\ ToldIsDurable'
  BY <1>1 DEF StoreInv, FilesInv, ToldIsDurable
<1>8. QED
  BY <1>3, <1>6, <1>7 DEF StoreInv

\* An owner goes on: the others are not owners, and nothing is claimed of
\* them but their types.
LEMMA OwnerKeeps ==
    ASSUME StoreInv, NEW p \in Processes, Owns(p),
           TypeOK', PerProcess', Owns(p)', \A q \in Processes : q # p => phase'[q] = phase[q],
           last'[p] >= memory'[p].observed, Writing(p)',
           ~poisoned'[p] => IF phase'[p] = "renamed" THEN disk' = next'[p] ELSE disk' = memory'[p],
           FilesInv', ToldIsDurable'
    PROVE  StoreInv'
<1>1. \A q \in Processes : Owns(q)' => q = p
  BY DEF StoreInv, OwnersInv, Owns
<1>2. OwnersInv' /\ MemoryIsDisk'
  BY <1>1 DEF OwnersInv, MemoryIsDisk
<1>3. QED
  BY <1>2 DEF StoreInv

LEMMA CommitKeeps ==
    ASSUME StoreInv, NEW p \in Processes, NEW records, NEW facts,
           Commit(p, records, facts), GoodChange(p, records, facts)
    PROVE  StoreInv'
<1> DEFINE new == [generation |-> memory[p].generation + 1, observed |-> clock, records |-> records]
<1>1. /\ UNCHANGED <<clock, disk, durable, memory, poisoned, told, shown>> /\ temp' = TRUE
      /\ phase' = [phase EXCEPT ![p] = "temp"] /\ next' = [next EXCEPT ![p] = new]
      /\ reply' = [reply EXCEPT ![p] = facts] /\ last' = [last EXCEPT ![p] = clock]
      /\ phase[p] = "idle" /\ ~poisoned[p] /\ clock >= last[p]
      /\ memory[p].generation < MaxGeneration
  BY DEF Commit, Usable, answers
<1>2. Owns(p) /\ last[p] >= memory[p].observed
  BY <1>1 DEF Owns, StoreInv, OwnersInv
<1>3. disk = memory[p]
  BY <1>1, <1>2 DEF StoreInv, MemoryIsDisk
<1>4. /\ clock \in Times /\ last[p] \in Times /\ IsSnapshot(memory[p])
      /\ memory[p].generation \in Nat /\ memory[p].observed \in Times
  BY SnapshotParts DEF StoreInv, TypeOK
<1>5. IsSnapshot(new)
  <2>1. memory[p].generation + 1 \in 0..MaxGeneration
    BY <1>1, <1>4, ApprovalConstants
  <2>2. QED
    BY <1>4, <2>1, SnapshotMade DEF GoodChange
<1>6. new.generation = memory[p].generation + 1 /\ new.observed = clock /\ new.records = records
  OBVIOUS
<1> HIDE DEF new
<1>7. clock >= memory[p].observed
  BY <1>1, <1>2, <1>4, ApprovalConstants DEF Times
<1>8. Later(memory[p], new) /\ Sound(new) /\ FactsOf(facts, new.records)
  BY <1>4, <1>6, <1>7 DEF Later, Sound, GoodChange
<1>9. /\ phase'[p] = "temp" /\ next'[p] = new /\ reply'[p] = facts /\ last'[p] = clock
      /\ poisoned'[p] = poisoned[p] /\ memory'[p] = memory[p]
      /\ \A q \in Processes : q # p => phase'[q] = phase[q]
  BY <1>1 DEF StoreInv, TypeOK, PerProcess
<1>10. TypeOK' /\ PerProcess'
  BY <1>1, <1>4, <1>5 DEF StoreInv, TypeOK, IsSnapshot, PerProcess, GoodChange
<1>11. FilesInv' /\ ToldIsDurable'
  BY <1>1 DEF StoreInv, FilesInv, ToldIsDurable
<1>12. Writing(p)' /\ Owns(p)'
  BY <1>1, <1>4, <1>6, <1>8, <1>9, ApprovalConstants DEF Writing, Owns, Times
<1>13. disk' = memory'[p] /\ last'[p] >= memory'[p].observed
  BY <1>1, <1>3, <1>7, <1>9
<1>14. QED
  BY <1>2, <1>9, <1>10, <1>11, <1>12, <1>13, OwnerKeeps

\* The steps of persist, with what they leave of the process.
LEMMA PersistKeeps ==
    ASSUME StoreInv, NEW p \in Processes, Persist(p)
    PROVE  StoreInv'
<1>1. /\ phase[p] \in {"temp", "renamed"} /\ Owns(p) /\ ~poisoned[p]
      /\ last[p] >= next[p].observed /\ last[p] >= memory[p].observed
      /\ Sound(next[p]) /\ FactsOf(reply[p], next[p].records)
      /\ phase[p] = "temp" => Later(memory[p], next[p])
      /\ IF phase[p] = "renamed" THEN disk = next[p] ELSE disk = memory[p]
  <2>1. phase[p] \in {"temp", "renamed"}
    BY DEF Persist, FailBeforeRename, Rename, RenameFails, DirectorySync, DirectorySyncFails
  <2>2. Owns(p)
    BY <2>1 DEF Owns
  <2>3. Writing(p) /\ last[p] >= memory[p].observed
    BY <2>2 DEF StoreInv, OwnersInv
  <2>4. QED
    BY <2>1, <2>2, <2>3 DEF Writing, StoreInv, MemoryIsDisk
<1>2. /\ IsSnapshot(next[p]) /\ IsSnapshot(memory[p]) /\ IsSnapshot(disk) /\ IsSnapshot(durable)
      /\ reply[p] \subseteq Fact /\ told \subseteq Fact /\ shown \subseteq Fact
  BY DEF StoreInv, TypeOK
<1>3. Later(durable, disk) /\ Sound(disk) /\ Sound(durable)
  BY DEF StoreInv, FilesInv
<1>4. Later(durable, next[p])
  <2>1. CASE phase[p] = "temp"
    BY <1>1, <1>2, <1>3, <2>1, LaterIsOrder
  <2>2. CASE phase[p] = "renamed"
    BY <1>1, <1>3, <2>2
  <2>3. QED
    BY <1>1, <2>1, <2>2
<1>13. \A f \in shown : Recorded(f, disk) /\ Recorded(f, next[p])
  <2>1. Later(disk, disk) /\ Later(disk, next[p])
    BY <1>1 DEF Later
  <2>2. QED
    BY <1>2, <2>1, ShownStays
<1>5. \A x : phase' = [phase EXCEPT ![p] = x] =>
             phase'[p] = x /\ \A q \in Processes : q # p => phase'[q] = phase[q]
  BY DEF StoreInv, TypeOK
<1>6. CASE FailBeforeRename(p)
  <2>1. /\ phase' = [phase EXCEPT ![p] = "idle"] /\ next' = [next EXCEPT ![p] = Blank]
        /\ reply' = [reply EXCEPT ![p] = {}] /\ temp' \in BOOLEAN
        /\ UNCHANGED <<clock, disk, durable, memory, last, poisoned, told, shown>> /\ phase[p] = "temp"
    BY <1>6 DEF FailBeforeRename, answers
  <2>2. TypeOK' /\ PerProcess'
    BY <2>1, BlankIsSound DEF StoreInv, TypeOK, IsSnapshot, PerProcess
  <2>3. FilesInv' /\ ToldIsDurable'
    BY <2>1 DEF StoreInv, FilesInv, ToldIsDurable
  <2>4. phase'[p] = "idle" /\ Owns(p)' /\ Writing(p)'
    BY <1>5, <2>1 DEF Owns, Writing
  <2>5. QED
    BY <1>1, <1>5, <2>1, <2>2, <2>3, <2>4, OwnerKeeps
<1>7. CASE Rename(p)
  <2>1. /\ phase' = [phase EXCEPT ![p] = "renamed"] /\ disk' = next[p] /\ temp' = FALSE
        /\ UNCHANGED <<clock, durable, memory, last, poisoned, next, reply, told, shown>>
    BY <1>7 DEF Rename, answers
  <2>2. TypeOK' /\ PerProcess'
    BY <1>2, <2>1 DEF StoreInv, TypeOK, IsSnapshot, PerProcess
  <2>3. FilesInv' /\ ToldIsDurable'
    BY <1>1, <1>3, <1>4, <1>13, <2>1 DEF StoreInv, FilesInv, ToldIsDurable
  <2>4. phase'[p] = "renamed" /\ Owns(p)' /\ Writing(p)'
    BY <1>1, <1>5, <2>1 DEF Owns, Writing
  <2>5. QED
    BY <1>1, <1>5, <2>1, <2>2, <2>3, <2>4, OwnerKeeps
<1>8. ASSUME Poison(p), disk' \in {disk, next[p]}, temp' \in BOOLEAN PROVE StoreInv'
  <2>1. /\ phase' = [phase EXCEPT ![p] = "idle"] /\ next' = [next EXCEPT ![p] = Blank]
        /\ poisoned' = [poisoned EXCEPT ![p] = TRUE] /\ reply' = [reply EXCEPT ![p] = {}]
        /\ UNCHANGED <<clock, durable, memory, last, told, shown>>
    BY <1>8 DEF Poison, answers
  <2>2. TypeOK' /\ PerProcess'
    BY <1>2, <1>8, <2>1, BlankIsSound DEF StoreInv, TypeOK, IsSnapshot, PerProcess
  <2>3. FilesInv' /\ ToldIsDurable'
    BY <1>1, <1>3, <1>4, <1>8, <1>13, <2>1 DEF StoreInv, FilesInv, ToldIsDurable
  <2>4. phase'[p] = "idle" /\ Owns(p)' /\ Writing(p)' /\ poisoned'[p]
    BY <1>5, <2>1 DEF Owns, Writing, StoreInv, TypeOK
  <2>5. QED
    BY <1>1, <1>5, <2>1, <2>2, <2>3, <2>4, OwnerKeeps
<1>9. CASE DirectorySync(p)
  <2>1. /\ phase' = [phase EXCEPT ![p] = "idle"] /\ durable' = disk
        /\ memory' = [memory EXCEPT ![p] = next[p]] /\ told' = told \cup reply[p]
        /\ next' = [next EXCEPT ![p] = Blank] /\ reply' = [reply EXCEPT ![p] = {}]
        /\ UNCHANGED <<clock, disk, temp, last, poisoned, shown>> /\ phase[p] = "renamed"
    BY <1>9 DEF DirectorySync
  <2>2. disk = next[p] /\ memory'[p] = next[p] /\ durable' = next[p]
    BY <1>1, <2>1 DEF StoreInv, PerProcess
  <2>3. TypeOK' /\ PerProcess'
    BY <1>2, <2>1, BlankIsSound DEF StoreInv, TypeOK, IsSnapshot, PerProcess
  <2>4. FilesInv'
    BY <1>3, <2>1 DEF FilesInv, Later
  <2>5. \A f \in told' : Recorded(f, next[p])
    <3>1. \A f \in told : Recorded(f, durable)
      BY DEF StoreInv, ToldIsDurable
    <3>2. \A f \in told : Recorded(f, next[p])
      BY <1>2, <1>4, <3>1, RecordedStays
    <3>3. \A f \in reply[p] : FactsOf({f}, next[p].records)
      BY <1>1 DEF FactsOf
    <3>4. \A f \in reply[p] : Recorded(f, next[p])
      BY <1>2, <3>3, FactRecorded
    <3>5. QED
      BY <2>1, <3>2, <3>4
  <2>6. ToldIsDurable'
    BY <1>13, <2>1, <2>2, <2>5 DEF ToldIsDurable
  <2>7. phase'[p] = "idle" /\ Owns(p)' /\ Writing(p)'
    <3>1. phase'[p] = "idle"
      BY <1>5, <2>1
    <3>2. QED
      BY <3>1 DEF Owns, Writing
  <2>8. QED
    BY <1>1, <1>5, <2>1, <2>2, <2>3, <2>4, <2>6, <2>7, OwnerKeeps
<1>10. CASE RenameFails(p)
  BY <1>8, <1>10 DEF RenameFails
<1>11. CASE DirectorySyncFails(p)
  BY <1>8, <1>11 DEF DirectorySyncFails, StoreInv, TypeOK
<1>12. QED
  BY <1>6, <1>7, <1>9, <1>10, <1>11 DEF Persist

LEMMA PowerLossKeeps ==
    ASSUME StoreInv, PowerLoss
    PROVE  StoreInv'
<1>1. /\ disk' \in {disk, durable} /\ durable' = disk' /\ temp' \in BOOLEAN
      /\ phase' = [p \in Processes |-> "out"] /\ memory' = [p \in Processes |-> Blank]
      /\ last' = [p \in Processes |-> 0] /\ poisoned' = [p \in Processes |-> FALSE]
      /\ next' = [p \in Processes |-> Blank] /\ reply' = [p \in Processes |-> {}]
      /\ shown' = (IF disk' = disk THEN shown ELSE {}) /\ UNCHANGED <<clock, told>>
  BY DEF PowerLoss
<1>2. /\ IsSnapshot(disk) /\ IsSnapshot(durable) /\ told \subseteq Fact /\ shown \subseteq Fact
      /\ Later(durable, disk) /\ Sound(disk) /\ Sound(durable)
  BY DEF StoreInv, TypeOK, FilesInv
<1>3. TypeOK' /\ PerProcess'
  <2>1. 0 \in Times
    BY ApprovalConstants DEF Times
  <2>2. IsSnapshot(disk') /\ IsSnapshot(durable')
    BY <1>1, <1>2
  <2>3. \A p \in Processes : IsSnapshot(memory'[p]) /\ IsSnapshot(next'[p]) /\ reply'[p] = {}
    BY <1>1, BlankIsSound
  <2>4. QED
    BY <1>1, <2>1, <2>2, <2>3 DEF StoreInv, TypeOK, PerProcess
<1>4. OwnersInv' /\ MemoryIsDisk'
  BY <1>1 DEF OwnersInv, MemoryIsDisk, Owns
<1>5. FilesInv'
  BY <1>1, <1>2 DEF FilesInv, Later
<1>6. ToldIsDurable'
  <2>1. \A f \in told : Recorded(f, durable)
    BY DEF StoreInv, ToldIsDurable
  <2>2. \A f \in told : Recorded(f, disk)
    BY <1>2, <2>1, RecordedStays
  <2>3. \A f \in told' : Recorded(f, durable')
    BY <1>1, <2>1, <2>2
  <2>4. \A f \in shown' : Recorded(f, disk')
    BY <1>1 DEF StoreInv, ToldIsDurable
  <2>5. QED
    BY <2>3, <2>4 DEF ToldIsDurable
<1>7. QED
  BY <1>3, <1>4, <1>5, <1>6 DEF StoreInv

LEMMA StepKeeps == StoreInv /\ [Next]_vars => StoreInv'
<1> SUFFICES ASSUME StoreInv, [Next]_vars PROVE StoreInv'
  OBVIOUS
<1>1. CASE UNCHANGED vars
  BY <1>1 DEF vars, files, answers, StoreInv, TypeOK, PerProcess, OwnersInv, MemoryIsDisk, FilesInv, ToldIsDurable,
              IsSnapshot, Owns, Writing
<1>2. ASSUME NEW p \in Processes,
             \/ CheckTemp(p) \/ LockAndLoad(p) \/ OpenFails(p) \/ Close(p)
             \/ Operation(p) \/ Persist(p) \/ Crash(p)
      PROVE  StoreInv'
  <2>1. CASE OpenFails(p) \/ Close(p) \/ Crash(p)
    BY <2>1, LeaveKeeps DEF OpenFails, Close, Crash
  <2>2. CASE Operation(p)
    BY <2>2, OperationIsGood, ObserveKeeps, ReadKeeps, CommitKeeps
  <2>3. QED
    BY <1>2, <2>1, <2>2, AsideKeeps, LoadKeeps, PersistKeeps
<1>3. QED
  BY <1>1, <1>2, AsideKeeps, PowerLossKeeps DEF Next

LEMMA StoreInvHolds == Spec => []StoreInv
<1>1. QED
  BY StartsRight, StepKeeps, PTL DEF Spec

-----------------------------------------------------------------------------
(* The theorems.                                                            *)

\* Snapshots, in memory, in flight and on disk, keep their shape: the
\* generation and the clock stay within their ranges, and every record in its
\* grammar.
THEOREM TypeCorrect == Spec => []TypeOK
<1>1. StoreInv => TypeOK
  BY DEF StoreInv
<1>2. QED
  BY <1>1, StoreInvHolds, PTL

\* A process that answers, answers from what is in the file.
THEOREM MemoryIsDiskHolds == Spec => []MemoryIsDisk
<1>1. StoreInv => MemoryIsDisk
  BY DEF StoreInv
<1>2. QED
  BY <1>1, StoreInvHolds, PTL

\* What the store writes is what Open accepts, overdue requests excepted.
THEOREM SnapshotsConsistentHolds == Spec => []SnapshotsConsistent
<1>1. StoreInv => SnapshotsConsistent
  BY DEF StoreInv, FilesInv, Sound, SoundRecords, SnapshotsConsistent, Consistent
<1>2. QED
  BY <1>1, StoreInvHolds, PTL

\* What a caller was told by a change, or read of a synced file, survives every
\* failure, kill and power loss; what was read of an unsynced file stands until a
\* power loss undoes the rename.
THEOREM ToldIsDurableHolds == Spec => []ToldIsDurable
<1>1. StoreInv => ToldIsDurable
  BY DEF StoreInv
<1>2. QED
  BY <1>1, StoreInvHolds, PTL

\* The durable file changes only at the directory sync and at a power loss,
\* and then to the file that processes see, which is never an earlier one.
THEOREM OnlyForwardHolds == Spec => OnlyForward
<1>1. ASSUME StoreInv, [Next]_vars PROVE ForwardStep
  <2>1. durable' = durable \/ durable' = disk
    <3>1. ASSUME NEW p \in Processes, Operation(p) PROVE durable' = durable
      BY <1>1, <3>1, OperationIsGood DEF Observe, Read, Commit, files
    <3>2. ASSUME NEW p \in Processes, Persist(p) PROVE durable' = durable \/ durable' = disk
      BY <3>2 DEF Persist, FailBeforeRename, Rename, RenameFails, DirectorySync, DirectorySyncFails, Poison
    <3>3. ASSUME NEW p \in Processes,
                 CheckTemp(p) \/ LockAndLoad(p) \/ OpenFails(p) \/ Close(p) \/ Crash(p)
          PROVE  durable' = durable
      BY <3>3 DEF CheckTemp, LockAndLoad, OpenFails, Close, Crash, files
    <3>4. CASE PowerLoss \/ (\E t \in Times : SetClock(t)) \/ UNCHANGED vars
      BY <3>4 DEF PowerLoss, SetClock, files, vars
    <3>5. QED
      BY <1>1, <3>1, <3>2, <3>3, <3>4 DEF Next
  <2>2. Later(durable, disk)
    BY <1>1 DEF StoreInv, FilesInv
  <2>3. QED
    BY <2>1, <2>2 DEF ForwardStep, Later, Grown, Follows
<1>2. QED
  BY <1>1, StoreInvHolds, PTL DEF Spec, OnlyForward
=============================================================================
