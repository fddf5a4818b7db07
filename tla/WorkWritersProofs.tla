--------------------------- MODULE WorkWritersProofs ---------------------------
(***************************************************************************)
(* Proofs about WorkWriters, for any number of processes and of kills.     *)
(*                                                                         *)
(* OneWriter is not inductive: it says nothing of a process that is about  *)
(* to enter, nor of one that is about to remove a lock.  LockInv says what *)
(* the lock directory holds while a process is at each place.  WriterInv   *)
(* and SettleInv say what is then true of the repository.                  *)
(***************************************************************************)
EXTENDS WorkWriters, FiniteSetTheorems, SequenceTheorems, TLAPS

(* Places of a process that has written its pid into owner.json.           *)
Holding ==
  {"check", "enter", "write", "child", "add", "commit", "after", "undo", "release", "unlock", "drop"}

(* A process that holds the lock has its pid in it, the one that has just  *)
(* made the directory is alone in seeing it without an owner, and the      *)
(* owner whose lock is about to be removed has ended.  That it had not     *)
(* ended when owner.json was read cannot be ruled out.                     *)
Owns(p) ==
  /\ pc[p] \in Holding => lock = p
  /\ pc[p] = "owner" => lock = Unwritten
  /\ pc[p] \in {"probe", "takeover"} => found[p] \notin {Free, Unwritten}
  /\ pc[p] = "takeover" /\ found[p] \in Procs => pc[found[p]] \in Ended
OwnersInv == \A p \in Procs : Owns(p)
OneMaker == \A p, q \in Procs : pc[p] = "owner" /\ pc[q] = "owner" => p = q

LockInv ==
  /\ DOMAIN pc = Procs /\ DOMAIN found = Procs
  /\ broken \subseteq Damages
  /\ "lock" \notin broken => OwnersInv /\ OneMaker

-----------------------------------------------------------------------------
(* Process p goes from one of these places to one of those.                *)
Moves(p, from, to) ==
  \E label \in to : pc[p] \in from /\ pc' = [pc EXCEPT ![p] = label]

LEMMA OthersStay ==
  ASSUME DOMAIN pc = Procs, NEW p \in Procs, NEW from, NEW to, Moves(p, from, to)
  PROVE  /\ DOMAIN pc' = Procs
         /\ pc[p] \in from /\ pc'[p] \in to
         /\ \A q \in Procs : q # p => pc'[q] = pc[q]
  BY DEF Moves

(* A process that has ended stays ended.                                   *)
LEMMA EndedStays ==
  ASSUME DOMAIN pc = Procs, NEW p \in Procs, NEW from, NEW to, Moves(p, from, to),
         from \cap Ended = {}
  PROVE  \A q \in Procs : pc[q] \in Ended => pc'[q] \in Ended
<1>1. \A q \in Procs : pc[q] \in Ended => q # p
  BY OthersStay
<1>2. QED
  BY <1>1, OthersStay

(* Steps that leave the lock alone, and neither get hold of it nor of      *)
(* another's: they keep the invariant.                                     *)
LEMMA StepsAside ==
  ASSUME LockInv, NEW p \in Procs, NEW from, NEW to, Moves(p, from, to),
         from \cap Ended = {},
         to \cap Holding = {} \/ from \subseteq Holding,
         "owner" \notin to, "probe" \notin to, "takeover" \notin to,
         UNCHANGED <<lock, found>>,
         broken' \subseteq Damages, broken \subseteq broken'
  PROVE  LockInv'
<1>1. DOMAIN pc = Procs
  BY DEF LockInv
<1>2. DOMAIN pc' = Procs /\ DOMAIN found' = Procs
  BY <1>1, OthersStay DEF LockInv
<1>3. SUFFICES ASSUME "lock" \notin broken' PROVE OwnersInv' /\ OneMaker'
  BY <1>2 DEF LockInv
<1>4. OwnersInv /\ OneMaker
  BY <1>3 DEF LockInv
<1>5. pc'[p] # "owner"
  BY <1>1, OthersStay
<1>6. OneMaker'
  BY <1>1, <1>4, <1>5, OthersStay DEF OneMaker
<1>7. ASSUME NEW q \in Procs PROVE Owns(q)'
  <2>1. Owns(q)
    BY <1>4 DEF OwnersInv
  <2>2. CASE q = p
    <3>1. pc[p] \in from /\ pc'[p] \in to
      BY <1>1, OthersStay
    <3>2. pc'[p] \in Holding => lock' = p
      BY <2>1, <2>2, <3>1 DEF Owns
    <3>3. QED
      BY <2>2, <3>1, <3>2 DEF Owns
  <2>3. CASE q # p
    <3>1. pc'[q] = pc[q]
      BY <2>3, <1>1, OthersStay
    <3>2. found[q] \in Procs /\ pc[found[q]] \in Ended => pc'[found[q]] \in Ended
      BY <1>1, EndedStays
    <3>3. QED
      BY <2>1, <3>1, <3>2 DEF Owns
  <2>4. QED
    BY <2>2, <2>3
<1>8. QED
  BY <1>6, <1>7 DEF OwnersInv

(* Steps of a process that is the only one with a claim to the lock.       *)
LEMMA StepsAlone ==
  ASSUME LockInv, NEW p \in Procs, NEW from, NEW to, Moves(p, from, to),
         from \cap Ended = {}, "probe" \notin to, "takeover" \notin to,
         UNCHANGED found, broken' \subseteq Damages, broken \subseteq broken',
         "lock" \notin broken' =>
           /\ \A q \in Procs : q # p => pc[q] \notin Holding /\ pc[q] # "owner"
           /\ pc'[p] \in Holding => lock' = p
           /\ pc'[p] = "owner" => lock' = Unwritten
  PROVE  LockInv'
<1>1. DOMAIN pc = Procs
  BY DEF LockInv
<1>2. DOMAIN pc' = Procs /\ DOMAIN found' = Procs
  BY <1>1, OthersStay DEF LockInv
<1>3. SUFFICES ASSUME "lock" \notin broken' PROVE OwnersInv' /\ OneMaker'
  BY <1>2 DEF LockInv
<1>4. OwnersInv
  BY <1>3 DEF LockInv
<1>5. \A q \in Procs : q # p => pc'[q] = pc[q] /\ pc[q] \notin Holding /\ pc[q] # "owner"
  BY <1>1, <1>3, OthersStay
<1>6. OneMaker'
  BY <1>5 DEF OneMaker
<1>7. ASSUME NEW q \in Procs PROVE Owns(q)'
  <2>1. CASE q = p
    <3>1. pc'[p] \notin {"probe", "takeover"}
      BY <1>1, OthersStay
    <3>2. QED
      BY <2>1, <3>1, <1>3 DEF Owns
  <2>2. CASE q # p
    <3>1. Owns(q)
      BY <1>4 DEF OwnersInv
    <3>2. found[q] \in Procs /\ pc[found[q]] \in Ended => pc'[found[q]] \in Ended
      BY <1>1, EndedStays
    <3>3. QED
      BY <2>2, <1>5, <3>1, <3>2 DEF Owns
  <2>3. QED
    BY <2>1, <2>2
<1>8. QED
  BY <1>6, <1>7 DEF OwnersInv

-----------------------------------------------------------------------------
(* The steps of acquireWorkRepoLock, and the release.                      *)

(* mkdir succeeds only when there is no lock, so nobody has a claim.       *)
LEMMA MkdirKeepsLockInv ==
  ASSUME LockInv, NEW p \in Procs, Mkdir(p) \/ MkdirAgain(p)
  PROVE  LockInv'
<1> USE DEF At, Goto, private
<1>1. pc[p] \in {"mkdir", "again"} /\ UNCHANGED <<found, broken>>
  BY DEF Mkdir, MkdirAgain
<1>2. broken' \subseteq Damages
  BY <1>1 DEF LockInv
<1>3. CASE lock = Free
  <2>1. lock' = Unwritten /\ Moves(p, {"mkdir", "again"}, {"owner"})
    BY <1>3 DEF Mkdir, MkdirAgain, Moves
  <2>2. pc'[p] = "owner"
    BY <2>1, OthersStay DEF LockInv
  <2>3. ASSUME "lock" \notin broken', NEW q \in Procs PROVE pc[q] \notin Holding /\ pc[q] # "owner"
    BY <1>1, <1>3, <2>3, WriterConstants DEF LockInv, OwnersInv, Owns
  <2>4. QED
    BY <1>1, <1>2, <2>1, <2>2, <2>3, StepsAlone DEF Ended, Holding
<1>4. CASE lock # Free
  <2>1. lock' = lock /\ Moves(p, {"mkdir", "again"}, {"held", "refused"})
    BY <1>4 DEF Mkdir, MkdirAgain, Moves
  <2>2. QED
    BY <1>1, <1>2, <2>1, StepsAside DEF Ended, Holding
<1>5. QED
  BY <1>3, <1>4

(* Whoever is read to be the owner, no claim comes of it or goes.          *)
LEMMA ReadOwnerKeepsLockInv ==
  ASSUME LockInv, NEW p \in Procs, ReadOwner(p)
  PROVE  LockInv'
<1> USE DEF At, Goto
<1>1. pc[p] = "held" /\ UNCHANGED <<lock, broken>>
  BY DEF ReadOwner
<1>2. broken' \subseteq Damages /\ DOMAIN pc = Procs /\ DOMAIN found = Procs
  BY <1>1 DEF LockInv
<1>3. CASE lock \notin {Free, Unwritten}
  <2>1. found' = [found EXCEPT ![p] = lock] /\ Moves(p, {"held"}, {"probe"})
    BY <1>3 DEF ReadOwner, Moves
  <2>2. /\ DOMAIN pc' = Procs /\ DOMAIN found' = Procs /\ pc'[p] = "probe" /\ found'[p] = lock
        /\ \A q \in Procs : q # p => pc'[q] = pc[q] /\ found'[q] = found[q]
    BY <1>2, <2>1, OthersStay
  <2>3. \A q \in Procs : pc[q] \in Ended => pc'[q] \in Ended
    BY <1>2, <2>1, EndedStays DEF Ended
  <2>4. SUFFICES ASSUME "lock" \notin broken' PROVE OwnersInv' /\ OneMaker'
    BY <1>2, <2>2, <1>1 DEF LockInv
  <2>5. OwnersInv /\ OneMaker
    BY <1>1, <2>4 DEF LockInv
  <2>6. OneMaker'
    BY <2>2, <2>5 DEF OneMaker
  <2>7. ASSUME NEW q \in Procs PROVE Owns(q)'
    <3>1. CASE q = p
      BY <3>1, <2>2, <1>3 DEF Owns, Holding
    <3>2. CASE q # p
      BY <3>2, <1>1, <2>2, <2>3, <2>5 DEF OwnersInv, Owns
    <3>3. QED
      BY <3>1, <3>2
  <2>8. QED
    BY <2>6, <2>7 DEF OwnersInv
<1>4. CASE lock \in {Free, Unwritten}
  <2>1. found' = found /\ Moves(p, {"held"}, {"refused"})
    BY <1>4 DEF ReadOwner, Moves
  <2>2. QED
    BY <1>1, <1>2, <2>1, StepsAside DEF Ended, Holding
<1>5. QED
  BY <1>3, <1>4

(* An owner that is found dead has ended, and will not come back.          *)
LEMMA ProbeKeepsLockInv ==
  ASSUME LockInv, NEW p \in Procs, Probe(p)
  PROVE  LockInv'
<1> USE DEF At, Goto, private
<1>1. pc[p] = "probe" /\ UNCHANGED <<lock, found, broken>>
  BY DEF Probe
<1>2. broken' \subseteq Damages /\ DOMAIN pc = Procs /\ DOMAIN found' = Procs
  BY <1>1 DEF LockInv
<1>3. CASE ~Alive(found[p])
  <2>1. Moves(p, {"probe"}, {"takeover"})
    BY <1>3 DEF Probe, Moves
  <2>2. /\ DOMAIN pc' = Procs /\ pc'[p] = "takeover"
        /\ \A q \in Procs : q # p => pc'[q] = pc[q]
    BY <1>2, <2>1, OthersStay
  <2>3. \A q \in Procs : pc[q] \in Ended => pc'[q] \in Ended
    BY <1>2, <2>1, EndedStays DEF Ended
  <2>4. SUFFICES ASSUME "lock" \notin broken' PROVE OwnersInv' /\ OneMaker'
    BY <1>2, <2>2 DEF LockInv
  <2>5. OwnersInv /\ OneMaker
    BY <1>1, <2>4 DEF LockInv
  <2>6. OneMaker'
    BY <2>2, <2>5 DEF OneMaker
  <2>7. ASSUME NEW q \in Procs PROVE Owns(q)'
    <3>1. CASE q = p
      <4>1. found[p] \in Procs => pc'[found[p]] \in Ended
        BY <1>3, <2>3 DEF Alive
      <4>2. found[p] \notin {Free, Unwritten}
        BY <1>1, <2>5 DEF OwnersInv, Owns
      <4>3. QED
        BY <3>1, <4>1, <4>2, <2>2, <1>1 DEF Owns, Holding
    <3>2. CASE q # p
      BY <3>2, <1>1, <2>2, <2>3, <2>5 DEF OwnersInv, Owns
    <3>3. QED
      BY <3>1, <3>2
  <2>8. QED
    BY <2>6, <2>7 DEF OwnersInv
<1>4. CASE Alive(found[p])
  <2>1. Moves(p, {"probe"}, {"refused"})
    BY <1>4 DEF Probe, Moves
  <2>2. QED
    BY <1>1, <1>2, <2>1, StepsAside DEF Ended, Holding
<1>5. QED
  BY <1>3, <1>4

(* The lock that is removed is the dead owner's or none, unless broken.    *)
LEMMA RemoveLockKeepsLockInv ==
  ASSUME LockInv, NEW p \in Procs, RemoveLock(p)
  PROVE  LockInv'
<1>1. /\ pc[p] = "takeover" /\ Moves(p, {"takeover"}, {"again"}) /\ UNCHANGED found
      /\ broken' = IF lock \notin {Free, found[p]} THEN broken \cup {"lock"} ELSE broken
  BY DEF RemoveLock, Break, At, Goto, Moves
<1>2. ASSUME "lock" \notin broken', NEW q \in Procs
      PROVE  pc[q] \notin Holding /\ pc[q] # "owner"
  <2>1. Owns(p) /\ Owns(q) /\ lock \in {Free, found[p]}
    BY <1>1, <1>2 DEF LockInv, OwnersInv
  <2>2. lock # Unwritten
    BY <2>1, <1>1, WriterConstants DEF Owns
  <2>3. pc[q] \notin Holding
    <3>1. SUFFICES ASSUME pc[q] \in Holding PROVE FALSE
      OBVIOUS
    <3>2. lock = q
      BY <2>1, <3>1 DEF Owns
    <3>3. found[p] = q
      BY <2>1, <3>2, WriterConstants
    <3>4. pc[q] \in Ended
      BY <2>1, <1>1, <3>3 DEF Owns
    <3>5. QED
      BY <3>1, <3>4 DEF Holding, Ended
  <2>4. QED
    BY <2>1, <2>2, <2>3 DEF Owns
<1>3. pc'[p] = "again"
  BY <1>1, OthersStay DEF LockInv
<1>4. broken' \subseteq Damages /\ broken \subseteq broken'
  BY <1>1 DEF LockInv, Damages
<1>5. QED
  BY <1>1, <1>2, <1>3, <1>4, StepsAlone DEF Ended, Holding

(* The maker of the directory is alone with it when it writes its pid.     *)
LEMMA WriteOwnerKeepsLockInv ==
  ASSUME LockInv, NEW p \in Procs, WriteOwner(p)
  PROVE  LockInv'
<1>1. pc[p] = "owner" /\ Moves(p, {"owner"}, {"drop", "check"}) /\ UNCHANGED <<found, broken>>
  BY DEF WriteOwner, At, Goto, Moves, private
<1>2. ASSUME "lock" \notin broken' PROVE lock = Unwritten /\ lock' = p
  <2>1. lock = Unwritten
    BY <1>1, <1>2 DEF LockInv, OwnersInv, Owns
  <2>2. QED
    BY <2>1, WriterConstants DEF WriteOwner
<1>3. ASSUME "lock" \notin broken', NEW q \in Procs, q # p
      PROVE  pc[q] \notin Holding /\ pc[q] # "owner"
  BY <1>1, <1>2, <1>3, WriterConstants DEF LockInv, OwnersInv, OneMaker, Owns
<1>4. pc'[p] # "owner"
  BY <1>1, OthersStay DEF LockInv
<1>5. broken' \subseteq Damages
  BY <1>1 DEF LockInv
<1>6. QED
  BY <1>1, <1>2, <1>3, <1>4, <1>5, StepsAlone DEF Ended

(* Only the holder removes the lock it has got.                            *)
LEMMA ReleaseKeepsLockInv ==
  ASSUME LockInv, NEW p \in Procs, Release(p)
  PROVE  LockInv'
<1>1. /\ Moves(p, {"release", "unlock", "drop"}, {"done", "failed", "refused"})
      /\ UNCHANGED <<found, broken>>
  BY DEF Release, At, Goto, Moves, private
<1>2. pc[p] \in Holding /\ pc'[p] \in {"done", "failed", "refused"}
  BY <1>1, OthersStay DEF LockInv, Holding
<1>3. ASSUME "lock" \notin broken', NEW q \in Procs, q # p
      PROVE  pc[q] \notin Holding /\ pc[q] # "owner"
  BY <1>1, <1>2, <1>3, WriterConstants DEF LockInv, OwnersInv, Owns
<1>4. broken' \subseteq Damages
  BY <1>1 DEF LockInv
<1>5. QED
  BY <1>1, <1>2, <1>3, <1>4, StepsAlone DEF Ended, Holding

-----------------------------------------------------------------------------
(* All other steps leave the lock alone.                                   *)

(* A script that is inside stays so until it releases the lock.            *)
LEMMA WritingStaysInside ==
  ASSUME NEW p \in Procs, Writing(p)
  PROVE  /\ Moves(p, Holding, Holding)
         /\ UNCHANGED <<lock, found, broken>>
<1> USE DEF At, Goto, Moves, Holding, private
<1>1. CASE Read(p) \/ Create(p) \/ Allocate(p) \/ Record(p)
  BY <1>1 DEF Read, Create, Allocate, Record
<1>2. CASE Child(p) \/ ValidateChild(p)
  BY <1>2 DEF Child, ValidateChild
<1>3. CASE SyncConfig(p) \/ CheckScope(p) \/ RefreshIndex(p)
  BY <1>3 DEF SyncConfig, CheckScope, RefreshIndex
<1>4. CASE Add(p) \/ Commit(p) \/ After(p)
  BY <1>4 DEF Add, Commit, After
<1>5. CASE Undo(p)
  BY <1>5 DEF Undo
<1>6. QED
  BY <1>1, <1>2, <1>3, <1>4, <1>5 DEF Writing

LEMMA WritingKeepsLockInv ==
  ASSUME LockInv, NEW p \in Procs, Writing(p)
  PROVE  LockInv'
<1>1. broken' \subseteq Damages
  BY WritingStaysInside DEF LockInv
<1>2. QED
  BY <1>1, WritingStaysInside, StepsAside DEF Holding, Ended

(* Places of a task-start between its first look and its end.              *)
Starts ==
  {"compare", "head", "read", "scaffold", "entry", "allocate", "revert", "reset", "hard",
   "remove", "restore", "rewrite"}

(* task-start never asks for the lock.                                     *)
LEMMA StartingAside ==
  ASSUME NEW p \in Procs, Starting(p)
  PROVE  /\ Moves(p, Starts \cup {"new"}, Starts \cup {"done", "refused", "failed", "retained"})
         /\ UNCHANGED <<lock, kind, found, fault>>
         /\ broken' = broken \/ broken' = broken \cup {"reset"} \/ broken' = broken \cup {"backlog"}
         /\ pc[p] = "new" => kind[p] = "start"
<1> USE DEF At, Goto, Moves, Starts, private, Break
<1>1. CASE StartStatus(p) \/ StartCompare(p) \/ StartHead(p) \/ StartRead(p)
  BY <1>1 DEF StartStatus, StartCompare, StartHead, StartRead
<1>2. CASE StartScaffold(p) \/ StartWrite(p) \/ StartAllocate(p)
  BY <1>2 DEF StartScaffold, StartWrite, StartAllocate
<1>3. CASE StartRevert(p) \/ StartReset(p) \/ StartResetHard(p)
  BY <1>3 DEF StartRevert, StartReset, StartResetHard
<1>4. CASE StartRemove(p) \/ StartRestore(p) \/ StartRewrite(p)
  BY <1>4 DEF StartRemove, StartRestore, StartRewrite
<1>5. QED
  BY <1>1, <1>2, <1>3, <1>4 DEF Starting

LEMMA StartingKeepsLockInv ==
  ASSUME LockInv, NEW p \in Procs, Starting(p)
  PROVE  LockInv'
<1> DEFINE from == Starts \cup {"new"}
           to == Starts \cup {"done", "refused", "failed", "retained"}
<1>1. UNCHANGED <<lock, found>> /\ Moves(p, from, to)
  BY StartingAside
<1>2. broken' \subseteq Damages /\ broken \subseteq broken'
  BY StartingAside DEF LockInv, Damages
<1>3. QED
  BY <1>1, <1>2, StepsAside DEF Starts, Holding, Ended

(* Begin, the check of the worktree, and the death of a process.           *)
LEMMA BeginKeepsLockInv ==
  ASSUME LockInv, NEW p \in Procs, Begin(p)
  PROVE  LockInv'
<1>1. Moves(p, {"new"}, {"mkdir"}) /\ UNCHANGED <<lock, found, broken>>
  BY DEF Begin, At, Goto, Moves
<1>2. broken' \subseteq Damages
  BY <1>1 DEF LockInv
<1>3. QED
  BY <1>1, <1>2, StepsAside DEF Holding, Ended

LEMMA CheckKeepsLockInv ==
  ASSUME LockInv, NEW p \in Procs, Check(p)
  PROVE  LockInv'
<1>1. Moves(p, {"check"}, {"enter", "drop"}) /\ UNCHANGED <<lock, found, broken>>
  BY DEF Check, At, Goto, Moves
<1>2. broken' \subseteq Damages
  BY <1>1 DEF LockInv
<1>3. QED
  BY <1>1, <1>2, StepsAside DEF Holding, Ended

LEMMA KillKeepsLockInv ==
  ASSUME LockInv, NEW p \in Procs, Kill(p)
  PROVE  LockInv'
<1>1. Moves(p, {pc[p]}, {"killed"}) /\ pc[p] \notin Ended /\ UNCHANGED <<lock, found, broken>>
  BY DEF Kill, Goto, Moves, private
<1>2. broken' \subseteq Damages
  BY <1>1 DEF LockInv
<1>3. DEFINE from == {pc[p]}
<1>4. Moves(p, from, {"killed"}) /\ from \cap Ended = {}
  BY <1>1
<1>5. QED
  BY <1>1, <1>2, StepsAside DEF Holding, Ended

-----------------------------------------------------------------------------
LEMMA LockInvHolds == Spec => []LockInv
<1>1. Init => LockInv
  BY DEF Init, LockInv, OwnersInv, OneMaker, Owns, Holding
<1>2. LockInv /\ [Next]_vars => LockInv'
  <2>1. SUFFICES ASSUME LockInv, [Next]_vars PROVE LockInv'
    OBVIOUS
  <2>2. CASE UNCHANGED vars
    BY <2>1, <2>2 DEF vars, LockInv, OwnersInv, OneMaker, Owns
  <2>3. CASE Next
    <3>1. PICK p \in Procs : Locking(p) \/ Writing(p) \/ Starting(p) \/ Kill(p)
      BY <2>3 DEF Next
    <3>2. CASE Locking(p)
      BY <3>2, <2>1, BeginKeepsLockInv, MkdirKeepsLockInv, ReadOwnerKeepsLockInv, ProbeKeepsLockInv,
         CheckKeepsLockInv, RemoveLockKeepsLockInv, WriteOwnerKeepsLockInv, ReleaseKeepsLockInv DEF Locking
    <3>3. QED
      BY <2>1, <3>1, <3>2, WritingKeepsLockInv, StartingKeepsLockInv, KillKeepsLockInv
  <2>4. QED
    BY <2>1, <2>2, <2>3
<1>3. QED
  BY <1>1, <1>2, PTL DEF Spec

(* However many scripts run, and however many of them are killed, at most  *)
(* one is inside the lock of lib.mjs, until a process removes another lock *)
(* than the one whose owner it has found dead.                             *)
THEOREM OneWriterHolds == Spec => []OneWriter
<1>1. LockInv => OneWriter
  <2>1. SUFFICES ASSUME LockInv, "lock" \notin broken PROVE Cardinality(Inside) <= 1
    BY DEF OneWriter
  <2>2. \A p \in Inside : p = lock
    BY <2>1 DEF LockInv, OwnersInv, Owns, Inside, Holding
  <2>3. Inside = {} \/ Inside = {lock}
    BY <2>2
  <2>4. Cardinality({}) = 0 /\ Cardinality({lock}) = 1
    BY FS_EmptySet, FS_Singleton
  <2>5. QED
    BY <2>3, <2>4
<1>2. QED
  BY <1>1, LockInvHolds, PTL

-----------------------------------------------------------------------------
(***************************************************************************)
(* What the holder of the lock has made of the repository.                 *)
(*                                                                         *)
(* The properties of the commits are not inductive either: a commit takes  *)
(* what is staged, which was written several steps earlier, while a        *)
(* task-start may have written below the writer's feet.  WriterInv says    *)
(* how far the worktree and the index can be from the tree in which the    *)
(* writer began.                                                           *)
(***************************************************************************)
Trees == [Files -> SUBSET Procs]

Starters == {s \in Procs : kind[s] = "start"}

(* Places of a writer between its check and its release.                   *)
Working == {"enter", "write", "child", "add", "commit", "after", "undo"}

(* Places of a task-start that has remembered the head.                    *)
Started == Starts \ {"compare", "head"}

(* The places that the scripts have in common with some others only.       *)
Placed(p) ==
  /\ pc[p] \in Starts => kind[p] = "start"
  /\ pc[p] \in Holding \cup {"mkdir", "held", "probe", "takeover", "again", "owner"} => kind[p] # "start"
  /\ pc[p] \in {"child", "after"} => kind[p] \in Launchers
  /\ pc[p] = "child" => kind[p] = "agent"

Typed ==
  /\ log \in Seq(Trees) /\ log # <<>>
  /\ index \in Trees /\ work \in Trees
  /\ kind \in [Procs -> Kinds]
  /\ seen \in [Procs -> SUBSET Procs]
  /\ before \in [Procs -> Seq(Trees)]
  /\ moved \subseteq Procs
  /\ \A p \in Procs : pc[p] \in Working \cup Started => before[p] # <<>>

(* The tree on which the writer began.                                     *)
Base(p) == Last(before[p])

(* Backlog as the writer has it: its own and the entries it found, or a    *)
(* task-start has written there, whatever it had read.                     *)
FromBacklog(p, entries) ==
  \/ entries \cap Starters # {}
  \/ Base(p)["backlog"] \subseteq entries /\ entries \subseteq Base(p)["backlog"] \cup {p}

(* A tree that the writer began on, with its own edits.                    *)
FromBase(p, tree) ==
  /\ \A f \in Files \ {"backlog"} : Base(p)[f] \subseteq tree[f]
  /\ tree["wiki"] \subseteq Base(p)["wiki"] \cup {p}
  /\ tree["config"] \subseteq Base(p)["config"] \cup {p}
  /\ tree["tasks"] \subseteq Base(p)["tasks"] \cup {p} \cup Starters
  /\ kind[p] # "worktree" => FromBacklog(p, tree["backlog"])

(* Only create-task and agents write below tasks.                          *)
NoTask(p) == kind[p] \notin {"create", "agent"} /\ p \in work["tasks"] => p \in Base(p)["tasks"]

(* The tree with edits of the writer's only, and with all that was there.  *)
Grown(p, tree) ==
  \A f \in Files : Base(p)[f] \subseteq tree[f] /\ tree[f] \subseteq Base(p)[f] \cup {p}

(* The tree as it was, outside the scope of the writer.                    *)
Within(p, tree) == \A f \in Files \ Scope[kind[p]] : tree[f] = Base(p)[f]

(* Nothing but a launcher's commit has been added to main.                 *)
OneCommit(p) ==
  \/ log = before[p]
  \/ /\ kind[p] \in Launchers /\ pc[p] \in {"child", "after", "undo"}
     /\ \E tree \in Trees : log = Append(before[p], tree) /\ Grown(p, tree) /\ Within(p, tree)

(* The worktree and the index, and outside its scope the index is as it    *)
(* was.                                                                    *)
Edited(p) ==
  FromBase(p, work) /\ FromBase(p, index) /\ NoTask(p) /\ Within(p, index)

Writes(p) ==
  pc[p] \in Working =>
    /\ OneCommit(p)
    /\ Edited(p)
    /\ kind[p] = "create" /\ pc[p] = "write" => FromBacklog(p, seen[p])

(* What task-start scaffolds is never staged.                              *)
NothingStaged == HeadTree["tasks"] \cap Starters = {} /\ index["tasks"] \cap Starters = {}

(* Without worktrees only its own commit brings a process's edit to main.  *)
Private(p) ==
  \A f \in Files :
    /\ p \in HeadTree[f] =>
         \/ pc[p] \in {"release", "done", "killed"}
         \/ kind[p] \in Launchers /\ pc[p] \in {"child", "after", "undo"}
    /\ pc[p] \in Working => p \notin Base(p)[f]
Alone(p) == \A other \in Procs \ {p} : kind[other] # "worktree"

(* Places of a process that has no worktree and no branch.                 *)
Unmoved == {"new", "mkdir", "held", "probe", "takeover", "again", "owner", "check", "drop",
            "enter", "unlock", "refused", "failed", "compare", "head", "read", "scaffold",
            "entry", "allocate", "remove", "restore", "rewrite"}

PlacedAll == \A p \in Procs : Placed(p) /\ (p \in moved => pc[p] \notin Unmoved)

WriterInv ==
  /\ Typed
  /\ PlacedAll
  /\ Intact =>
       /\ NothingStaged
       /\ \A p \in Procs : Writes(p) /\ (Alone(p) => Private(p))

(* Places of a task-start that has scaffolded.                             *)
Scaffolded == Started \ {"read", "scaffold"}

(* Who has left the repository dirty, or will clean it.                    *)
Dirties(p) ==
  \/ pc[p] \in {"write", "child", "add", "commit", "after", "undo", "killed"} \cup Scaffolded
  \/ pc[p] = "unlock" /\ kind[p] \in {"create", "wiki"}
  \/ LeavesDirt(p)

(* worktree touches nothing but the backlog.                               *)
Tidy(p) ==
  (kind[p] = "worktree" /\ pc[p] \in Working) =>
    \/ \E q \in Procs \ {p} : Dirties(q)
    \/ \A f \in Files \ {"backlog"} : work[f] = HeadTree[f] /\ index[f] = HeadTree[f]

LeftLock ==
  \/ lock \in {Free, Dead}
  \/ lock = Unwritten /\ \E p \in Procs : pc[p] \in {"owner", "killed"}
  \/ lock \in Procs /\ pc[lock] \in Holding \cup {"killed"}

SettleInv ==
  Intact =>
    /\ LeftLock
    /\ Clean \/ \E p \in Procs : Dirties(p)
    /\ \A p \in Procs : Tidy(p)

-----------------------------------------------------------------------------
(* Types.                                                                  *)

LEMMA LastTree ==
  ASSUME NEW trees \in Seq(Trees), trees # <<>>
  PROVE  Last(trees) \in Trees
<1>1. Len(trees) \in 1..Len(trees) /\ DOMAIN trees = 1..Len(trees)
  BY EmptySeq DEF Trees
<1>2. QED
  BY <1>1, ElementOfSeq DEF Last

LEMMA LastAppended ==
  ASSUME NEW trees \in Seq(Trees), NEW tree \in Trees
  PROVE  /\ Append(trees, tree) \in Seq(Trees) /\ Append(trees, tree) # <<>>
         /\ Last(Append(trees, tree)) = tree
         /\ Append(trees, tree) # trees
<1>1. /\ Append(trees, tree) \in Seq(Trees)
      /\ Len(Append(trees, tree)) = Len(trees) + 1
      /\ Append(trees, tree)[Len(trees) + 1] = tree
  BY AppendProperties
<1>2. Len(trees) \in Nat
  BY LenProperties
<1>3. Len(<<>>) = 0
  OBVIOUS
<1>4. QED
  BY <1>1, <1>2, <1>3 DEF Last

LEMMA EditedTree ==
  ASSUME NEW tree \in Trees, NEW other \in Trees, NEW files, NEW p \in Procs
  PROVE  With(tree, files, p) \in Trees /\ Take(tree, files, other) \in Trees
BY DEF With, Take, Trees

LEMMA EmptyTree == Empty \in Trees /\ Remote \in Seq(Trees) /\ Remote # <<>> /\ Last(Remote) = Empty
<1>1. Empty \in Trees
  BY DEF Empty, Trees
<1>2. Remote \in Seq(Trees) /\ Len(Remote) = 1 /\ Remote[1] = Empty /\ Len(<<>>) = 0
  BY <1>1 DEF Remote
<1>3. Remote # <<>>
  BY <1>2
<1>4. Last(Remote) = Empty
  BY <1>2 DEF Last
<1>5. QED
  BY <1>1, <1>2, <1>3, <1>4

(* A process goes from one place to another, and leaves the memory of the  *)
(* others alone.                                                           *)
LEMMA TypedMove ==
  ASSUME Typed, NEW p \in Procs, DOMAIN pc = Procs,
         log' \in Seq(Trees), log' # <<>>, index' \in Trees, work' \in Trees,
         kind' = kind,
         seen' = seen \/ \E entries \in SUBSET Procs : seen' = [seen EXCEPT ![p] = entries],
         before' = before \/ before' = [before EXCEPT ![p] = log],
         moved' \subseteq Procs,
         \E to : pc' = [pc EXCEPT ![p] = to],
         pc'[p] \in Working \cup Started => before'[p] # <<>>
  PROVE  Typed'
<1>1. seen' \in [Procs -> SUBSET Procs]
  BY DEF Typed
<1>2. before' \in [Procs -> Seq(Trees)]
  BY DEF Typed
<1>3. ASSUME NEW q \in Procs, pc'[q] \in Working \cup Started PROVE before'[q] # <<>>
  <2>1. CASE q = p
    BY <2>1, <1>3
  <2>2. CASE q # p
    <3>1. before'[q] = before[q] /\ pc'[q] = pc[q]
      BY <2>2 DEF Typed
    <3>2. QED
      BY <3>1, <1>3 DEF Typed
  <2>3. QED
    BY <2>1, <2>2
<1>4. QED
  BY <1>1, <1>2, <1>3 DEF Typed

LEMMA TypedLocking ==
  ASSUME Typed, NEW p \in Procs, DOMAIN pc = Procs, Locking(p) \/ Kill(p)
  PROVE  Typed'
<1> USE DEF At, Goto, repository, private
<1>1. UNCHANGED <<log, index, work, kind, moved>>
  BY DEF Locking, Begin, Mkdir, ReadOwner, Probe, RemoveLock, MkdirAgain, WriteOwner, Check, Release,
     Kill
<1>2. log' \in Seq(Trees) /\ log' # <<>> /\ index' \in Trees /\ work' \in Trees /\ moved' \subseteq Procs
  BY <1>1 DEF Typed
<1>3. work["backlog"] \in SUBSET Procs
  BY DEF Typed, Trees, Files
<1>4. CASE Begin(p)
  <2>1. seen' = seen \/ \E entries \in SUBSET Procs : seen' = [seen EXCEPT ![p] = entries]
    BY <1>3, <1>4 DEF Begin
  <2>2. before' = before /\ pc' = [pc EXCEPT ![p] = "mkdir"] /\ pc'[p] = "mkdir"
    BY <1>4 DEF Begin
  <2>3. QED
    BY <1>1, <1>2, <2>1, <2>2, TypedMove DEF Working, Started, Starts
<1>5. CASE Check(p)
  <2>1. /\ seen' = seen
        /\ \/ before' = [before EXCEPT ![p] = log] /\ pc' = [pc EXCEPT ![p] = "enter"]
           \/ before' = before /\ pc' = [pc EXCEPT ![p] = "drop"]
    BY <1>5 DEF Check
  <2>2. pc'[p] \in Working \cup Started => before'[p] # <<>>
    BY <2>1 DEF Typed, Working, Started, Starts
  <2>3. QED
    BY <1>1, <1>2, <2>1, <2>2, TypedMove
<1>6. CASE ~Begin(p) /\ ~Check(p)
  <2>1. seen' = seen /\ before' = before /\ \E to \in {"owner", "held", "probe", "takeover", "refused", "again",
             "drop", "check", "done", "failed", "killed"} : pc' = [pc EXCEPT ![p] = to]
    BY <1>6 DEF Locking, Mkdir, ReadOwner, Probe, RemoveLock, MkdirAgain, WriteOwner, Release, Kill
  <2>2. pc'[p] \notin Working \cup Started
    BY <2>1 DEF Working, Started, Starts
  <2>3. QED
    BY <1>1, <1>2, <2>1, <2>2, TypedMove
<1>7. QED
  BY <1>4, <1>5, <1>6

(* Every writing step writes trees, and goes on from a place of a writer.  *)
LEMMA WritingTrees ==
  ASSUME Typed, NEW p \in Procs, Writing(p)
  PROVE  /\ log' \in Seq(Trees) /\ log' # <<>> /\ index' \in Trees /\ work' \in Trees
         /\ before' = before /\ kind' = kind /\ moved' \subseteq Procs
<1> USE DEF At, Goto, repository, private, Files
<1>1. /\ log \in Seq(Trees) /\ log # <<>> /\ index \in Trees /\ work \in Trees /\ moved \subseteq Procs
      /\ HeadTree \in Trees /\ seen[p] \in SUBSET Procs /\ before[p] \in Seq(Trees)
  BY LastTree DEF Typed, HeadTree
<1>2. CASE Read(p) \/ ValidateChild(p) \/ CheckScope(p) \/ After(p)
  BY <1>1, <1>2 DEF Read, ValidateChild, CheckScope, After
<1>3. CASE Allocate(p)
  BY <1>1, <1>3 DEF Allocate
<1>4. CASE Create(p)
  <2>1. work' \in Trees
    BY <1>1, <1>4 DEF Create, Trees
  <2>2. QED
    BY <1>1, <1>4, <2>1 DEF Create
<1>5. CASE Record(p)
  <2>1. work' \in Trees
    BY <1>1, <1>5 DEF Record, Trees
  <2>2. QED
    BY <1>1, <1>5, <2>1 DEF Record
<1>6. CASE Child(p)
  <2>1. PICK what \in {"none", "exit", "scope", "stage", "commit"} :
          LET files == IF what = "scope" THEN {"tasks", "wiki"} ELSE {"tasks"}
              staged == With(index, files, p)
          IN  /\ work' = With(work, files, p)
              /\ index' = IF what \in {"stage", "commit"} THEN staged ELSE index
              /\ log' = IF what = "commit" THEN Append(log, staged) ELSE log
    BY <1>6 DEF Child
  <2>2. work' \in Trees /\ index' \in Trees
    BY <1>1, <2>1, EditedTree
  <2>3. log' \in Seq(Trees) /\ log' # <<>>
    <3>1. PICK staged : staged \in Trees /\ log' \in {Append(log, staged), log}
      BY <1>1, <2>1, EditedTree
    <3>2. QED
      BY <1>1, <3>1, LastAppended
  <2>4. QED
    BY <1>1, <1>6, <2>2, <2>3 DEF Child
<1>7. CASE SyncConfig(p) \/ RefreshIndex(p)
  <2>1. work' \in Trees
    BY <1>1, <1>7, EditedTree DEF SyncConfig, SyncAdapter, RefreshIndex
  <2>2. QED
    BY <1>1, <1>7, <2>1 DEF SyncConfig, RefreshIndex
<1>8. CASE Add(p)
  <2>1. PICK tree : tree = Take(index, Scope[kind[p]], work) /\ tree \in Trees
    BY <1>1, EditedTree
  <2>2. index' = [tree EXCEPT !["tasks"] = index["tasks"] \cup (work["tasks"] \cap {p})]
    BY <1>8, <2>1 DEF Add
  <2>3. index["tasks"] \cup (work["tasks"] \cap {p}) \subseteq Procs
    BY <1>1 DEF Trees
  <2>4. index' \in Trees
    BY <2>1, <2>2, <2>3 DEF Trees
  <2>5. QED
    BY <1>1, <1>8, <2>4 DEF Add
<1>9. CASE Commit(p)
  <2>1. log' \in {log, Append(log, index)}
    BY <1>9 DEF Commit
  <2>2. log' \in Seq(Trees) /\ log' # <<>>
    BY <1>1, <2>1, LastAppended
  <2>3. QED
    BY <1>1, <1>9, <2>2 DEF Commit
<1>10. CASE Undo(p)
  <2>1. pc[p] = "undo" /\ before' = before /\ kind' = kind /\ moved' \subseteq moved
    BY <1>10 DEF Undo
  <2>2. before[p] # <<>>
    BY <2>1 DEF Typed, Working
  <2>3. Last(before[p]) \in Trees
    BY <1>1, <2>2, LastTree
  <2>4. CASE UndoLaunch(p)
    BY <1>1, <2>1, <2>2, <2>3, <2>4 DEF UndoLaunch, ResetHard
  <2>5. CASE UndoCreate(p)
    <3>1. [work EXCEPT !["tasks"] = @ \ {p}] \in Trees
      BY <1>1 DEF Trees
    <3>2. \A tree \in Trees : RestoreBacklog(tree) \in Trees
      BY <1>1 DEF RestoreBacklog, Trees
    <3>3. QED
      BY <1>1, <2>1, <2>5, <3>1, <3>2 DEF UndoCreate
  <2>6. CASE UndoWorktree(p)
    <3>1. \A tree \in Trees : RestoreBacklog(tree) \in Trees
      BY <1>1 DEF RestoreBacklog, Trees
    <3>2. QED
      BY <1>1, <2>1, <2>6, <3>1 DEF UndoWorktree
  <2>7. CASE UndoWiki(p)
    BY <1>1, <2>1, <2>7 DEF UndoWiki
  <2>8. QED
    BY <1>10, <2>4, <2>5, <2>6, <2>7 DEF Undo
<1>11. QED
  BY <1>2, <1>3, <1>4, <1>5, <1>6, <1>7, <1>8, <1>9, <1>10 DEF Writing

LEMMA TypedWriting ==
  ASSUME Typed, NEW p \in Procs, DOMAIN pc = Procs, Writing(p)
  PROVE  Typed'
<1>1. /\ log' \in Seq(Trees) /\ log' # <<>> /\ index' \in Trees /\ work' \in Trees
      /\ before' = before /\ kind' = kind /\ moved' \subseteq Procs
  BY WritingTrees
<1>2. (\E to : pc' = [pc EXCEPT ![p] = to]) /\ pc[p] \in Working
  BY DEF Writing, Read, Create, Allocate, Record, Child, ValidateChild, SyncConfig,
     RefreshIndex, CheckScope, Add, Commit, After, Undo, At, Goto, Working
<1>3. work["backlog"] \in SUBSET Procs
  BY DEF Typed, Trees, Files
<1>4. seen' = seen \/ \E entries \in SUBSET Procs : seen' = [seen EXCEPT ![p] = entries]
  BY <1>3 DEF Writing, Read, Create, Allocate, Record, Child, ValidateChild, SyncConfig,
     RefreshIndex, CheckScope, Add, Commit, After, Undo, private
<1>5. before'[p] # <<>>
  BY <1>1, <1>2 DEF Typed
<1>6. QED
  BY <1>1, <1>2, <1>4, <1>5, TypedMove

(* What a task-start writes and resets.                                    *)
LEMMA StartingTrees ==
  ASSUME Typed, NEW p \in Procs, Starting(p)
  PROVE  log' \in Seq(Trees) /\ log' # <<>> /\ index' \in Trees /\ work' \in Trees /\ moved' \subseteq Procs
<1> USE DEF At, repository, private
<1>1. /\ log \in Seq(Trees) /\ log # <<>> /\ index \in Trees /\ work \in Trees /\ moved \subseteq Procs
      /\ seen[p] \in SUBSET Procs /\ before[p] \in Seq(Trees)
  BY DEF Typed
<1>2. \A tree \in Trees : \A entries \in SUBSET Procs :
        [tree EXCEPT !["tasks"] = entries] \in Trees /\ [tree EXCEPT !["backlog"] = entries] \in Trees
  BY DEF Trees
<1>3. \A tree \in Trees : tree["tasks"] \in SUBSET Procs
  BY DEF Trees, Files
<1>4. CASE StartStatus(p) \/ StartCompare(p) \/ StartHead(p) \/ StartRead(p) \/ StartRevert(p) \/ StartRestore(p)
  BY <1>1, <1>4 DEF StartStatus, StartCompare, StartHead, StartRead, StartRevert, StartRestore
<1>5. CASE StartAllocate(p)
  BY <1>1, <1>5 DEF StartAllocate, AddWorktree
<1>6. CASE StartScaffold(p) \/ StartRemove(p)
  <2>1. PICK entries \in SUBSET Procs : work' = [work EXCEPT !["tasks"] = entries]
    <3>1. work["tasks"] \cup {p} \in SUBSET Procs /\ work["tasks"] \ {p} \in SUBSET Procs
      BY <1>1, <1>3
    <3>2. \/ work' = [work EXCEPT !["tasks"] = work["tasks"] \cup {p}]
          \/ work' = [work EXCEPT !["tasks"] = work["tasks"] \ {p}]
      BY <1>6 DEF StartScaffold, StartRemove
    <3>3. QED
      BY <3>1, <3>2
  <2>2. QED
    BY <1>1, <1>2, <1>6, <2>1 DEF StartScaffold, StartRemove
<1>7. CASE StartWrite(p) \/ StartRewrite(p)
  <2>1. PICK entries \in SUBSET Procs : work' = [work EXCEPT !["backlog"] = entries]
    <3>1. seen[p] \cup {p} \in SUBSET Procs
      BY <1>1
    <3>2. QED
      BY <1>1, <1>7, <3>1 DEF StartWrite, StartRewrite
  <2>2. QED
    BY <1>1, <1>2, <1>7, <2>1 DEF StartWrite, StartRewrite
<1>8. CASE StartReset(p) \/ StartResetHard(p)
  <2>1. before[p] # <<>> /\ moved' \subseteq Procs /\ log' = before[p]
    BY <1>1, <1>8 DEF StartReset, StartResetHard, Typed, Started, Starts
  <2>2. PICK base \in Trees : base = Last(before[p])
    BY <1>1, <2>1, LastTree
  <2>3. PICK entries \in SUBSET Procs : entries = base["tasks"] \cup (work["tasks"] \ index["tasks"])
    BY <1>1, <1>3
  <2>4. index' = base /\ (work' = work \/ work' = [base EXCEPT !["tasks"] = entries])
    BY <1>8, <2>2, <2>3 DEF StartReset, StartResetHard
  <2>5. work' \in Trees
    BY <1>1, <1>2, <2>4
  <2>6. QED
    BY <1>1, <2>1, <2>4, <2>5
<1>9. QED
  BY <1>4, <1>5, <1>6, <1>7, <1>8 DEF Starting

LEMMA TypedStarting ==
  ASSUME Typed, NEW p \in Procs, DOMAIN pc = Procs, Starting(p)
  PROVE  Typed'
<1> USE DEF At, Goto, private
<1>1. /\ log' \in Seq(Trees) /\ log' # <<>> /\ index' \in Trees /\ work' \in Trees
      /\ moved' \subseteq Procs /\ kind' = kind
  BY StartingTrees, StartingAside
<1>2. work["backlog"] \in SUBSET Procs
  BY DEF Typed, Trees, Files
<1>3. CASE StartStatus(p) \/ StartCompare(p)
  <2>1. seen' = seen /\ before' = before /\ \E to \in {"compare", "head", "refused"} : pc' = [pc EXCEPT ![p] = to]
    BY <1>3 DEF StartStatus, StartCompare
  <2>2. pc'[p] \notin Working \cup Started
    BY <2>1 DEF Working, Started, Starts
  <2>3. QED
    BY <1>1, <2>1, <2>2, TypedMove
<1>4. CASE StartHead(p)
  <2>1. seen' = seen /\ before' = [before EXCEPT ![p] = log] /\ pc' = [pc EXCEPT ![p] = "read"]
    BY <1>4 DEF StartHead
  <2>2. before'[p] # <<>>
    BY <2>1 DEF Typed
  <2>3. QED
    BY <1>1, <2>1, <2>2, TypedMove
<1>5. CASE ~StartStatus(p) /\ ~StartCompare(p) /\ ~StartHead(p)
  <2>1. /\ before' = before /\ pc[p] \in Started /\ \E to : pc' = [pc EXCEPT ![p] = to]
        /\ seen' \in {seen, [seen EXCEPT ![p] = work["backlog"]]}
    BY <1>5 DEF Starting, StartRead, StartScaffold, StartWrite, StartAllocate, StartRevert,
       StartReset, StartResetHard, StartRemove, StartRestore, StartRewrite, Started, Starts
  <2>2. before'[p] # <<>>
    BY <2>1 DEF Typed
  <2>3. QED
    BY <1>1, <1>2, <2>1, <2>2, TypedMove
<1>6. QED
  BY <1>3, <1>4, <1>5

(* A step is a step of one process.                                        *)
Step(p) == Locking(p) \/ Writing(p) \/ Starting(p) \/ Kill(p)

LEMMA StepFrame ==
  ASSUME LockInv, NEW p \in Procs, Step(p)
  PROVE  /\ DOMAIN pc = Procs /\ kind' = kind
         /\ \E to : pc' = [pc EXCEPT ![p] = to]
         /\ \A q \in Procs : q # p => pc'[q] = pc[q]
         /\ broken \subseteq broken'
<1> USE DEF At, Goto, private
<1>1. DOMAIN pc = Procs
  BY DEF LockInv
<1>2. CASE Locking(p) \/ Kill(p)
  BY <1>1, <1>2 DEF Locking, Begin, Mkdir, ReadOwner, Probe, RemoveLock, MkdirAgain, WriteOwner, Check,
     Release, Kill, Break
<1>3. CASE Writing(p)
  BY <1>1, <1>3 DEF Writing, Read, Create, Allocate, Record, Child, ValidateChild, SyncConfig,
     RefreshIndex, CheckScope, Add, Commit, After, Undo
<1>4. CASE Starting(p)
  BY <1>1, <1>4, StartingAside DEF Moves
<1>5. QED
  BY <1>2, <1>3, <1>4 DEF Step

LEMMA IntactBefore ==
  ASSUME LockInv, NEW p \in Procs, Step(p), Intact'
  PROVE  Intact /\ broken' = broken /\ "lock" \notin broken
BY StepFrame DEF Intact

LEMMA StepMemory ==
  ASSUME Typed, NEW p \in Procs, Step(p), NEW q \in Procs, q # p
  PROVE  before'[q] = before[q] /\ seen'[q] = seen[q] /\ (q \in moved' => q \in moved)
<1> USE DEF At, private, Typed
<1>1. CASE Locking(p) \/ Kill(p)
  BY <1>1 DEF Locking, Begin, Mkdir, ReadOwner, Probe, RemoveLock, MkdirAgain, WriteOwner, Check,
     Release, Kill
<1>2. CASE Writing(p)
  BY <1>2 DEF Writing, Read, Create, Allocate, Record, Child, ValidateChild, SyncConfig,
     RefreshIndex, CheckScope, Add, Commit, After, Undo
<1>3. CASE Starting(p)
  BY <1>3 DEF Starting, StartStatus, StartCompare, StartHead, StartRead, StartScaffold,
     StartWrite, StartAllocate, AddWorktree, StartRevert, StartReset, StartResetHard,
     StartRemove, StartRestore, StartRewrite
<1>4. QED
  BY <1>1, <1>2, <1>3 DEF Step

(* The steps around the lock, and a kill, leave the repository alone.      *)
LEMMA LockingAside ==
  ASSUME NEW p \in Procs, Locking(p) \/ Kill(p)
  PROVE  UNCHANGED <<repository, kind, moved>>
BY DEF Locking, Begin, Mkdir, ReadOwner, Probe, RemoveLock, MkdirAgain, WriteOwner, Check, Release,
   Kill, private

LEMMA PlacedStep ==
  ASSUME LockInv, Typed, PlacedAll, Next
  PROVE  PlacedAll'
<1> USE DEF At, Goto, private, Placed, Holding, Launchers, Starts, Unmoved
<1>1. PICK p \in Procs : Step(p)
  BY DEF Next, Step
<1>2. DOMAIN pc = Procs /\ kind' = kind /\ \E to : pc' = [pc EXCEPT ![p] = to]
  BY <1>1, StepFrame
<1>3. \A q \in Procs \ {p} : pc'[q] = pc[q] /\ (q \in moved' => q \in moved)
  BY <1>1, StepFrame, StepMemory
<1>4. Placed(p) /\ (p \in moved => pc[p] \notin Unmoved)
  BY DEF PlacedAll
<1>5. Placed(p)' /\ (p \in moved' => pc'[p] \notin Unmoved)
  <2>1. CASE Locking(p) \/ Kill(p)
    BY <2>1, <1>2, <1>4 DEF Locking, Begin, Mkdir, ReadOwner, Probe, RemoveLock, MkdirAgain,
       WriteOwner, Check, Release, Kill, Ended
  <2>2. CASE Read(p) \/ Create(p) \/ Allocate(p) \/ Record(p) \/ Child(p) \/ ValidateChild(p)
    BY <2>2, <1>2, <1>4 DEF Read, Create, Allocate, Record, Child, ValidateChild
  <2>3. CASE SyncConfig(p) \/ RefreshIndex(p) \/ CheckScope(p) \/ Add(p) \/ Commit(p) \/ After(p) \/ Undo(p)
    BY <2>3, <1>2, <1>4 DEF SyncConfig, RefreshIndex, CheckScope, Add, Commit, After, Undo
  <2>4. CASE Starting(p)
    BY <2>4, <1>2, <1>4 DEF Starting, StartStatus, StartCompare, StartHead, StartRead,
       StartScaffold, StartWrite, StartAllocate, AddWorktree, StartRevert, StartReset,
       StartResetHard, StartRemove, StartRestore, StartRewrite
  <2>5. QED
    BY <1>1, <2>1, <2>2, <2>3, <2>4 DEF Step, Writing
<1>6. QED
  BY <1>2, <1>3, <1>4, <1>5 DEF PlacedAll

-----------------------------------------------------------------------------
(* The writer's worktree and index.                                        *)

LEMMA OneHolder ==
  ASSUME LockInv, "lock" \notin broken, NEW p \in Procs, NEW q \in Procs, pc[p] \in Holding, pc[q] \in Holding
  PROVE  p = q
BY DEF LockInv, OwnersInv, Owns

LEMMA WorkingHolds == Working \subseteq Holding
BY DEF Working, Holding

LEMMA ScopesAreFiles == \A k \in Kinds : Scope[k] \subseteq Files
BY DEF Kinds, Scope, Files

(* Nothing that Writes speaks of has changed.                              *)
LEMMA WritesStay ==
  ASSUME NEW p \in Procs, Writes(p), UNCHANGED <<repository, kind>>,
         pc'[p] = pc[p], before'[p] = before[p], seen'[p] = seen[p]
  PROVE  Writes(p)'
<1>1. UNCHANGED <<log, index, work>> /\ Base(p)' = Base(p) /\ Starters' = Starters
  BY DEF repository, Base, Starters
<1>2. OneCommit(p) => OneCommit(p)'
  BY <1>1 DEF OneCommit, Grown, Within
<1>3. Edited(p) => Edited(p)'
  BY <1>1 DEF Edited, FromBase, FromBacklog, NoTask, Within
<1>4. FromBacklog(p, seen[p]) => FromBacklog(p, seen[p])'
  BY <1>1 DEF FromBacklog
<1>5. QED
  BY <1>1, <1>2, <1>3, <1>4 DEF Writes

(* Somebody else has changed the worktree or the index only.               *)
LEMMA WritesKept ==
  ASSUME NEW p \in Procs, Writes(p), UNCHANGED <<log, kind>>,
         pc'[p] = pc[p], before'[p] = before[p], seen'[p] = seen[p],
         pc[p] \in Working => Edited(p)'
  PROVE  Writes(p)'
<1>1. Base(p)' = Base(p) /\ Starters' = Starters
  BY DEF Base, Starters
<1>2. OneCommit(p) => OneCommit(p)'
  BY <1>1 DEF OneCommit, Grown, Within
<1>3. FromBacklog(p, seen[p]) => FromBacklog(p, seen[p])'
  BY <1>1 DEF FromBacklog
<1>4. QED
  BY <1>1, <1>2, <1>3 DEF Writes

(* The check of acquireWorkRepoLock: worktree and index are the head.      *)
LEMMA CheckBegins ==
  ASSUME Typed, NEW p \in Procs, DOMAIN pc = Procs, Check(p)
  PROVE  Writes(p)'
<1>1. CASE ~Clean
  <2>1. pc'[p] = "drop"
    BY <1>1 DEF Check, Goto
  <2>2. QED
    BY <2>1 DEF Writes, Working
<1>2. CASE Clean
  <2>1. /\ before' = [before EXCEPT ![p] = log] /\ pc'[p] = "enter"
        /\ UNCHANGED <<log, index, work, kind>>
    BY <1>2 DEF Check, Goto, repository
  <2>2. before'[p] = log'
    BY <2>1 DEF Typed
  <2>3. Base(p)' = HeadTree /\ work' = HeadTree /\ index' = HeadTree
    BY <1>2, <2>1, <2>2 DEF Base, HeadTree, Clean
  <2>4. Edited(p)'
    BY <2>3 DEF Edited, FromBase, FromBacklog, NoTask, Within
  <2>5. OneCommit(p)'
    BY <2>2 DEF OneCommit, Grown, Within
  <2>6. QED
    BY <2>1, <2>4, <2>5 DEF Writes
<1>3. QED
  BY <1>1, <1>2

(* The other steps around the lock leave the repository alone.             *)
LEMMA LockingKeepsWrites ==
  ASSUME Typed, DOMAIN pc = Procs, NEW p \in Procs, Locking(p) \/ Kill(p),
         NEW q \in Procs, Writes(q)
  PROVE  Writes(q)'
<1> USE DEF At, Goto, private
<1>1. UNCHANGED <<repository, kind>>
  BY DEF Locking, Begin, Mkdir, ReadOwner, Probe, RemoveLock, MkdirAgain, WriteOwner, Check, Release,
     Kill
<1>2. CASE q = p /\ ~Check(p)
  <2>1. pc'[p] \notin Working
    BY <1>2 DEF Locking, Begin, Mkdir, ReadOwner, Probe, RemoveLock, MkdirAgain, WriteOwner, Release,
       Kill, Working
  <2>2. QED
    BY <1>2, <2>1 DEF Writes
<1>3. CASE q # p
  <2>1. pc'[q] = pc[q] /\ before'[q] = before[q] /\ seen'[q] = seen[q]
    BY <1>3 DEF Typed, Locking, Begin, Mkdir, ReadOwner, Probe, RemoveLock, MkdirAgain, WriteOwner,
       Check, Release, Kill
  <2>2. QED
    BY <1>1, <2>1, WritesStay
<1>4. QED
  BY <1>2, <1>3, CheckBegins

(* Main is the tree in which the writer began, or has its own commit, too. *)
LEMMA HeadOfWriter ==
  ASSUME Typed, NEW p \in Procs, Writes(p), pc[p] \in Working
  PROVE  HeadTree \in Trees /\ Grown(p, HeadTree) /\ Within(p, HeadTree)
<1>1. HeadTree \in Trees
  BY LastTree DEF Typed, HeadTree
<1>2. CASE log = before[p]
  BY <1>1, <1>2 DEF HeadTree, Base, Grown, Within
<1>3. CASE log # before[p]
  <2>1. PICK tree \in Trees : log = Append(before[p], tree) /\ Grown(p, tree) /\ Within(p, tree)
    BY <1>3 DEF Writes, OneCommit
  <2>2. HeadTree = tree
    BY <2>1, LastAppended DEF HeadTree, Typed
  <2>3. QED
    BY <1>1, <2>1, <2>2
<1>4. QED
  BY <1>2, <1>3

(* So the writer may find the whole of it below its feet.                  *)
LEMMA HeadFromBase ==
  ASSUME Typed, NEW p \in Procs, Writes(p), pc[p] \in Working
  PROVE  FromBase(p, HeadTree) /\ FromBacklog(p, HeadTree["backlog"])
BY HeadOfWriter DEF Grown, FromBase, FromBacklog, Files

(* What task-start scaffolds below a writer's feet, writes there, and      *)
(* takes back.                                                             *)
LEMMA ScaffoldKeepsWrites ==
  ASSUME Typed, NEW s \in Starters, NothingStaged,
         StartScaffold(s) \/ StartWrite(s) \/ StartRemove(s) \/ (StartRewrite(s) /\ Intact'),
         NEW p \in Procs, p # s, Writes(p), pc'[p] = pc[p]
  PROVE  Writes(p)'
<1>1. before' = before /\ seen' = seen /\ kind' = kind /\ log' = log /\ index' = index
  BY DEF StartScaffold, StartWrite, StartRemove, StartRewrite, private
<1>2. work \in Trees /\ s \in Procs
  BY DEF Typed, Starters
<1>3. Base(p)' = Base(p) /\ Starters' = Starters
  BY <1>1 DEF Base, Starters
<1>4. SUFFICES ASSUME pc[p] \in Working PROVE Edited(p)'
  BY <1>1, WritesKept
<1>5. FromBase(p, work) /\ FromBase(p, index) /\ NoTask(p) /\ Within(p, index)
  BY <1>4 DEF Writes, Edited
<1>6. PICK new : new = work'
  OBVIOUS
<1>7. /\ new["wiki"] = work["wiki"] /\ new["config"] = work["config"]
      /\ new["tasks"] \in {work["tasks"], work["tasks"] \cup {s}, work["tasks"] \ {s}}
  BY <1>2, <1>6 DEF StartScaffold, StartWrite, StartRemove, StartRewrite, Trees, Files
<1>8. s \notin Base(p)["tasks"]
  BY <1>4, HeadOfWriter DEF NothingStaged, Grown, Files
<1>9. new["backlog"] = work["backlog"] \/ FromBacklog(p, new["backlog"])
  <2>1. CASE StartScaffold(s) \/ StartRemove(s)
    BY <2>1, <1>2, <1>6 DEF StartScaffold, StartRemove, Trees, Files
  <2>2. CASE StartWrite(s)
    <3>1. s \in new["backlog"]
      BY <2>2, <1>2, <1>6 DEF StartWrite, Trees, Files
    <3>2. QED
      BY <3>1 DEF FromBacklog
  <2>3. CASE StartRewrite(s) /\ Intact'
    <3>1. new["backlog"] = seen[s]
      BY <2>3, <1>2, <1>6 DEF StartRewrite, Trees, Files
    <3>2. seen[s] = HeadTree["backlog"]
      BY <2>3 DEF StartRewrite, Break, Intact
    <3>3. QED
      BY <3>1, <3>2, <1>4, HeadFromBase
  <2>4. QED
    BY <2>1, <2>2, <2>3
<1>10. FromBase(p, new)
  BY <1>5, <1>7, <1>8, <1>9 DEF FromBase, Files
<1>11. FromBase(p, work)' /\ FromBase(p, index)' /\ NoTask(p)' /\ Within(p, index)'
  BY <1>1, <1>3, <1>5, <1>6, <1>7, <1>10 DEF FromBase, FromBacklog, NoTask, Within
<1>12. QED
  BY <1>11 DEF Edited

(* Unless it resets over a commit, task-start leaves main and resets the   *)
(* index to it.                                                            *)
LEMMA ResetToMain ==
  ASSUME Typed, NEW s \in Procs, StartReset(s) \/ StartResetHard(s), Intact'
  PROVE  /\ log' = log /\ index' = HeadTree
         /\ \/ work' = work
            \/ work' = [HeadTree EXCEPT !["tasks"] = HeadTree["tasks"] \cup (work["tasks"] \ index["tasks"])]
<1>1. log = before[s] /\ log' = before[s] /\ index' = Last(before[s])
  BY DEF StartReset, StartResetHard, Break, Intact
<1>2. PICK base : base = Last(before[s]) /\ base = HeadTree
  BY <1>1 DEF HeadTree
<1>3. \/ work' = work
      \/ work' = [base EXCEPT !["tasks"] = base["tasks"] \cup (work["tasks"] \ index["tasks"])]
  BY <1>2 DEF StartReset, StartResetHard
<1>4. QED
  BY <1>1, <1>2, <1>3

LEMMA ResetKeepsWrites ==
  ASSUME Typed, NEW s \in Starters, StartReset(s) \/ StartResetHard(s), Intact',
         NEW p \in Procs, p # s, Writes(p), pc'[p] = pc[p]
  PROVE  Writes(p)'
<1>1. before' = before /\ seen' = seen /\ kind' = kind /\ s \in Procs
  BY DEF StartReset, StartResetHard, Starters
<1>2. PICK base : base = HeadTree
  OBVIOUS
<1>3. /\ log' = log /\ index' = base
      /\ work' = work \/ work' = [base EXCEPT !["tasks"] = base["tasks"] \cup (work["tasks"] \ index["tasks"])]
  BY <1>1, <1>2, ResetToMain
<1>4. Base(p)' = Base(p) /\ Starters' = Starters
  BY <1>1 DEF Base, Starters
<1>5. SUFFICES ASSUME pc[p] \in Working PROVE Edited(p)'
  BY <1>1, <1>3, WritesKept
<1>6. FromBase(p, work) /\ FromBase(p, index) /\ NoTask(p) /\ work \in Trees
  BY <1>5 DEF Writes, Edited, Typed
<1>7. base \in Trees /\ Grown(p, base) /\ Within(p, base) /\ FromBase(p, base)
  BY <1>2, <1>5, HeadOfWriter, HeadFromBase
<1>8. PICK new : new = work'
  OBVIOUS
<1>9. \/ new = work
      \/ /\ \A f \in Files \ {"tasks"} : new[f] = base[f]
         /\ new["tasks"] = base["tasks"] \cup (work["tasks"] \ index["tasks"])
  BY <1>3, <1>7, <1>8 DEF Trees, Files
<1>10. FromBase(p, new)
  <2>1. CASE new = work
    BY <1>6, <2>1
  <2>2. CASE new # work
    BY <1>6, <1>7, <1>9, <2>2 DEF FromBase, Files
  <2>3. QED
    BY <2>1, <2>2
<1>11. kind[p] \notin {"create", "agent"} /\ p \in new["tasks"] => p \in Base(p)["tasks"]
  <2>1. SUFFICES ASSUME kind[p] \notin {"create", "agent"}, p \in new["tasks"] PROVE p \in Base(p)["tasks"]
    OBVIOUS
  <2>2. p \in work["tasks"] => p \in Base(p)["tasks"]
    BY <1>6, <2>1 DEF NoTask
  <2>3. "tasks" \in Files \ Scope[kind[p]]
    BY <2>1 DEF Scope, Kinds, Typed, Files
  <2>4. base["tasks"] = Base(p)["tasks"]
    BY <1>7, <2>3 DEF Within
  <2>5. QED
    BY <1>9, <2>1, <2>2, <2>4
<1>12. FromBase(p, work)' /\ FromBase(p, index)' /\ NoTask(p)' /\ Within(p, index)'
  BY <1>1, <1>3, <1>4, <1>7, <1>8, <1>10, <1>11 DEF FromBase, FromBacklog, NoTask, Within
<1>13. QED
  BY <1>12 DEF Edited

LEMMA StartingKeepsWrites ==
  ASSUME LockInv, Typed, NothingStaged, NEW s \in Procs, Placed(s), Starting(s), Intact',
         NEW p \in Procs, Writes(p)
  PROVE  Writes(p)'
<1> USE DEF At, private
<1>1. s \in Starters /\ pc'[s] \notin Working
  BY StartingAside DEF Starters, Placed, Starts, Working, Moves, LockInv
<1>2. CASE p = s
  BY <1>1, <1>2 DEF Writes
<1>3. CASE p # s
  <2>1. pc'[p] = pc[p] /\ before'[p] = before[p] /\ seen'[p] = seen[p] /\ kind' = kind
    BY <1>3, StepFrame, StepMemory DEF Step
  <2>2. CASE UNCHANGED repository
    BY <2>1, <2>2, WritesStay
  <2>3. \/ UNCHANGED repository
        \/ StartScaffold(s) \/ StartWrite(s) \/ StartRemove(s) \/ StartRewrite(s)
        \/ StartReset(s) \/ StartResetHard(s)
    BY DEF Starting, StartStatus, StartCompare, StartHead, StartRead, StartAllocate, StartRevert,
       StartRestore
  <2>4. QED
    BY <1>1, <1>3, <2>1, <2>2, <2>3, ScaffoldKeepsWrites, ResetKeepsWrites
<1>4. QED
  BY <1>2, <1>3

-----------------------------------------------------------------------------
(* The writer's own steps.                                                 *)

(* Edits of the writer's own, outside the backlog.                         *)
LEMMA EditedFromBase ==
  ASSUME NEW p \in Procs, NEW tree \in Trees, FromBase(p, tree),
         NEW files, files \subseteq {"tasks", "wiki", "config"}
  PROVE  FromBase(p, With(tree, files, p))
<1>1. PICK new : new = With(tree, files, p)
  OBVIOUS
<1>2. \A f \in Files : new[f] = IF f \in files THEN tree[f] \cup {p} ELSE tree[f]
  BY <1>1 DEF With
<1>3. new["backlog"] = tree["backlog"]
  BY <1>2 DEF Files
<1>4. FromBase(p, new)
  BY <1>2, <1>3 DEF FromBase, FromBacklog, Files
<1>5. QED
  BY <1>1, <1>4

(* The writer goes on, and main is as it was.                              *)
LEMMA WritesMove ==
  ASSUME NEW p \in Procs, Writes(p), pc[p] \in Working, UNCHANGED <<log, kind, before>>,
         pc'[p] \in {"child", "after", "undo"} \/ log = before[p] \/ pc'[p] \notin Working,
         pc'[p] \in Working => Edited(p)',
         kind[p] = "create" /\ pc'[p] = "write" => FromBacklog(p, seen'[p])
  PROVE  Writes(p)'
<1>1. Base(p)' = Base(p) /\ Starters' = Starters
  BY DEF Base, Starters
<1>2. OneCommit(p)
  BY DEF Writes
<1>3. pc'[p] \in Working => OneCommit(p)'
  BY <1>1, <1>2 DEF OneCommit, Grown, Within
<1>4. FromBacklog(p, seen'[p]) => FromBacklog(p, seen[p])'
  BY <1>1 DEF FromBacklog
<1>5. QED
  BY <1>1, <1>3, <1>4 DEF Writes

LEMMA EditedStays ==
  ASSUME NEW p \in Procs, Edited(p), UNCHANGED <<index, work, kind, before>>
  PROVE  Edited(p)'
<1>1. Base(p)' = Base(p) /\ Starters' = Starters
  BY DEF Base, Starters
<1>2. QED
  BY <1>1 DEF Edited, FromBase, FromBacklog, NoTask, Within

(* Steps that only look, or allocate a worktree.                           *)
LEMMA LookingKeepsWrites ==
  ASSUME Typed, DOMAIN pc = Procs, NEW p \in Procs, Writes(p),
         Read(p) \/ Allocate(p) \/ ValidateChild(p) \/ CheckScope(p) \/ After(p)
  PROVE  Writes(p)'
<1> USE DEF At, Goto, private, repository
<1>1. pc[p] \in Working /\ UNCHANGED <<log, index, work, kind, before>>
  BY DEF Read, Allocate, ValidateChild, CheckScope, After, Working
<1>2. Edited(p)' /\ Edited(p)
  BY <1>1, EditedStays DEF Writes
<1>3. CASE Read(p)
  <2>1. kind[p] = "create" /\ seen'[p] \in {seen[p], work["backlog"]} /\ pc[p] = "enter"
        /\ pc'[p] = "write" /\ kind[p] \notin ReadsEarly
    BY <1>3 DEF Read, Typed, ReadsEarly
  <2>2. seen'[p] = work["backlog"]
    BY <1>3, <2>1 DEF Read, Typed
  <2>3. FromBacklog(p, seen'[p]) /\ log = before[p]
    BY <1>1, <1>2, <2>1, <2>2 DEF Edited, FromBase, Writes, OneCommit
  <2>4. QED
    BY <1>1, <1>2, <2>3, WritesMove
<1>4. CASE Allocate(p)
  <2>1. kind[p] = "worktree" /\ pc[p] = "enter"
    BY <1>4 DEF Allocate
  <2>2. log = before[p]
    BY <1>1, <2>1 DEF Writes, OneCommit
  <2>3. QED
    BY <1>1, <1>2, <2>1, <2>2, WritesMove
<1>5. CASE ValidateChild(p)
  <2>1. pc'[p] = "undo" \/ (pc'[p] = "add" /\ log = before[p])
    BY <1>5 DEF ValidateChild, ChildOutcome
  <2>2. QED
    BY <1>1, <1>2, <2>1, WritesMove
<1>6. CASE CheckScope(p)
  <2>1. pc[p] = "write" /\ pc'[p] \in {"add", "undo"}
    BY <1>6 DEF CheckScope
  <2>2. log = before[p]
    BY <1>1, <2>1 DEF Writes, OneCommit
  <2>3. QED
    BY <1>1, <1>2, <2>1, <2>2, WritesMove
<1>7. CASE After(p)
  <2>1. pc'[p] \in {"release", "undo"}
    BY <1>7 DEF After
  <2>2. QED
    BY <1>1, <1>2, <2>1, WritesMove DEF Working
<1>8. QED
  BY <1>3, <1>4, <1>5, <1>6, <1>7

(* The new Task, with the backlog that was read before.                    *)
LEMMA CreateKeepsWrites ==
  ASSUME Typed, DOMAIN pc = Procs, NEW p \in Procs, Writes(p), Create(p)
  PROVE  Writes(p)'
<1>1. /\ pc[p] = "write" /\ kind[p] = "create" /\ pc'[p] = "add" /\ pc[p] \in Working
      /\ UNCHANGED <<log, index, kind, before>>
  BY DEF Create, At, Goto, private, Working
<1>2. work \in Trees
  BY DEF Typed
<1>3. /\ work'["backlog"] = seen[p] \cup {p} /\ work'["tasks"] = work["tasks"] \cup {p}
      /\ work'["wiki"] = work["wiki"] /\ work'["config"] = work["config"]
  BY <1>2 DEF Create, Trees, Files
<1>4. log = before[p] /\ Edited(p) /\ FromBacklog(p, seen[p])
  BY <1>1 DEF Writes, OneCommit
<1>5. Base(p)' = Base(p) /\ Starters' = Starters
  BY <1>1 DEF Base, Starters
<1>6. FromBase(p, work)'
  BY <1>1, <1>3, <1>4, <1>5 DEF Edited, FromBase, FromBacklog, Files
<1>7. FromBase(p, index)'
  BY <1>1, <1>4, <1>5 DEF Edited, FromBase, FromBacklog
<1>8. Edited(p)'
  BY <1>1, <1>4, <1>5, <1>6, <1>7 DEF Edited, NoTask, Within
<1>9. QED
  BY <1>1, <1>4, <1>8, WritesMove

(* The worktree in the backlog that was read before the lock was held.     *)
LEMMA RecordKeepsWrites ==
  ASSUME Typed, DOMAIN pc = Procs, NEW p \in Procs, Writes(p), Record(p)
  PROVE  Writes(p)'
<1>1. /\ pc[p] = "write" /\ kind[p] = "worktree" /\ pc'[p] = "add" /\ pc[p] \in Working
      /\ UNCHANGED <<log, index, kind, before>>
  BY DEF Record, At, Goto, private, Working
<1>2. work \in Trees
  BY DEF Typed
<1>3. \A f \in Files \ {"backlog"} : work'[f] = work[f]
  BY <1>2 DEF Record, Trees, Files
<1>4. log = before[p] /\ Edited(p)
  BY <1>1 DEF Writes, OneCommit
<1>5. Base(p)' = Base(p) /\ Starters' = Starters
  BY <1>1 DEF Base, Starters
<1>6. FromBase(p, work)'
  BY <1>1, <1>3, <1>4, <1>5 DEF Edited, FromBase, Files
<1>7. FromBase(p, index)'
  BY <1>1, <1>4, <1>5 DEF Edited, FromBase, FromBacklog
<1>8. NoTask(p)'
  BY <1>1, <1>3, <1>4, <1>5 DEF Edited, NoTask, Files
<1>9. Edited(p)'
  BY <1>1, <1>4, <1>5, <1>6, <1>7, <1>8 DEF Edited, Within
<1>10. QED
  BY <1>1, <1>4, <1>9, WritesMove

(* The adapter and the Wiki's index.                                       *)
LEMMA RewritingKeepsWrites ==
  ASSUME Typed, DOMAIN pc = Procs, NEW p \in Procs, Writes(p), SyncConfig(p) \/ RefreshIndex(p)
  PROVE  Writes(p)'
<1>1. /\ pc[p] = "enter" /\ kind[p] \in {"config", "wiki"} /\ pc[p] \in Working
      /\ pc'[p] \in {"after", "write", "add", "release"}
      /\ UNCHANGED <<log, index, kind, before>>
  BY DEF SyncConfig, RefreshIndex, At, Goto, private, Working
<1>2. log = before[p] /\ Edited(p) /\ work \in Trees
  BY <1>1 DEF Writes, OneCommit, Typed
<1>3. PICK files : files \subseteq {"wiki", "config"} /\ work' \in {work, With(work, files, p)}
  BY DEF SyncConfig, SyncAdapter, RefreshIndex
<1>4. Base(p)' = Base(p) /\ Starters' = Starters
  BY <1>1 DEF Base, Starters
<1>5. PICK new : new = work'
  OBVIOUS
<1>6. FromBase(p, new) /\ new["tasks"] = work["tasks"]
  <2>1. FromBase(p, With(work, files, p))
    BY <1>2, <1>3, EditedFromBase DEF Edited
  <2>2. With(work, files, p)["tasks"] = work["tasks"]
    BY <1>3 DEF With, Files
  <2>3. QED
    BY <1>2, <1>3, <1>5, <2>1, <2>2 DEF Edited
<1>7. FromBase(p, work)'
  BY <1>1, <1>4, <1>5, <1>6 DEF FromBase, FromBacklog
<1>8. FromBase(p, index)'
  BY <1>1, <1>2, <1>4 DEF Edited, FromBase, FromBacklog
<1>9. NoTask(p)'
  BY <1>1, <1>2, <1>4, <1>5, <1>6 DEF Edited, NoTask
<1>10. Edited(p)'
  BY <1>1, <1>2, <1>4, <1>7, <1>8, <1>9 DEF Edited, Within
<1>11. QED
  BY <1>1, <1>2, <1>10, WritesMove

(* git add takes the scope of the script, and of the Tasks its own only.   *)
LEMMA AddedTree ==
  ASSUME Typed, NEW p \in Procs, Add(p)
  PROVE  /\ \A f \in Files \ {"tasks"} : index'[f] = IF f \in Scope[kind[p]] THEN work[f] ELSE index[f]
         /\ index'["tasks"] = index["tasks"] \cup (work["tasks"] \cap {p})
<1>1. index \in Trees /\ work \in Trees
  BY DEF Typed
<1>2. PICK tree : tree = Take(index, Scope[kind[p]], work)
  OBVIOUS
<1>3. index' = [tree EXCEPT !["tasks"] = index["tasks"] \cup (work["tasks"] \cap {p})]
  BY <1>2 DEF Add
<1>4. DOMAIN tree = Files /\ \A f \in Files : tree[f] = IF f \in Scope[kind[p]] THEN work[f] ELSE index[f]
  BY <1>2 DEF Take
<1>5. QED
  BY <1>3, <1>4 DEF Files

LEMMA AddKeepsWrites ==
  ASSUME Typed, DOMAIN pc = Procs, NEW p \in Procs, Placed(p), Writes(p), Add(p)
  PROVE  Writes(p)'
<1>1. /\ pc[p] = "add" /\ pc'[p] = "commit" /\ pc[p] \in Working
      /\ UNCHANGED <<log, work, kind, before>>
  BY DEF Add, At, Goto, private, Working
<1>2. log = before[p] /\ Edited(p)
  BY <1>1 DEF Writes, OneCommit
<1>3. Base(p)' = Base(p) /\ Starters' = Starters
  BY <1>1 DEF Base, Starters
<1>4. FromBase(p, work) /\ FromBase(p, index) /\ NoTask(p)
  BY <1>2 DEF Edited
<1>5. PICK new : new = index'
  OBVIOUS
<1>6. /\ \A f \in Files \ {"tasks"} : new[f] = IF f \in Scope[kind[p]] THEN work[f] ELSE index[f]
      /\ new["tasks"] = index["tasks"] \cup (work["tasks"] \cap {p})
  BY <1>5, AddedTree
<1>7. FromBase(p, new)
  <2>1. new["wiki"] \in {work["wiki"], index["wiki"]} /\ new["config"] \in {work["config"], index["config"]}
        /\ new["backlog"] \in {work["backlog"], index["backlog"]}
    BY <1>6 DEF Files
  <2>2. \A f \in Files \ {"backlog"} : Base(p)[f] \subseteq new[f]
    BY <1>4, <1>6 DEF FromBase, Files
  <2>3. new["wiki"] \subseteq Base(p)["wiki"] \cup {p} /\ new["config"] \subseteq Base(p)["config"] \cup {p}
    BY <1>4, <2>1 DEF FromBase
  <2>4. new["tasks"] \subseteq Base(p)["tasks"] \cup {p} \cup Starters
    BY <1>4, <1>6 DEF FromBase
  <2>5. kind[p] # "worktree" => FromBacklog(p, new["backlog"])
    BY <1>4, <2>1 DEF FromBase
  <2>6. QED
    BY <2>2, <2>3, <2>4, <2>5 DEF FromBase
<1>8. Within(p, new)
  <2>1. SUFFICES ASSUME NEW f \in Files \ Scope[kind[p]] PROVE new[f] = Base(p)[f]
    BY DEF Within
  <2>2. index[f] = Base(p)[f]
    BY <1>2 DEF Edited, Within
  <2>3. CASE f # "tasks"
    BY <1>6, <2>2, <2>3
  <2>4. CASE f = "tasks"
    <3>1. kind[p] \notin {"create", "agent"}
      BY <2>1, <2>4 DEF Scope, Kinds, Typed
    <3>2. p \in work["tasks"] => p \in Base(p)["tasks"]
      BY <1>4, <3>1 DEF NoTask
    <3>3. QED
      BY <1>6, <2>2, <2>4, <3>2
  <2>5. QED
    BY <2>3, <2>4
<1>9. Edited(p)'
  <2>1. FromBase(p, work)' /\ FromBase(p, index)' /\ NoTask(p)'
    BY <1>1, <1>3, <1>4, <1>5, <1>7 DEF FromBase, FromBacklog, NoTask
  <2>2. QED
    BY <1>1, <1>3, <1>5, <1>8, <2>1 DEF Edited, Within
<1>10. QED
  BY <1>1, <1>2, <1>9, WritesMove

(* An agent that commits, too, adds its own edits to the head only.        *)
LEMMA ChildKeepsWrites ==
  ASSUME Typed, DOMAIN pc = Procs, NEW p \in Procs, NothingStaged, Writes(p), Child(p)
  PROVE  /\ Writes(p)'
         /\ log' = log \/ (log' = Append(log, index') /\ index' \in Trees /\ Grown(p, index'))
         /\ index'["tasks"] \subseteq index["tasks"] \cup {p}
<1>1. /\ pc[p] = "enter" /\ kind[p] = "agent" /\ pc'[p] = "child" /\ pc[p] \in Working
      /\ UNCHANGED <<kind, before>>
  BY DEF Child, At, Goto, private, Working
<1>2. log = before[p] /\ Edited(p) /\ work \in Trees /\ index \in Trees /\ HeadTree = Base(p)
  BY <1>1 DEF Writes, OneCommit, Typed, HeadTree, Base
<1>3. Base(p)' = Base(p) /\ Starters' = Starters
  BY <1>1 DEF Base, Starters
<1>4. FromBase(p, work) /\ FromBase(p, index) /\ NoTask(p)
  BY <1>2 DEF Edited
<1>5. PICK files : /\ files \subseteq {"tasks", "wiki"} /\ work' = With(work, files, p)
                   /\ \/ index' = index /\ log' = log
                      \/ index' = With(index, {"tasks"}, p) /\ log' \in {log, Append(log, index')}
  BY DEF Child
<1>6. PICK new : new = index'
  OBVIOUS
<1>7. PICK tree : tree = work'
  OBVIOUS
<1>8. FromBase(p, new) /\ FromBase(p, tree)
  <2>1. FromBase(p, With(work, files, p)) /\ FromBase(p, With(index, {"tasks"}, p))
    BY <1>2, <1>4, <1>5, EditedFromBase
  <2>2. QED
    BY <1>4, <1>5, <1>6, <1>7, <2>1
<1>9. /\ \A f \in Files \ {"tasks"} : new[f] = index[f]
      /\ new["tasks"] \subseteq index["tasks"] \cup {p}
  BY <1>5, <1>6 DEF With, Files
<1>10. Scope["agent"] = {"tasks"}
  BY DEF Scope, Kinds
<1>11. \A f \in Files \ {"tasks"} : new[f] = Base(p)[f]
  BY <1>1, <1>2, <1>9, <1>10 DEF Edited, Within
<1>12. FromBase(p, work)' /\ FromBase(p, index)' /\ NoTask(p)'
  BY <1>1, <1>3, <1>6, <1>7, <1>8 DEF FromBase, FromBacklog, NoTask
<1>13. Edited(p)'
  BY <1>1, <1>3, <1>6, <1>10, <1>11, <1>12 DEF Edited, Within
<1>14. Grown(p, new)
  <2>1. index["tasks"] \cap Starters = {}
    BY DEF NothingStaged
  <2>2. new["tasks"] \subseteq Base(p)["tasks"] \cup {p}
    BY <1>4, <1>9, <2>1 DEF FromBase
  <2>3. QED
    BY <1>8, <1>11, <2>2 DEF FromBase, Grown, Files
<1>15. index' \in Trees /\ (log' = log \/ log' = Append(before[p], index'))
  BY <1>2, <1>5, EditedTree
<1>16. OneCommit(p)'
  <2>1. (Grown(p, new))' /\ (Within(p, new))'
    BY <1>1, <1>3, <1>10, <1>11, <1>14 DEF Grown, Within
  <2>2. kind'[p] \in Launchers
    BY <1>1 DEF Launchers
  <2>3. \/ log' = before'[p]
        \/ new \in Trees /\ log' = Append(before'[p], new)
    BY <1>1, <1>2, <1>6, <1>15
  <2>4. QED
    BY <1>1, <1>6, <2>1, <2>2, <2>3 DEF OneCommit
<1>17. Writes(p)'
  BY <1>1, <1>13, <1>16 DEF Writes
<1>18. QED
  BY <1>2, <1>5, <1>6, <1>9, <1>14, <1>15, <1>17

(* The hook lets a commit pass that is the index and the worktree, with    *)
(* the backlog valid: so no unstaged scaffold is in it, and what it brings *)
(* is the writer's own.                                                    *)
LEMMA CommitGrows ==
  ASSUME Typed, DOMAIN pc = Procs, NEW p \in Procs, NothingStaged, Writes(p), Commit(p), log' # log,
         kind[p] # "worktree"
  PROVE  Grown(p, index)
<1>1. pc[p] \in Working /\ index = work /\ Validated(index)
  BY DEF Commit, HookAccepts, At, Working
<1>2. FromBase(p, index)
  BY <1>1 DEF Writes, Edited
<1>3. index["tasks"] \cap Starters = {}
  BY DEF NothingStaged
<1>4. index["backlog"] \cap Starters = {}
  BY <1>1, <1>3 DEF Validated, Starters
<1>5. FromBacklog(p, index["backlog"])
  BY <1>2 DEF FromBase
<1>6. index["backlog"] \subseteq Base(p)["backlog"] \cup {p} /\ Base(p)["backlog"] \subseteq index["backlog"]
  BY <1>4, <1>5 DEF FromBacklog
<1>7. QED
  BY <1>2, <1>3, <1>6 DEF FromBase, Grown, Files

LEMMA CommitKeepsWrites ==
  ASSUME Typed, DOMAIN pc = Procs, NEW p \in Procs, NothingStaged, Writes(p), Commit(p)
  PROVE  Writes(p)'
<1>1. /\ pc[p] = "commit" /\ pc[p] \in Working /\ pc'[p] \in {"after", "release", "undo"}
      /\ UNCHANGED <<index, work, kind, before>>
  BY DEF Commit, At, Goto, private, Working
<1>2. log = before[p] /\ Edited(p)' /\ index \in Trees
  BY <1>1, EditedStays DEF Writes, OneCommit, Typed
<1>3. CASE log' = log
  <2>1. kind[p] = "create" => pc'[p] # "write"
    BY <1>1
  <2>2. QED
    BY <1>1, <1>2, <1>3, <2>1, WritesMove
<1>4. CASE log' # log /\ kind[p] \in Launchers
  <2>1. log' = Append(before'[p], index) /\ pc'[p] = "after"
    BY <1>1, <1>2, <1>4 DEF Commit, Goto
  <2>2. Grown(p, index)
    BY <1>4, CommitGrows DEF Launchers
  <2>3. (Grown(p, index))' /\ (Within(p, index))'
    BY <1>1, <1>2, <2>2 DEF Grown, Within, Edited, Base
  <2>4. OneCommit(p)'
    BY <1>1, <1>2, <1>4, <2>1, <2>3 DEF OneCommit
  <2>5. QED
    BY <1>2, <2>1, <2>4 DEF Writes
<1>5. CASE log' # log /\ kind[p] \notin Launchers
  <2>1. pc'[p] = "release"
    BY <1>1, <1>5 DEF Commit, Goto
  <2>2. QED
    BY <2>1 DEF Writes, Working
<1>6. QED
  BY <1>3, <1>4, <1>5

LEMMA WritingKeepsWrites ==
  ASSUME LockInv, Typed, NothingStaged, NEW p \in Procs, Placed(p), Writing(p), Intact,
         NEW q \in Procs, Writes(q)
  PROVE  Writes(q)'
<1>1. DOMAIN pc = Procs /\ pc[p] \in Holding
  BY WritingStaysInside DEF LockInv, Moves
<1>2. CASE q = p
  <2>1. CASE Undo(p)
    <3>1. pc'[p] = "unlock"
      BY <1>1, <2>1 DEF Undo, Goto
    <3>2. QED
      BY <1>2, <3>1 DEF Writes, Working
  <2>2. QED
    BY <1>1, <1>2, <2>1, LookingKeepsWrites, CreateKeepsWrites, RecordKeepsWrites,
       RewritingKeepsWrites, AddKeepsWrites, ChildKeepsWrites, CommitKeepsWrites DEF Writing
<1>3. CASE q # p
  <2>1. pc[q] \notin Working
    BY <1>1, <1>3, OneHolder, WorkingHolds DEF Intact
  <2>2. pc'[q] = pc[q]
    BY <1>1, <1>3, WritingStaysInside, OthersStay
  <2>3. QED
    BY <2>1, <2>2 DEF Writes
<1>4. QED
  BY <1>2, <1>3

-----------------------------------------------------------------------------
(* What is committed and staged, step by step.                             *)

(* A step leaves main, or its process commits its own edit, or takes its   *)
(* own commit back.  A worktree commits what it read.                      *)
LEMMA HeadMoves ==
  ASSUME LockInv, Typed, NothingStaged, Intact', NEW p \in Procs, Step(p),
         Placed(p), Writes(p), HeadTree' # HeadTree
  PROVE  \/ pc[p] = "enter" /\ Child(p) /\ HeadTree' = index' /\ HeadTree = Base(p) /\ Grown(p, HeadTree')
         \/ pc[p] = "commit" /\ Commit(p) /\ HeadTree' = index /\ HeadTree = Base(p) /\ index = work
            /\ Validated(index) /\ (kind[p] # "worktree" => Grown(p, HeadTree'))
         \/ pc[p] = "undo" /\ UndoLaunch(p) /\ HeadTree' = Base(p) /\ Grown(p, HeadTree)
<1> USE DEF At, Goto, private, repository
<1>1. log' # log /\ DOMAIN pc = Procs /\ index \in Trees /\ log \in Seq(Trees)
  BY DEF HeadTree, LockInv, Typed
<1>2. Child(p) \/ Commit(p) \/ Undo(p) \/ StartReset(p) \/ StartResetHard(p)
  BY <1>1 DEF Step, Locking, Begin, Mkdir, ReadOwner, Probe, RemoveLock, MkdirAgain, WriteOwner, Check,
     Release, Kill, Writing, Read, Create, Allocate, Record, ValidateChild, SyncConfig,
     RefreshIndex, CheckScope, Add, After, Starting, StartStatus, StartCompare, StartHead,
     StartRead, StartScaffold, StartWrite, StartAllocate, StartRevert, StartRemove, StartRestore,
     StartRewrite
<1>3. CASE Child(p)
  <2>1. pc[p] = "enter" /\ pc[p] \in Working
    BY <1>3 DEF Child, Working
  <2>2. log = before[p]
    BY <2>1 DEF Writes, OneCommit
  <2>3. log' = Append(log, index') /\ index' \in Trees /\ Grown(p, index')
    BY <1>1, <1>3, ChildKeepsWrites
  <2>4. HeadTree' = index'
    BY <1>1, <2>3, LastAppended DEF HeadTree
  <2>5. HeadTree = Base(p)
    BY <2>2 DEF HeadTree, Base
  <2>6. QED
    BY <1>3, <2>1, <2>3, <2>4, <2>5
<1>4. CASE Commit(p)
  <2>1. pc[p] = "commit" /\ pc[p] \in Working /\ log' = Append(log, index) /\ index = work /\ Validated(index)
    BY <1>1, <1>4 DEF Commit, HookAccepts, Working
  <2>2. log = before[p]
    BY <2>1 DEF Writes, OneCommit
  <2>3. HeadTree' = index
    BY <1>1, <2>1, LastAppended DEF HeadTree
  <2>4. HeadTree = Base(p)
    BY <2>2 DEF HeadTree, Base
  <2>5. kind[p] # "worktree" => Grown(p, HeadTree')
    BY <1>1, <1>4, <2>3, CommitGrows
  <2>6. QED
    BY <1>4, <2>1, <2>3, <2>4, <2>5
<1>5. CASE Undo(p)
  <2>1. pc[p] = "undo" /\ pc[p] \in Working /\ UndoLaunch(p) /\ log' = before[p]
    BY <1>1, <1>5 DEF Undo, UndoLaunch, ResetHard, UndoCreate, UndoWorktree, UndoWiki, Working
  <2>2. before[p] \in Seq(Trees)
    BY DEF Typed
  <2>3. PICK tree \in Trees : log = Append(before[p], tree) /\ Grown(p, tree)
    BY <1>1, <2>1 DEF Writes, OneCommit
  <2>4. HeadTree = tree
    BY <2>2, <2>3, LastAppended DEF HeadTree
  <2>5. HeadTree' = Base(p)
    BY <2>1 DEF HeadTree, Base
  <2>6. QED
    BY <2>1, <2>3, <2>4, <2>5
<1>6. CASE StartReset(p) \/ StartResetHard(p)
  BY <1>1, <1>6, ResetToMain
<1>7. QED
  BY <1>2, <1>3, <1>4, <1>5, <1>6

(* Scaffolds are not staged: git add takes only the writer's own Task, and *)
(* what an agent stages or commits is its own.                             *)
LEMMA StagedStep ==
  ASSUME LockInv, Typed, NothingStaged, Intact', NEW p \in Procs, Step(p),
         Placed(p), Writes(p)
  PROVE  NothingStaged'
<1> USE DEF At, Goto, private, repository
<1>1. kind' = kind /\ Starters' = Starters /\ DOMAIN pc = Procs
  BY StepFrame DEF Starters
<1>2. HeadTree["tasks"] \cap Starters = {} /\ index["tasks"] \cap Starters = {}
  BY DEF NothingStaged
<1>3. Writing(p) => p \notin Starters
  BY DEF Writing, Read, Create, Allocate, Record, Child, ValidateChild, SyncConfig,
     RefreshIndex, CheckScope, Add, Commit, After, Undo, Starters, Placed, Holding
<1>4. index'["tasks"] \cap Starters = {}
  <2>1. CASE index' = index
    BY <2>1, <1>2
  <2>2. CASE index' # index
    <3>1. Child(p) \/ Add(p) \/ Undo(p) \/ StartReset(p) \/ StartResetHard(p)
      BY <2>2 DEF Step, Locking, Begin, Mkdir, ReadOwner, Probe, RemoveLock, MkdirAgain, WriteOwner,
         Check, Release, Kill, Writing, Read, Create, Allocate, Record, ValidateChild,
         SyncConfig, RefreshIndex, CheckScope, Commit, After, Starting, StartStatus,
         StartCompare, StartHead, StartRead, StartScaffold, StartWrite, StartAllocate,
         StartRevert, StartRemove, StartRestore, StartRewrite
    <3>2. CASE Child(p)
      <4>1. index'["tasks"] \subseteq index["tasks"] \cup {p}
        BY <1>1, <3>2, ChildKeepsWrites
      <4>2. QED
        BY <4>1, <1>2, <1>3, <3>2 DEF Writing
    <3>3. CASE Add(p)
      <4>1. index'["tasks"] = index["tasks"] \cup (work["tasks"] \cap {p})
        BY <3>3, AddedTree
      <4>2. QED
        BY <4>1, <1>2, <1>3, <3>3 DEF Writing
    <3>4. CASE Undo(p)
      <4>1. CASE UndoLaunch(p)
        <5>1. index' = Base(p) /\ pc[p] \in Working
          BY <3>4, <4>1 DEF Undo, UndoLaunch, ResetHard, Base, Working
        <5>2. index'["tasks"] \subseteq HeadTree["tasks"]
          <6>1. CASE log = before[p]
            BY <5>1, <6>1 DEF Base, HeadTree
          <6>2. CASE log # before[p]
            <7>1. PICK tree \in Trees : log = Append(before[p], tree) /\ Grown(p, tree)
              BY <5>1, <6>2 DEF Writes, OneCommit
            <7>2. HeadTree = tree
              BY <7>1, LastAppended DEF HeadTree, Typed
            <7>3. QED
              BY <5>1, <7>1, <7>2 DEF Grown, Files
          <6>3. QED
            BY <6>1, <6>2
        <5>3. QED
          BY <1>2, <5>2
      <4>2. CASE UndoCreate(p) \/ UndoWorktree(p)
        <5>1. index' = RestoreBacklog(index) /\ index \in Trees
          BY <4>2 DEF UndoCreate, UndoWorktree, Typed
        <5>2. index'["tasks"] = index["tasks"]
          BY <5>1 DEF RestoreBacklog, Trees, Files
        <5>3. QED
          BY <1>2, <5>2
      <4>3. CASE UndoWiki(p)
        BY <2>2, <4>3 DEF UndoWiki
      <4>4. QED
        BY <3>4, <4>1, <4>2, <4>3 DEF Undo
    <3>5. CASE StartReset(p) \/ StartResetHard(p)
      <4>1. index' = HeadTree
        BY <3>5, ResetToMain
      <4>2. QED
        BY <1>2, <4>1
    <3>6. QED
      BY <3>1, <3>2, <3>3, <3>4, <3>5
  <2>3. QED
    BY <2>1, <2>2
<1>5. HeadTree'["tasks"] \cap Starters = {}
  <2>1. CASE HeadTree' = HeadTree
    BY <1>2, <2>1
  <2>2. CASE HeadTree' # HeadTree
    <3>1. \/ HeadTree' = index' \/ HeadTree' = index
          \/ HeadTree' = Base(p) /\ Grown(p, HeadTree)
      BY <2>2, HeadMoves
    <3>2. QED
      BY <1>2, <1>4, <3>1 DEF Grown, Files
  <2>3. QED
    BY <2>1, <2>2
<1>6. QED
  BY <1>1, <1>4, <1>5 DEF NothingStaged

(* Somebody else brings and takes back its own.                            *)
LEMMA PrivateFromOthers ==
  ASSUME LockInv, Typed, NothingStaged, Intact', NEW p \in Procs, Step(p),
         Placed(p), Writes(p),
         NEW q \in Procs, q # p, kind[p] # "worktree", Private(q)
  PROVE  Private(q)'
<1>1. pc'[q] = pc[q] /\ before'[q] = before[q] /\ kind' = kind
  BY StepFrame, StepMemory
<1>2. Base(q)' = Base(q)
  BY <1>1 DEF Base
<1>3. ASSUME NEW f \in Files, q \in HeadTree'[f] PROVE q \in HeadTree[f]
  <2>1. CASE HeadTree' = HeadTree
    BY <2>1, <1>3
  <2>2. CASE HeadTree' # HeadTree
    <3>1. \/ HeadTree = Base(p) /\ Grown(p, HeadTree')
          \/ HeadTree' = Base(p) /\ Grown(p, HeadTree)
      BY <2>2, HeadMoves
    <3>2. QED
      BY <1>3, <3>1 DEF Grown
  <2>3. QED
    BY <2>1, <2>2
<1>4. QED
  BY <1>1, <1>2, <1>3 DEF Private

(* A process brings its edit with its commit, and only a launcher goes on  *)
(* to validate, and may take it back.                                      *)
LEMMA PrivateOwn ==
  ASSUME LockInv, Typed, NothingStaged, Intact', NEW p \in Procs, Step(p),
         Placed(p), Writes(p), Private(p)
  PROVE  Private(p)'
<1> USE DEF At, Goto, private, repository
<1>1. DOMAIN pc = Procs
  BY DEF LockInv
<1>2. CASE Locking(p) \/ Kill(p)
  <2>1. UNCHANGED <<log, kind>> /\ HeadTree' = HeadTree
    BY <1>2, LockingAside DEF HeadTree
  <2>2. \A f \in Files : p \in HeadTree[f] => pc'[p] \in {"done", "killed"}
    BY <1>1, <1>2 DEF Private, Locking, Begin, Mkdir, ReadOwner, Probe, RemoveLock, MkdirAgain,
       WriteOwner, Check, Release, Kill, Ended
  <2>3. pc'[p] \in Working => Base(p)' = HeadTree
    BY <1>1, <1>2, <2>1 DEF Locking, Begin, Mkdir, ReadOwner, Probe, RemoveLock, MkdirAgain,
       WriteOwner, Check, Release, Kill, Working, Base, Typed, HeadTree
  <2>4. \A f \in Files : pc'[p] \in Working => p \notin Base(p)'[f]
    BY <2>2, <2>3 DEF Working
  <2>5. QED
    BY <2>1, <2>2, <2>4 DEF Private
<1>3. CASE Starting(p)
  <2>1. pc[p] \in Starts \cup {"new"} /\ pc'[p] \notin Working
    BY <1>1, <1>3, StartingAside DEF Moves, Starts, Working
  <2>2. \A f \in Files : p \notin HeadTree[f]
    BY <2>1 DEF Private, Starts
  <2>3. HeadTree' = HeadTree
    BY <2>1, HeadMoves DEF Starts
  <2>4. QED
    BY <2>1, <2>2, <2>3 DEF Private
<1>4. CASE Writing(p)
  <2>1. pc[p] \in Working /\ kind' = kind /\ before' = before
    BY <1>4 DEF Writing, Read, Create, Allocate, Record, Child, ValidateChild, SyncConfig,
       RefreshIndex, CheckScope, Add, Commit, After, Undo, Working
  <2>2. Base(p)' = Base(p) /\ \A f \in Files : p \notin Base(p)[f]
    BY <2>1 DEF Base, Private
  <2>3. SUFFICES ASSUME NEW f \in Files, p \in HeadTree'[f]
                 PROVE  \/ pc'[p] \in {"release", "done", "killed"}
                        \/ kind[p] \in Launchers /\ pc'[p] \in {"child", "after", "undo"}
    BY <2>1, <2>2 DEF Private
  <2>4. CASE Child(p)
    BY <1>1, <2>4 DEF Child, Launchers
  <2>5. CASE Commit(p)
    <3>1. CASE log' = log
      BY <3>1, <2>3, <2>5 DEF Commit, HeadTree, Private
    <3>2. CASE log' # log
      BY <1>1, <3>2, <2>5 DEF Commit
    <3>3. QED
      BY <3>1, <3>2
  <2>6. CASE Undo(p)
    <3>1. CASE UndoLaunch(p)
      <4>1. HeadTree' = Base(p)
        BY <3>1 DEF UndoLaunch, ResetHard, HeadTree, Base
      <4>2. QED
        BY <4>1, <2>2, <2>3
    <3>2. CASE ~UndoLaunch(p)
      <4>1. log' = log /\ kind[p] \notin Launchers /\ pc[p] = "undo"
        BY <3>2, <2>6 DEF Undo, UndoCreate, UndoWorktree, UndoWiki, Launchers
      <4>2. QED
        BY <4>1, <2>3 DEF HeadTree, Private
    <3>3. QED
      BY <3>1, <3>2
  <2>7. CASE ~Child(p) /\ ~Commit(p) /\ ~Undo(p)
    <3>1. HeadTree' = HeadTree
      BY <1>4, <2>7 DEF Writing, Read, Create, Allocate, Record, ValidateChild, SyncConfig,
         RefreshIndex, CheckScope, Add, After, HeadTree
    <3>2. kind[p] \in Launchers /\ pc[p] \in {"child", "after", "undo"}
      BY <2>1, <2>3, <3>1 DEF Private, Working
    <3>3. CASE ValidateChild(p)
      <4>1. ~ChildOutcome(p)
        BY <2>2, <2>3, <3>1 DEF ChildOutcome, HeadTree, Base
      <4>2. QED
        BY <1>1, <3>2, <3>3, <4>1 DEF ValidateChild
    <3>4. CASE After(p)
      BY <1>1, <3>2, <3>4 DEF After
    <3>5. QED
      BY <1>4, <2>7, <3>2, <3>3, <3>4 DEF Writing, Read, Create, Allocate, Record, SyncConfig,
         RefreshIndex, CheckScope, Add
  <2>8. QED
    BY <2>4, <2>5, <2>6, <2>7
<1>5. QED
  BY <1>2, <1>3, <1>4 DEF Step

LEMMA IntactStays ==
  ASSUME LockInv, Next, Intact'
  PROVE  Intact
BY IntactBefore DEF Next, Step

LEMMA WriterInit == Init => WriterInv
<1>1. SUFFICES ASSUME Init PROVE WriterInv
  OBVIOUS
<1>2. Remote \in Seq(Trees) /\ Remote # <<>> /\ Last(Remote) = Empty /\ Empty \in Trees /\ log = Remote
  BY <1>1, EmptyTree DEF Init, Remote
<1>3. before \in [Procs -> Seq(Trees)]
  BY <1>1 DEF Init
<1>4. Typed
  BY <1>1, <1>2, <1>3 DEF Init, Typed, Working, Started, Starts
<1>5. PlacedAll
  BY <1>1 DEF Init, PlacedAll, Placed, Starts, Holding
<1>6. HeadTree = Empty
  BY <1>2 DEF HeadTree
<1>7. NothingStaged
  BY <1>1, <1>6 DEF Init, NothingStaged, Empty, Files
<1>8. \A p \in Procs : Writes(p) /\ Private(p)
  BY <1>1, <1>6 DEF Init, Writes, Private, Working, Starts, Empty
<1>9. QED
  BY <1>4, <1>5, <1>7, <1>8 DEF WriterInv

LEMMA WriterStep ==
  ASSUME LockInv, WriterInv, Next
  PROVE  WriterInv'
<1>1. PICK p \in Procs : Step(p)
  BY DEF Next, Step
<1>2. DOMAIN pc = Procs /\ Typed /\ PlacedAll
  BY DEF LockInv, WriterInv
<1>3. Typed' /\ PlacedAll'
  BY <1>1, <1>2, TypedLocking, TypedWriting, TypedStarting, PlacedStep DEF Step
<1>4. SUFFICES ASSUME Intact'
               PROVE  /\ NothingStaged'
                      /\ \A q \in Procs : Writes(q)' /\ (Alone(q) => Private(q))'
  BY <1>3 DEF WriterInv
<1>5. Intact /\ NothingStaged /\ Placed(p) /\ Writes(p)
  BY <1>2, <1>4, IntactStays DEF WriterInv, PlacedAll
<1>6. kind' = kind
  BY <1>1, StepFrame
<1>7. ASSUME NEW q \in Procs PROVE Writes(q)' /\ (Alone(q) => Private(q))'
  <2>1. Writes(q) /\ (Alone(q) => Private(q))
    BY <1>5 DEF WriterInv
  <2>2. Writes(q)'
    BY <1>1, <1>2, <1>4, <1>5, <2>1, LockingKeepsWrites, WritingKeepsWrites, StartingKeepsWrites
       DEF Step
  <2>3. ASSUME Alone(q) PROVE Private(q)'
    <3>1. q # p => kind[p] # "worktree"
      BY <2>3 DEF Alone
    <3>2. QED
      BY <1>1, <1>2, <1>4, <1>5, <2>1, <2>3, <3>1, PrivateFromOthers, PrivateOwn
  <2>4. Alone(q)' => Alone(q)
    BY <1>6 DEF Alone
  <2>5. QED
    BY <2>2, <2>3, <2>4
<1>8. NothingStaged'
  BY <1>1, <1>2, <1>4, <1>5, StagedStep
<1>9. QED
  BY <1>7, <1>8

LEMMA WriterInvHolds == Spec => [](LockInv /\ WriterInv)
<1>1. LockInv /\ WriterInv /\ [Next]_vars => WriterInv'
  <2>1. SUFFICES ASSUME LockInv, WriterInv, UNCHANGED vars PROVE WriterInv'
    BY WriterStep
  <2>2. UNCHANGED <<HeadTree, Starters>> /\ \A p \in Procs : Base(p)' = Base(p)
    BY <2>1 DEF vars, HeadTree, Starters, Base
  <2>3. Typed' /\ PlacedAll'
    BY <2>1 DEF WriterInv, vars, Typed, PlacedAll, Placed
  <2>4. NothingStaged <=> NothingStaged'
    BY <2>1, <2>2 DEF vars, NothingStaged
  <2>5. ASSUME NEW p \in Procs
        PROVE  /\ Writes(p) => Writes(p)'
               /\ ((Alone(p) => Private(p)) => (Alone(p) => Private(p))')
    <3>1. Writes(p) => Writes(p)'
      BY <2>1, WritesStay DEF vars, repository
    <3>2. (Alone(p) => Private(p)) => (Alone(p) => Private(p))'
      BY <2>1, <2>2 DEF vars, Alone, Private
    <3>3. QED
      BY <3>1, <3>2
  <2>6. Intact' = Intact
    BY <2>1 DEF vars, Intact
  <2>7. QED
    BY <2>1, <2>3, <2>4, <2>5, <2>6 DEF WriterInv
<1>2. QED
  BY <1>1, WriterInit, LockInvHolds, PTL DEF Spec

-----------------------------------------------------------------------------
LEMMA OneActor ==
  ASSUME LockInv, Next, NEW p \in Procs, Acts(p)
  PROVE  Step(p)
<1>1. PICK q \in Procs : Step(q)
  BY DEF Next, Step
<1>2. \E to : pc' = [pc EXCEPT ![q] = to]
  BY <1>1, StepFrame
<1>3. p = q
  BY <1>2 DEF Acts, LockInv
<1>4. QED
  BY <1>1, <1>3

(* Whatever other scripts do meanwhile, task-start without the lock        *)
(* included, a commit by create-task, an agent's or the adapter's launcher *)
(* or wiki-index brings nothing that is not the script's own, as long as   *)
(* no live lock was removed and no task-start's undo has reset over a      *)
(* commit or put back a backlog that is not main's.                        *)
THEOREM CommitsOwnHolds == Spec => CommitsOwn
<1>1. ASSUME LockInv, WriterInv, Next, NEW p \in Procs,
             Intact', Acts(p), At(p, "commit"), log' # log, kind[p] # "worktree"
      PROVE  CommitBringsOwn(p)
  <2>1. Step(p)
    BY <1>1, OneActor
  <2>2. Commit(p) /\ pc[p] \in Working
    <3>1. ~Starting(p)
      BY <1>1, StartingAside DEF At, Moves, Starts
    <3>2. QED
      BY <1>1, <2>1, <3>1 DEF At, Step, Locking, Begin, Mkdir, ReadOwner, Probe, RemoveLock,
         MkdirAgain, WriteOwner, Check, Release, Kill, Writing, Read, Create, Allocate, Record,
         Child, ValidateChild, SyncConfig, RefreshIndex, CheckScope, Add, After, Undo,
         repository, Working
  <2>3. Typed /\ DOMAIN pc = Procs /\ NothingStaged /\ Writes(p)
    BY <1>1, IntactStays DEF WriterInv, LockInv
  <2>4. Grown(p, index)
    BY <1>1, <2>2, <2>3, CommitGrows
  <2>5. log = before[p] /\ log' = Append(log, index) /\ index \in Trees /\ log \in Seq(Trees)
    BY <1>1, <2>2, <2>3 DEF At, Writes, OneCommit, Commit, Typed
  <2>6. Last(log') = index /\ HeadTree = Base(p)
    BY <2>5, LastAppended DEF HeadTree, Base
  <2>7. \A f \in Files \ Scope[kind[p]] : index[f] = Base(p)[f]
    BY <2>2, <2>3 DEF Writes, Edited, Within
  <2>8. Touched(HeadTree, index) \subseteq Scope[kind[p]]
    BY <2>6, <2>7 DEF Touched
  <2>9. \A f \in Files : index[f] \ HeadTree[f] \subseteq {p}
    BY <2>4, <2>6 DEF Grown
  <2>10. QED
    BY <2>6, <2>8, <2>9 DEF CommitBringsOwn
<1>2. LockInv /\ WriterInv /\ [Next]_vars =>
        [\A p \in Procs :
           Intact' /\ Acts(p) /\ At(p, "commit") /\ log' # log /\ kind[p] # "worktree" => CommitBringsOwn(p)]_vars
  BY <1>1
<1>3. QED
  BY <1>2, WriterInvHolds, PTL DEF Spec, CommitsOwn

(* No script takes from main what is not its own: a commit is made from    *)
(* the tree it began on, and a rollback goes back to that tree; again as   *)
(* long as no live lock was removed and task-start's undo has neither      *)
(* reset over a commit nor put back a backlog that is not main's.          *)
THEOREM WorkKeptHolds == Spec => WorkKept
<1>1. ASSUME LockInv, WriterInv, Next, NEW p \in Procs, Intact', Acts(p), kind[p] # "worktree",
             NEW f \in Files
      PROVE  HeadTree[f] \ Last(log')[f] \subseteq {p}
  <2>1. Step(p)
    BY <1>1, OneActor
  <2>2. Typed /\ NothingStaged /\ Placed(p) /\ Writes(p)
    BY <1>1, IntactStays DEF WriterInv, PlacedAll
  <2>3. Last(log') = HeadTree'
    BY DEF HeadTree
  <2>4. CASE HeadTree' = HeadTree
    BY <2>3, <2>4
  <2>5. CASE HeadTree' # HeadTree
    <3>1. \/ HeadTree = Base(p) /\ Grown(p, HeadTree')
          \/ HeadTree' = Base(p) /\ Grown(p, HeadTree)
      BY <1>1, <2>1, <2>2, <2>5, HeadMoves
    <3>2. QED
      BY <2>3, <3>1 DEF Grown
  <2>6. QED
    BY <2>4, <2>5
<1>2. LockInv /\ WriterInv /\ [Next]_vars =>
        [\A p \in Procs : Intact' /\ Acts(p) /\ kind[p] # "worktree" =>
           \A f \in Files : HeadTree[f] \ Last(log')[f] \subseteq {p}]_vars
  BY <1>1
<1>3. QED
  BY <1>2, WriterInvHolds, PTL DEF Spec, WorkKept

(* A script that has refused or failed has left neither a worktree nor its *)
(* edit on main, whichever of its steps failed.                            *)
THEOREM FailureLeavesNothingHolds == Spec => []FailureLeavesNothing
<1>1. LockInv /\ WriterInv => FailureLeavesNothing
  <2>1. SUFFICES ASSUME LockInv, WriterInv, NEW p \in Procs, Intact, pc[p] \in {"refused", "failed"}, Alone(p)
                 PROVE  p \notin moved /\ \A f \in Files : p \notin HeadTree[f]
    BY DEF FailureLeavesNothing, Alone
  <2>2. Private(p) /\ p \notin moved
    BY <2>1 DEF WriterInv, PlacedAll, Unmoved
  <2>3. QED
    BY <2>1, <2>2 DEF Private
<1>2. QED
  BY <1>1, WriterInvHolds, PTL

-----------------------------------------------------------------------------
(* What is left when all have ended.                                       *)

LEMMA LeftLockStep ==
  ASSUME LockInv, LeftLock, NEW p \in Procs, Step(p)
  PROVE  LeftLock'
<1> USE DEF At, Goto, private
<1>1. DOMAIN pc = Procs
  BY DEF LockInv
<1>2. Starting(p) => pc[p] \in Starts \cup {"new"} /\ lock' = lock
  BY StartingAside DEF Moves
<1>3. CASE RemoveLock(p) \/ Release(p)
  BY <1>3 DEF RemoveLock, Release, LeftLock
<1>4. CASE (Mkdir(p) \/ MkdirAgain(p)) /\ lock = Free
  <2>1. lock' = Unwritten /\ pc'[p] = "owner"
    BY <1>1, <1>4 DEF Mkdir, MkdirAgain
  <2>2. QED
    BY <2>1 DEF LeftLock
<1>5. CASE WriteOwner(p) /\ lock # Free
  <2>1. lock' = p /\ pc'[p] = "check"
    BY <1>1, <1>5 DEF WriteOwner
  <2>2. QED
    BY <2>1 DEF LeftLock, Holding
<1>6. CASE lock' = lock /\ ~WriteOwner(p) /\ ~Release(p)
  <2>1. \A q \in Procs : q # p => pc'[q] = pc[q]
    BY StepFrame
  <2>2. pc[p] = "owner" => pc'[p] = "killed"
    BY <1>1, <1>2, <1>6 DEF Starts, Step, Locking, Begin, Mkdir, ReadOwner, Probe, RemoveLock, MkdirAgain, Check,
       Kill, Writing, Read, Create, Allocate, Record, Child, ValidateChild, SyncConfig,
       RefreshIndex, CheckScope, Add, Commit, After, Undo
  <2>3. pc[p] \in Holding => pc'[p] \in Holding \cup {"killed"}
    <3>1. CASE Writing(p)
      BY <1>1, <3>1, WritingStaysInside, OthersStay
    <3>2. CASE Locking(p) \/ Kill(p)
      BY <1>1, <1>6, <3>2 DEF Locking, Begin, Mkdir, ReadOwner, Probe, RemoveLock, MkdirAgain, Check,
         Kill, Holding
    <3>3. CASE Starting(p)
      BY <3>3, <1>2 DEF Holding, Starts
    <3>4. QED
      BY <3>1, <3>2, <3>3 DEF Step
  <2>4. pc[p] = "killed" => pc'[p] = "killed"
    BY <1>1, <1>2 DEF Starts, Step, Locking, Begin, Mkdir, ReadOwner, Probe, RemoveLock, MkdirAgain,
       WriteOwner, Check, Release, Kill, Ended, Writing, Read, Create, Allocate, Record, Child,
       ValidateChild, SyncConfig, RefreshIndex, CheckScope, Add, Commit, After, Undo
  <2>5. QED
    BY <1>6, <2>1, <2>2, <2>3, <2>4 DEF LeftLock
<1>7. CASE WriteOwner(p) /\ lock = Free
  BY <1>7 DEF WriteOwner, LeftLock
<1>8. lock' = lock \/ RemoveLock(p) \/ Release(p) \/ ((Mkdir(p) \/ MkdirAgain(p)) /\ lock = Free) \/ WriteOwner(p)
  BY <1>2 DEF Step, Locking, Begin, Mkdir, ReadOwner, Probe, MkdirAgain, Check, Kill, Writing, Read, Create,
     Allocate, Record, Child, ValidateChild, SyncConfig, RefreshIndex, CheckScope, Add, Commit,
     After, Undo
<1>9. QED
  BY <1>3, <1>4, <1>5, <1>6, <1>7, <1>8

(* Whoever is answerable for the state of the repository stays so, unless  *)
(* it is the one that steps.                                               *)
LEMMA OthersDirty ==
  ASSUME LockInv, NEW p \in Procs, Step(p),
         NEW q \in Procs, q # p
  PROVE  Dirties(q) => Dirties(q)'
<1>1. pc'[q] = pc[q] /\ kind' = kind
  BY StepFrame
<1>2. QED
  BY <1>1 DEF Dirties, LeavesDirt

(* A task-start that has scaffolded stays answerable.                      *)
LooksFirst(p) == StartStatus(p) \/ StartCompare(p) \/ StartHead(p) \/ StartRead(p)

LEMMA StartsDirty ==
  ASSUME LockInv, NEW p \in Procs, Placed(p), Starting(p), ~LooksFirst(p)
  PROVE  Dirties(p)'
<1>1. pc[p] \in Starts
  BY DEF Starting, LooksFirst, StartScaffold, StartWrite, StartAllocate, StartRevert, StartReset,
     StartResetHard, StartRemove, StartRestore, StartRewrite, At, Starts
<1>2. kind'[p] = "start"
  BY <1>1, StartingAside DEF Placed
<1>3. pc'[p] \in Scaffolded \cup {"done", "failed", "retained"}
  BY DEF LockInv, Starting, LooksFirst, StartScaffold, StartWrite, StartAllocate, StartRevert,
     StartReset, StartResetHard, StartRemove, StartRestore, StartRewrite, Goto, Scaffolded,
     Started, Starts
<1>4. QED
  BY <1>2, <1>3 DEF Dirties, LeavesDirt

LEMMA LooksOnly ==
  ASSUME NEW p \in Procs, LooksFirst(p)
  PROVE  UNCHANGED repository /\ ~Dirties(p)
BY DEF LooksFirst, StartStatus, StartCompare, StartHead, StartRead, At, Dirties, LeavesDirt,
   Scaffolded, Started, Starts

(* A script that goes off duty leaves the repository clean.                *)
LEMMA DirtStep ==
  ASSUME LockInv, Typed, NEW p \in Procs, Placed(p), Writes(p), Tidy(p), Intact, Step(p),
         Clean \/ \E q \in Procs : Dirties(q)
  PROVE  Clean' \/ \E q \in Procs : Dirties(q)'
<1> USE DEF At, Goto, private, repository
<1>1. DOMAIN pc = Procs
  BY DEF LockInv
<1>2. SUFFICES ASSUME ~Dirties(p)', \A q \in Procs \ {p} : ~Dirties(q) PROVE Clean'
  BY OthersDirty
<1>3. Clean \/ Dirties(p)
  BY <1>2
<1>4. UNCHANGED repository /\ Clean => Clean'
  BY DEF Clean, HeadTree
<1>5. CASE Locking(p)
  <2>1. UNCHANGED <<repository, kind>>
    BY <1>5, LockingAside
  <2>2. ~Dirties(p)
    <3>1. CASE Release(p)
      BY <1>1, <1>2, <2>1, <3>1 DEF Release, Dirties, LeavesDirt, Scaffolded, Started, Starts
    <3>2. CASE ~Release(p)
      BY <1>5, <3>2 DEF Locking, Begin, Mkdir, ReadOwner, Probe, RemoveLock, MkdirAgain, WriteOwner,
         Check, Dirties, LeavesDirt, Scaffolded, Started, Starts
    <3>3. QED
      BY <3>1, <3>2
  <2>3. QED
    BY <1>3, <1>4, <2>1, <2>2
<1>6. CASE Kill(p)
  BY <1>1, <1>2, <1>6 DEF Kill, Dirties
<1>7. CASE Starting(p)
  <2>1. LooksFirst(p)
    BY <1>2, <1>7, StartsDirty
  <2>2. UNCHANGED repository /\ ~Dirties(p)
    BY <2>1, LooksOnly
  <2>3. QED
    BY <1>3, <1>4, <2>2
<1>8. CASE Writing(p)
  <2>1. pc'[p] \in {"release", "unlock"}
    BY <1>1, <1>2, <1>8 DEF Writing, Read, Create, Allocate, Record, Child, ValidateChild,
       SyncConfig, RefreshIndex, CheckScope, Add, Commit, After, Undo, Dirties
  <2>2. RefreshIndex(p) \/ Commit(p) \/ After(p) \/ Undo(p)
    BY <1>1, <1>8, <2>1 DEF Writing, Read, Create, Allocate, Record, Child, ValidateChild,
       SyncConfig, CheckScope, Add
  <2>3. CASE RefreshIndex(p)
    <3>1. UNCHANGED repository /\ ~Dirties(p)
      BY <1>1, <2>1, <2>3 DEF RefreshIndex, Dirties, LeavesDirt, Scaffolded, Started, Starts
    <3>2. QED
      BY <1>3, <1>4, <3>1
  <2>4. CASE Commit(p)
    <3>1. log' = Append(log, index) /\ work = index /\ UNCHANGED <<index, work>>
      BY <1>1, <2>1, <2>4 DEF Commit, HookAccepts
    <3>2. HeadTree' = index
      BY <3>1, LastAppended DEF Typed, HeadTree
    <3>3. QED
      BY <3>1, <3>2 DEF Clean
  <2>5. CASE After(p)
    BY <1>1, <1>4, <2>1, <2>5 DEF After
  <2>6. CASE Undo(p)
    <3>1. kind'[p] = kind[p] /\ pc'[p] = "unlock" /\ pc[p] \in Working
      BY <1>1, <2>6 DEF Undo, Working
    <3>2. kind[p] \notin {"create", "wiki"}
      BY <1>2, <3>1 DEF Dirties
    <3>3. CASE UndoLaunch(p)
      BY <3>3 DEF UndoLaunch, ResetHard, Clean, HeadTree
    <3>4. CASE UndoWorktree(p)
      <4>1. \A f \in Files \ {"backlog"} : work[f] = HeadTree[f] /\ index[f] = HeadTree[f]
        BY <1>2, <3>1, <3>4 DEF UndoWorktree, Tidy
      <4>2. work \in Trees /\ index \in Trees /\ HeadTree \in Trees
        BY LastTree DEF Typed, HeadTree
      <4>3. /\ RestoreBacklog(work) = [work EXCEPT !["backlog"] = HeadTree["backlog"]]
            /\ RestoreBacklog(index) = [index EXCEPT !["backlog"] = HeadTree["backlog"]]
        BY DEF RestoreBacklog
      <4>4. RestoreBacklog(work) = HeadTree /\ RestoreBacklog(index) = HeadTree
        BY <4>1, <4>2, <4>3 DEF Trees
      <4>5. QED
        BY <3>4, <4>4 DEF UndoWorktree, Clean, HeadTree
    <3>5. QED
      BY <2>6, <3>2, <3>3, <3>4 DEF Undo, UndoCreate, UndoWiki
  <2>7. QED
    BY <2>2, <2>3, <2>4, <2>5, <2>6
<1>9. QED
  BY <1>5, <1>6, <1>7, <1>8 DEF Step

(* Nobody but a task-start, which stays answerable, writes below the feet  *)
(* of a worktree.                                                          *)
LEMMA TidyFromOthers ==
  ASSUME LockInv, Typed, NEW p \in Procs, Placed(p), Intact, Step(p),
         NEW q \in Procs, q # p, Tidy(q)
  PROVE  Tidy(q)'
<1> USE DEF At, Goto, private, repository
<1>1. DOMAIN pc = Procs /\ kind' = kind /\ pc'[q] = pc[q]
  BY StepFrame
<1>2. SUFFICES ASSUME kind[q] = "worktree", pc[q] \in Working, \A r \in Procs \ {q} : ~Dirties(r)'
               PROVE  \A f \in Files \ {"backlog"} : work'[f] = HeadTree'[f] /\ index'[f] = HeadTree'[f]
  BY <1>1 DEF Tidy
<1>3. pc[p] \notin Holding
  BY <1>2, OneHolder, WorkingHolds DEF Intact
<1>4. ~Writing(p) /\ (Starting(p) => LooksFirst(p)) /\ ~Kill(p)
  <2>1. ~Dirties(p)'
    BY <1>2
  <2>2. ~Writing(p)
    BY <1>1, <1>3, WritingStaysInside, OthersStay
  <2>3. ~Kill(p)
    BY <1>1, <2>1 DEF Kill, Dirties
  <2>4. QED
    BY <2>1, <2>2, <2>3, StartsDirty
<1>5. UNCHANGED repository /\ ~Dirties(p)
  <2>1. CASE Locking(p)
    BY <1>3, <2>1 DEF Locking, Begin, Mkdir, ReadOwner, Probe, RemoveLock, MkdirAgain, WriteOwner,
       Check, Release, Dirties, LeavesDirt, Holding, Scaffolded, Started, Starts
  <2>2. QED
    BY <1>4, <2>1, LooksOnly DEF Step
<1>6. \A r \in Procs \ {q} : ~Dirties(r)
  BY <1>2, <1>5, OthersDirty
<1>7. QED
  BY <1>2, <1>5, <1>6 DEF Tidy, HeadTree

LEMMA TidyOwn ==
  ASSUME LockInv, Typed, NEW p \in Procs, Placed(p), Step(p), Tidy(p)
  PROVE  Tidy(p)'
<1> USE DEF At, Goto, private, repository
<1>1. DOMAIN pc = Procs /\ kind' = kind
  BY StepFrame
<1>2. SUFFICES ASSUME kind[p] = "worktree", pc'[p] \in Working, \A r \in Procs \ {p} : ~Dirties(r)'
               PROVE  \A f \in Files \ {"backlog"} : work'[f] = HeadTree'[f] /\ index'[f] = HeadTree'[f]
  BY <1>1 DEF Tidy
<1>3. \A r \in Procs \ {p} : ~Dirties(r)
  BY <1>2, OthersDirty
<1>4. pc[p] \in Working => \A f \in Files \ {"backlog"} : work[f] = HeadTree[f] /\ index[f] = HeadTree[f]
  BY <1>2, <1>3 DEF Tidy
<1>5. CASE Check(p)
  <2>1. Clean /\ UNCHANGED repository
    BY <1>1, <1>2, <1>5 DEF Check, Working
  <2>2. QED
    BY <2>1 DEF Clean, HeadTree
<1>6. CASE Allocate(p)
  BY <1>4, <1>6 DEF Allocate, Working, HeadTree
<1>7. CASE Record(p)
  <2>1. work \in Trees
    BY DEF Typed
  <2>2. \A f \in Files \ {"backlog"} : work'[f] = work[f]
    BY <1>7, <2>1 DEF Record, Trees, Files
  <2>3. QED
    BY <1>4, <1>7, <2>2 DEF Record, Working, HeadTree
<1>8. CASE Add(p)
  <2>1. Scope["worktree"] = {"backlog"}
    BY DEF Scope, Kinds
  <2>2. /\ \A f \in Files \ {"tasks"} : index'[f] = IF f \in Scope[kind[p]] THEN work[f] ELSE index[f]
        /\ index'["tasks"] = index["tasks"] \cup (work["tasks"] \cap {p})
    BY <1>8, AddedTree
  <2>3. \A f \in Files \ {"backlog"} : work[f] = HeadTree[f] /\ index[f] = HeadTree[f]
    BY <1>4, <1>8 DEF Add, Working
  <2>4. work' = work /\ HeadTree' = HeadTree
    BY <1>8 DEF Add, HeadTree
  <2>5. index'["tasks"] = HeadTree["tasks"]
    BY <2>2, <2>3 DEF Files
  <2>6. \A f \in Files \ {"backlog"} : index'[f] = HeadTree[f]
    BY <1>2, <2>1, <2>2, <2>3, <2>5
  <2>7. QED
    BY <2>3, <2>4, <2>6
<1>9. CASE Commit(p)
  <2>1. UNCHANGED repository
    BY <1>1, <1>2, <1>9 DEF Commit, Working, Launchers
  <2>2. QED
    BY <1>4, <1>9, <2>1 DEF Commit, Working, HeadTree
<1>10. Check(p) \/ Allocate(p) \/ Record(p) \/ Add(p) \/ Commit(p)
  <2>1. ~Starting(p)
    BY <1>2, StartingAside DEF Moves, Starts, Placed
  <2>2. QED
    BY <1>1, <1>2, <2>1 DEF Step, Locking, Begin, Mkdir, ReadOwner, Probe, RemoveLock, MkdirAgain,
       WriteOwner, Release, Placed, Launchers, Kill, Writing, Read, Create, Child, ValidateChild,
       SyncConfig, RefreshIndex, CheckScope, After, Undo, Working
<1>11. QED
  BY <1>5, <1>6, <1>7, <1>8, <1>9, <1>10

LEMMA SettleInvHolds == Spec => []SettleInv
<1>1. Init => SettleInv
  <2>1. SUFFICES ASSUME Init PROVE SettleInv
    OBVIOUS
  <2>2. HeadTree = Empty
    BY <2>1, EmptyTree DEF Init, HeadTree, Remote
  <2>3. QED
    BY <2>1, <2>2 DEF Init, SettleInv, LeftLock, Clean, Tidy, Working
<1>2. LockInv /\ WriterInv /\ SettleInv /\ [Next]_vars => SettleInv'
  <2>1. SUFFICES ASSUME LockInv, WriterInv, SettleInv, [Next]_vars, Intact'
                 PROVE  /\ LeftLock'
                        /\ Clean' \/ \E p \in Procs : Dirties(p)'
                        /\ \A p \in Procs : Tidy(p)'
    BY DEF SettleInv
  <2>2. CASE UNCHANGED vars
    BY <2>1, <2>2 DEF vars, Intact, SettleInv, LeftLock, Clean, HeadTree, Dirties, LeavesDirt, Tidy
  <2>3. CASE Next
    <3>1. PICK p \in Procs : Step(p)
      BY <2>3 DEF Next, Step
    <3>2. Intact
      BY <2>1, <2>3, IntactStays
    <3>3. LeftLock /\ (Clean \/ \E q \in Procs : Dirties(q)) /\ \A q \in Procs : Tidy(q)
      BY <2>1, <3>2 DEF SettleInv
    <3>4. Typed /\ Placed(p) /\ Writes(p)
      BY <2>1, <3>2 DEF WriterInv, PlacedAll
    <3>5. LeftLock'
      BY <2>1, <3>1, <3>2, <3>3, LeftLockStep
    <3>6. Clean' \/ \E q \in Procs : Dirties(q)'
      BY <2>1, <3>1, <3>2, <3>3, <3>4, DirtStep
    <3>7. \A q \in Procs : Tidy(q)'
      BY <2>1, <3>1, <3>2, <3>3, <3>4, TidyOwn, TidyFromOthers
    <3>8. QED
      BY <3>5, <3>6, <3>7
  <2>4. QED
    BY <2>1, <2>2, <2>3
<1>3. QED
  BY <1>1, <1>2, WriterInvHolds, PTL DEF Spec

(* When all have ended and none was killed, the lock is gone and the next  *)
(* writer finds a clean repository, or one that a script which leaves it   *)
(* dirty has left.                                                         *)
THEOREM SettledHolds == Spec => []Settled
<1>1. SettleInv => Settled
  <2>1. SUFFICES ASSUME SettleInv, Quiet PROVE lock \in {Free, Dead} /\ (Clean \/ \E p \in Procs : LeavesDirt(p))
    BY DEF Settled
  <2>2. \A p \in Procs : pc[p] \in {"done", "refused", "failed", "retained", "new"}
    BY <2>1 DEF Quiet, Ended
  <2>3. lock \in {Free, Dead}
    BY <2>1, <2>2 DEF Quiet, SettleInv, LeftLock, Holding
  <2>4. \A p \in Procs : Dirties(p) => LeavesDirt(p)
    BY <2>2 DEF Dirties, Scaffolded, Started, Starts
  <2>5. QED
    BY <2>1, <2>3, <2>4 DEF Quiet, SettleInv
<1>2. QED
  BY <1>1, SettleInvHolds, PTL
=============================================================================
