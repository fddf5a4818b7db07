----------------------- MODULE ApprovalDecisionProofs -----------------------
(***************************************************************************)
(* Proofs about ApprovalDecision: its four properties, for any numbers of  *)
(* callers, challenges, requests and operators and any times.              *)
(*                                                                         *)
(* CallInv says what is true of the challenge that a caller holds; Claims  *)
(* are the decisions that callers were told of or are about to be told of, *)
(* and ClaimInv ties them to the records.                                  *)
(***************************************************************************)
EXTENDS ApprovalDecision, TLAPS

Bound(c) ==
    /\ binding[c].request \in Requests /\ binding[c].operator \in Operators
    /\ binding[c].decision \in {"approve", "deny"}

Shape ==
    /\ call \in [Threads -> Call]
    /\ DOMAIN binding \subseteq Challenges /\ DOMAIN invoked = DOMAIN binding
    /\ \A c \in DOMAIN binding : Bound(c) /\ invoked[c] \in 0..1
    /\ pending \subseteq DOMAIN binding /\ verified \subseteq DOMAIN binding
    /\ record \in [Requests -> RequestState]

\* A challenge that is pending has not been shown to the verifier; one that a
\* caller holds has, and is verified once the caller is past it.
CallInv ==
    /\ \A c \in pending : invoked[c] = 0
    /\ \A t \in Threads :
        /\ call[t].at \in {"verify", "record", "answer"} => call[t].challenge \in DOMAIN binding
        /\ call[t].at \in {"record", "answer"} => call[t].challenge \in verified

ClaimOf(c, b) ==
    [challenge |-> c, request |-> b.request, state |-> DecidedState(b).state, operator |-> b.operator]

Claims ==
    results \cup {ClaimOf(call[t].challenge, binding[call[t].challenge]) :
                     t \in {u \in Threads : call[u].at = "answer"}}

Stands(claim) ==
    /\ claim.request \in Requests
    /\ record[claim.request].actor = claim.operator
    /\ record[claim.request].state \in
          IF claim.state = "approved" THEN {"approved", "expired", "stale"} ELSE {"denied"}

ClaimInv ==
    /\ \A s \in Claims : Stands(s)
    /\ \A s, u \in Claims : s.request = u.request => s.challenge = u.challenge

DecisionInv == Shape /\ CallInv /\ DecisionsVerified /\ ClaimInv

-----------------------------------------------------------------------------
(* The challenges.                                                          *)

\* What callers know stays: a challenge keeps its binding, and once verified
\* it is for good.
ChallengesStay ==
    /\ DOMAIN binding \subseteq DOMAIN binding' /\ verified \subseteq verified'
    /\ \A c \in DOMAIN binding : binding'[c] = binding[c]

\* A step of one caller, to a place the others do not see.
Goes(t, state) ==
    /\ state \in Call /\ Goto(t, state)

LEMMA OthersStay ==
    ASSUME Shape, NEW t \in Threads, NEW state, Goes(t, state)
    PROVE  /\ call' \in [Threads -> Call] /\ call'[t] = state
           /\ \A u \in Threads : u # t => call'[u] = call[u]
BY DEF Shape, Goes, Goto

LEMMA CallParts ==
    ASSUME Shape, NEW t \in Threads
    PROVE  /\ call[t].at = "issue" => /\ call[t].request \in Requests /\ call[t].operator \in Operators
                                      /\ call[t].decision \in {"approve", "deny"}
           /\ call[t].at \in {"verify", "record", "answer"} =>
                /\ call[t].challenge \in Challenges
                /\ \A at \in {"verify", "record", "answer"} :
                       /\ [call[t] EXCEPT !.at = at] = [at |-> at, challenge |-> call[t].challenge]
                       /\ [at |-> at, challenge |-> call[t].challenge] \in Call
<1>1. call[t] \in Call
  BY DEF Shape
<1>2. call[t].at = "issue" => call[t] \in [at: {"issue"}, request: Requests, decision: {"approve", "deny"},
                                           operator: Operators]
  BY <1>1 DEF Call, Idle
<1>3. call[t].at \in {"verify", "record", "answer"} =>
          call[t] \in [at: {"verify", "record", "answer"}, challenge: Challenges]
  BY <1>1 DEF Call, Idle
<1>4. ASSUME NEW c \in Challenges, NEW at \in {"verify", "record", "answer"}
      PROVE  [at |-> at, challenge |-> c] \in Call
  BY DEF Call
<1>5. QED
  BY <1>2, <1>3, <1>4

\* The state of the challenges, after a step of the manager or anybody else.
ChallengeInv ==
    /\ DOMAIN binding \subseteq Challenges /\ DOMAIN invoked = DOMAIN binding
    /\ \A c \in DOMAIN binding : Bound(c) /\ invoked[c] \in 0..1
    /\ pending \subseteq DOMAIN binding /\ verified \subseteq DOMAIN binding
    /\ \A c \in pending : invoked[c] = 0

LEMMA IssueKeeps ==
    ASSUME Shape, CallInv, NEW t \in Threads, NEW c \in Challenges, Issue(t, c)
    PROVE  ChallengeInv' /\ ChallengesStay /\ Goes(t, Idle)
<1> DEFINE b == [request |-> call[t].request, decision |-> call[t].decision,
                 operator |-> call[t].operator, expires |-> clock + TTL]
<1>1. /\ binding' = Extend(binding, c, b) /\ invoked' = Extend(invoked, c, 0)
      /\ pending' = Live \cup {c} /\ verified' = verified /\ c \notin DOMAIN binding
      /\ call[t].at = "issue"
  BY DEF Issue
<1>2. b.request \in Requests /\ b.operator \in Operators /\ b.decision \in {"approve", "deny"}
  BY <1>1, CallParts
<1> HIDE DEF b
<1>3. /\ DOMAIN binding' = DOMAIN binding \cup {c} /\ DOMAIN invoked' = DOMAIN invoked \cup {c}
      /\ binding'[c] = b /\ invoked'[c] = 0
      /\ \A d \in DOMAIN binding : binding'[d] = binding[d]
      /\ \A d \in DOMAIN invoked : invoked'[d] = invoked[d]
  BY <1>1 DEF Extend, Shape
<1>4. \A d \in DOMAIN binding' : Bound(d)' /\ invoked'[d] \in 0..1
  BY <1>2, <1>3 DEF Bound, Shape
<1>5. Live \subseteq pending
  BY DEF Live
<1>6. ChallengeInv'
  BY <1>1, <1>3, <1>4, <1>5 DEF ChallengeInv, Shape, CallInv
<1>7. ChallengesStay
  BY <1>1, <1>3 DEF ChallengesStay
<1>8. Goes(t, Idle)
  BY DEF Issue, Goes, Call
<1>9. QED
  BY <1>6, <1>7, <1>8

LEMMA ReserveKeeps ==
    ASSUME Shape, CallInv, NEW t \in Threads, NEW c \in Challenges, Reserve(t, c)
    PROVE  ChallengeInv' /\ ChallengesStay /\ Goes(t, [at |-> "verify", challenge |-> c]) /\ c \in DOMAIN binding
<1>1. /\ pending' = Live \ {c} /\ invoked' = [invoked EXCEPT ![c] = @ + 1]
      /\ binding' = binding /\ verified' = verified /\ c \in Live
      /\ Goto(t, [at |-> "verify", challenge |-> c])
  BY DEF Reserve
<1>2. Live \subseteq pending /\ c \in DOMAIN binding /\ invoked[c] = 0
  BY <1>1 DEF Live, Shape, CallInv
<1>3. invoked'[c] = 1 /\ \A d \in DOMAIN invoked : d # c => invoked'[d] = invoked[d]
  BY <1>1, <1>2 DEF Shape
<1>4. ChallengeInv'
  BY <1>1, <1>2, <1>3 DEF ChallengeInv, Shape, CallInv, Bound
<1>5. ChallengesStay /\ Goes(t, [at |-> "verify", challenge |-> c])
  BY <1>1 DEF ChallengesStay, Goes, Call
<1>6. QED
  BY <1>2, <1>4, <1>5

\* Every other step only forgets pending challenges or verifies one.
LEMMA OtherStepsKeep ==
    ASSUME Shape, CallInv, UNCHANGED <<binding, invoked>>, pending' \subseteq pending,
           verified \subseteq verified', verified' \subseteq DOMAIN binding
    PROVE  ChallengeInv' /\ ChallengesStay
BY DEF Shape, CallInv, ChallengeInv, ChallengesStay, Bound

-----------------------------------------------------------------------------
(* The records.                                                             *)

\* What may become of a record: it expires, is withdrawn, or is decided by a
\* verified challenge.
RecordMoves(r, s) ==
    \/ record[r].state \in {"pending", "approved"} /\ s = ExpiredState(r)
    \/ record[r].state = "pending" /\ s = [record[r] EXCEPT !.state = "cancelled"]
    \/ record[r].state = "approved" /\ s = [record[r] EXCEPT !.state = "stale"]
    \/ /\ record[r].state = "pending"
       /\ \E c \in verified : binding[c].request = r /\ s = DecidedState(binding[c])

RecordMoved ==
    \/ record' = record
    \/ \E r \in Requests : \E s : RecordMoves(r, s) /\ record' = [record EXCEPT ![r] = s]

LEMMA CommitMoves ==
    ASSUME NEW r \in Requests, NEW s, RecordMoves(r, s), Commit(r, s) \/ Fails(r, s)
    PROVE  RecordMoved
BY DEF Commit, Done, Fails, RecordMoved

\* The record after a move, field by field.
LEMMA MovedRecord ==
    ASSUME Shape, NEW r \in Requests, NEW s, RecordMoves(r, s)
    PROVE  /\ s \in RequestState
           /\ record[r].state = "approved" => s.state \in {"expired", "stale"} /\ s.actor = record[r].actor
           /\ record[r].state \in {"pending", "approved"}
           /\ s.state \in {"approved", "denied"} =>
                  \E c \in verified : binding[c].request = r /\ s = DecidedState(binding[c])
<1>1. /\ record[r] \in RequestState /\ record[r].actor \in Operators \cup {NoOperator}
      /\ record[r] = [state |-> record[r].state, actor |-> record[r].actor]
  BY DEF Shape, RequestState
<1>2. CASE record[r].state \in {"pending", "approved"} /\ s = ExpiredState(r)
  BY <1>1, <1>2 DEF ExpiredState, RequestState
<1>3. CASE record[r].state = "pending" /\ s = [record[r] EXCEPT !.state = "cancelled"]
  BY <1>1, <1>3 DEF RequestState
<1>4. CASE record[r].state = "approved" /\ s = [record[r] EXCEPT !.state = "stale"]
  BY <1>1, <1>4 DEF RequestState
<1>5. CASE record[r].state = "pending" /\ \E c \in verified : binding[c].request = r /\ s = DecidedState(binding[c])
  <2>1. PICK c \in verified : binding[c].request = r /\ s = DecidedState(binding[c])
    BY <1>5
  <2>2. s \in RequestState
    BY <2>1 DEF Shape, Bound, DecidedState, RequestState
  <2>3. QED
    BY <1>5, <2>1, <2>2
<1>6. QED
  BY <1>2, <1>3, <1>4, <1>5 DEF RecordMoves

LEMMA RecordTyped ==
    ASSUME Shape, RecordMoved
    PROVE  record' \in [Requests -> RequestState]
<1>1. CASE record' = record
  BY <1>1 DEF Shape
<1>2. ASSUME NEW r \in Requests, NEW s, RecordMoves(r, s), record' = [record EXCEPT ![r] = s]
      PROVE  record' \in [Requests -> RequestState]
  BY <1>2, MovedRecord DEF Shape
<1>3. QED
  BY <1>1, <1>2 DEF RecordMoved

\* A decision that is on disk after the step was there before or is made by a
\* verified challenge.
LEMMA DecisionsKeep ==
    ASSUME Shape, DecisionsVerified, RecordMoved, ChallengesStay
    PROVE  DecisionsVerified'
<1> SUFFICES ASSUME NEW r \in Requests, NEW d \in {"approve", "deny"},
                    record'[r].state = (IF d = "approve" THEN "approved" ELSE "denied")
             PROVE  \E c \in verified' : /\ binding'[c].request = r /\ binding'[c].decision = d
                                         /\ binding'[c].operator = record'[r].actor
  BY DEF DecisionsVerified
<1>1. \A c \in verified : c \in verified' /\ binding'[c] = binding[c]
  BY DEF Shape, ChallengesStay
<1>2. CASE record'[r] = record[r]
  BY <1>1, <1>2 DEF DecisionsVerified
<1>3. ASSUME NEW s, RecordMoves(r, s), record' = [record EXCEPT ![r] = s]
      PROVE  \E c \in verified' : /\ binding'[c].request = r /\ binding'[c].decision = d
                                  /\ binding'[c].operator = record'[r].actor
  <2>1. record'[r] = s
    BY <1>3 DEF Shape
  <2>2. PICK c \in verified : binding[c].request = r /\ s = DecidedState(binding[c])
    BY <1>3, <2>1, MovedRecord
  <2>3. binding[c].decision \in {"approve", "deny"}
    BY DEF Shape, Bound
  <2>4. binding[c].decision = d /\ binding[c].operator = s.actor
    BY <2>1, <2>2, <2>3 DEF DecidedState
  <2>5. QED
    BY <1>1, <2>1, <2>2, <2>4
<1>4. QED
  BY <1>2, <1>3 DEF RecordMoved, Shape

LEMMA StandingStays ==
    ASSUME Shape, RecordMoved, NEW claim, Stands(claim)
    PROVE  Stands(claim)'
<1> DEFINE q == claim.request
<1>1. q \in Requests
  BY DEF Stands
<1>2. CASE record'[q] = record[q]
  BY <1>2 DEF Stands
<1>3. CASE record'[q] # record[q]
  <2>0. PICK r \in Requests : \E s : RecordMoves(r, s) /\ record' = [record EXCEPT ![r] = s]
    BY <1>3 DEF RecordMoved
  <2>1. PICK s : RecordMoves(r, s) /\ record' = [record EXCEPT ![r] = s]
    BY <2>0
  <2>2. r = q /\ record'[q] = s
    BY <1>1, <1>3, <2>1 DEF Shape
  <2>3. record[q].state = "approved"
    BY <2>1, <2>2, MovedRecord DEF Stands
  <2>4. s.state \in {"expired", "stale"} /\ s.actor = record[q].actor
    BY <2>1, <2>2, <2>3, MovedRecord
  <2>5. QED
    BY <2>2, <2>3, <2>4 DEF Stands
<1>4. QED
  BY <1>2, <1>3

-----------------------------------------------------------------------------
(* The callers and what they claim.                                         *)

\* A step that lets nobody claim anything new.
LEMMA ClaimsKeep ==
    ASSUME Shape, ClaimInv, RecordMoved, Claims' \subseteq Claims
    PROVE  ClaimInv'
<1>1. \A s \in Claims : Stands(s)'
  BY StandingStays DEF ClaimInv
<1>2. QED
  BY <1>1 DEF ClaimInv

LEMMA SameClaims ==
    ASSUME Shape, CallInv, ChallengesStay, results' = results,
           \A t \in Threads : call'[t].at = "answer" => call'[t] = call[t]
    PROVE  Claims' \subseteq Claims
<1>1. ASSUME NEW t \in Threads, call'[t].at = "answer"
      PROVE  call[t].at = "answer" /\ call'[t] = call[t]
             /\ binding'[call[t].challenge] = binding[call[t].challenge]
  BY <1>1 DEF CallInv, ChallengesStay
<1>2. ASSUME NEW claim \in Claims', claim \notin results
      PROVE  claim \in Claims
  <2>1. PICK t \in Threads : /\ call'[t].at = "answer"
                             /\ claim = ClaimOf(call'[t].challenge, binding'[call'[t].challenge])
    BY <1>2 DEF Claims
  <2>2. call[t].at = "answer" /\ claim = ClaimOf(call[t].challenge, binding[call[t].challenge])
    BY <1>1, <2>1
  <2>3. QED
    BY <2>2 DEF Claims
<1>3. QED
  BY <1>2 DEF Claims

\* The parts of the invariant, after a step in which one caller moved.
LEMMA CallerKeeps ==
    ASSUME DecisionInv, ChallengeInv', ChallengesStay, RecordMoved, results' = results,
           NEW t \in Threads, NEW state, Goes(t, state), state.at # "answer",
           state.at \in {"verify", "record"} => state.challenge \in DOMAIN binding',
           state.at = "record" => state.challenge \in verified'
    PROVE  DecisionInv'
<1>1. /\ call' \in [Threads -> Call] /\ call'[t] = state
      /\ \A u \in Threads : u # t => call'[u] = call[u]
  BY OthersStay DEF DecisionInv
<1>2. Shape'
  BY <1>1, RecordTyped DEF DecisionInv, Shape, ChallengeInv
<1>3. CallInv'
  BY <1>1 DEF DecisionInv, CallInv, ChallengeInv, ChallengesStay
<1>4. Claims' \subseteq Claims
  BY <1>1, SameClaims DEF DecisionInv
<1>5. QED
  BY <1>2, <1>3, <1>4, DecisionsKeep, ClaimsKeep DEF DecisionInv

\* ... and in which none did.
LEMMA NobodyMoves ==
    ASSUME DecisionInv, ChallengeInv', ChallengesStay, RecordMoved, results' = results,
           call' = call \/ call' = [t \in Threads |-> Idle]
    PROVE  DecisionInv'
<1>1. /\ call' \in [Threads -> Call]
      /\ \A t \in Threads : call'[t] = call[t] \/ call'[t] = Idle
  BY DEF DecisionInv, Shape, Call
<1>2. Shape'
  BY <1>1, RecordTyped DEF DecisionInv, Shape, ChallengeInv
<1>3. CallInv'
  BY <1>1 DEF DecisionInv, CallInv, ChallengeInv, ChallengesStay, Idle
<1>4. Claims' \subseteq Claims
  BY <1>1, SameClaims DEF DecisionInv, Idle
<1>5. QED
  BY <1>2, <1>3, <1>4, DecisionsKeep, ClaimsKeep DEF DecisionInv

\* Decide: the record was pending, so nobody claims anything of the request.
LEMMA DecideKeeps ==
    ASSUME DecisionInv, NEW t \in Threads, Decide(t)
    PROVE  DecisionInv'
<1> DEFINE c == call[t].challenge
           b == binding[c]
           state == [at |-> "answer", challenge |-> c]
<1>1. /\ call[t].at = "record" /\ b.request \in Requests /\ record[b.request].state = "pending"
      /\ record' = [record EXCEPT ![b.request] = DecidedState(b)]
      /\ Goto(t, [call[t] EXCEPT !.at = "answer"])
      /\ UNCHANGED <<binding, invoked, pending, verified, results>>
      /\ c \in verified /\ c \in DOMAIN binding /\ Bound(c)
  BY DEF Decide, Done, DecisionInv, CallInv, Shape, Bound, challengeVars
<1>2. Goes(t, state)
  BY <1>1, CallParts DEF DecisionInv, Goes
<1>3. RecordMoved
  BY <1>1 DEF RecordMoved, RecordMoves
<1>4. ChallengeInv' /\ ChallengesStay
  BY <1>1, OtherStepsKeep DEF DecisionInv, Shape
<1>5. /\ call' \in [Threads -> Call] /\ call'[t] = state
      /\ \A u \in Threads : u # t => call'[u] = call[u]
  <2> HIDE DEF state
  <2> QED BY <1>2, OthersStay DEF DecisionInv
<1>6. Shape'
  BY <1>4, <1>5, <1>3, RecordTyped DEF DecisionInv, Shape, ChallengeInv
<1>7. CallInv'
  BY <1>1, <1>4, <1>5 DEF DecisionInv, CallInv, ChallengeInv, ChallengesStay
<1>8. DecisionsVerified'
  BY <1>3, <1>4, DecisionsKeep DEF DecisionInv
<1>9. PICK n : n = ClaimOf(c, b)
  OBVIOUS
<1>10. Claims' \subseteq Claims \cup {n}
  <2>1. ASSUME NEW claim \in Claims', claim \notin results
        PROVE  claim \in Claims \cup {n}
    <3>1. PICK u \in Threads : /\ call'[u].at = "answer"
                               /\ claim = ClaimOf(call'[u].challenge, binding'[call'[u].challenge])
      BY <1>1, <2>1 DEF Claims
    <3>2. CASE u = t
      BY <1>1, <1>5, <1>9, <3>1, <3>2
    <3>3. CASE u # t
      BY <1>1, <1>5, <3>1, <3>3 DEF Claims
    <3>4. QED
      BY <3>2, <3>3
  <2>2. QED
    BY <1>1, <2>1 DEF Claims
<1>11. \A s \in Claims : s.request # b.request
  BY <1>1 DEF DecisionInv, ClaimInv, Stands
<1>12. /\ n.request = b.request /\ n.operator = b.operator
       /\ n.state = DecidedState(b).state
       /\ DecidedState(b).actor = b.operator /\ DecidedState(b).state \in {"approved", "denied"}
  BY <1>9 DEF ClaimOf, DecidedState
<1>13. Stands(n)'
  <2>1. record'[b.request] = DecidedState(b)
    BY <1>1 DEF DecisionInv, Shape
  <2> HIDE DEF b, c
  <2>2. QED
    BY <1>1, <1>12, <2>1 DEF Stands
<1>14. ClaimInv'
  <2>1. \A s \in Claims : Stands(s)'
    BY <1>3, StandingStays DEF DecisionInv, ClaimInv
  <2>2. \A s \in Claims : s.request # n.request
    BY <1>11, <1>12
  <2>3. \A s \in Claims' : Stands(s)'
    BY <1>10, <1>13, <2>1
  <2>4. \A s, u \in Claims' : s.request = u.request => s.challenge = u.challenge
    BY <1>10, <2>2 DEF DecisionInv, ClaimInv
  <2>5. QED
    BY <2>3, <2>4 DEF ClaimInv
<1>15. QED
  BY <1>6, <1>7, <1>8, <1>14 DEF DecisionInv

\* Answer: what the caller claimed becomes what it was told.
LEMMA AnswerKeeps ==
    ASSUME DecisionInv, NEW t \in Threads, Answer(t)
    PROVE  DecisionInv'
<1> DEFINE claim == ClaimOf(call[t].challenge, binding[call[t].challenge])
<1>1. /\ call[t].at = "answer" /\ results' = results \cup {claim} /\ Goto(t, Idle)
      /\ UNCHANGED <<binding, invoked, pending, verified, record>>
  BY DEF Answer, ClaimOf, challengeVars
<1>2. claim \in Claims
  BY <1>1 DEF Claims
<1>3. Goes(t, Idle)
  BY <1>1 DEF Goes, Call
<1>4. /\ call' \in [Threads -> Call] /\ call'[t] = Idle
      /\ \A u \in Threads : u # t => call'[u] = call[u]
  BY <1>3, OthersStay DEF DecisionInv
<1>5. ChallengeInv' /\ ChallengesStay /\ RecordMoved
  BY <1>1, OtherStepsKeep DEF DecisionInv, Shape, RecordMoved
<1>6. Shape'
  BY <1>4, <1>5, RecordTyped DEF DecisionInv, Shape, ChallengeInv
<1>7. CallInv'
  BY <1>4, <1>5 DEF DecisionInv, CallInv, ChallengeInv, ChallengesStay, Idle
<1>8. Claims' \subseteq Claims
  <2>1. ASSUME NEW s \in Claims', s \notin results'
        PROVE  s \in Claims
    <3>1. PICK u \in Threads : /\ call'[u].at = "answer"
                               /\ s = ClaimOf(call'[u].challenge, binding'[call'[u].challenge])
      BY <2>1 DEF Claims
    <3>2. call[u] = call'[u]
      BY <1>4, <3>1 DEF Idle
    <3>3. QED
      BY <1>1, <3>1, <3>2 DEF Claims
  <2>2. results' \subseteq Claims
    BY <1>1, <1>2 DEF Claims
  <2>3. QED
    BY <2>1, <2>2
<1>9. QED
  BY <1>5, <1>6, <1>7, <1>8, DecisionsKeep, ClaimsKeep DEF DecisionInv

-----------------------------------------------------------------------------
(* The invariant.                                                           *)

LEMMA StartsRight == Init => DecisionInv
<1> SUFFICES ASSUME Init PROVE DecisionInv
  OBVIOUS
<1>1. /\ DOMAIN binding = {} /\ DOMAIN invoked = {} /\ pending = {} /\ verified = {}
      /\ call = [t \in Threads |-> Idle] /\ results = {}
      /\ record = [r \in Requests |-> [state |-> "pending", actor |-> NoOperator]]
  BY DEF Init, ChallengeInit
<1>2. \A t \in Threads : call[t].at = "idle"
  BY <1>1 DEF Idle
<1>3. Shape
  BY <1>1 DEF Shape, Call, RequestState
<1>4. CallInv
  BY <1>1, <1>2 DEF CallInv
<1>5. DecisionsVerified
  BY <1>1 DEF DecisionsVerified
<1>6. Claims = {}
  BY <1>1, <1>2 DEF Claims
<1>7. QED
  BY <1>3, <1>4, <1>5, <1>6 DEF DecisionInv, ClaimInv

LEMMA IdleGoes ==
    ASSUME NEW t \in Threads, Goto(t, Idle)
    PROVE  Goes(t, Idle)
BY DEF Goes, Call

LEMMA ManagerKeeps ==
    ASSUME DecisionInv, NEW t \in Threads, Manager(t), UNCHANGED decisionVars
    PROVE  DecisionInv'
<1>1. RecordMoved /\ results' = results
  BY DEF decisionVars, RecordMoved
<1>2. Idle.at = "idle" /\ Live \subseteq pending
  BY DEF Idle, Live
<1>3. ASSUME NEW c \in Challenges, Issue(t, c)
      PROVE  DecisionInv'
  BY <1>1, <1>2, <1>3, IssueKeeps, CallerKeeps DEF DecisionInv
<1>4. ASSUME NEW c \in Challenges, Reserve(t, c)
      PROVE  DecisionInv'
  <2>1. PICK state : state = [at |-> "verify", challenge |-> c]
    OBVIOUS
  <2>2. ChallengeInv' /\ ChallengesStay /\ Goes(t, state) /\ c \in DOMAIN binding
    BY <1>4, <2>1, ReserveKeeps DEF DecisionInv
  <2>3. state.at = "verify" /\ state.challenge \in DOMAIN binding'
    BY <2>1, <2>2 DEF ChallengesStay
  <2>4. QED
    BY <1>1, <2>2, <2>3, CallerKeeps
<1>5. CASE IssueFails(t)
  <2>1. /\ UNCHANGED <<binding, invoked, verified>> /\ pending' \subseteq pending /\ Goto(t, Idle)
    BY <1>2, <1>5 DEF IssueFails
  <2>2. ChallengeInv' /\ ChallengesStay
    BY <2>1, OtherStepsKeep DEF DecisionInv, Shape
  <2>3. QED
    BY <1>1, <1>2, <2>1, <2>2, IdleGoes, CallerKeeps
<1>6. CASE ReserveFails(t)
  <2>1. /\ UNCHANGED <<binding, invoked, verified, call>> /\ pending' \subseteq pending
    BY <1>2, <1>6 DEF ReserveFails
  <2>2. ChallengeInv' /\ ChallengesStay
    BY <2>1, OtherStepsKeep DEF DecisionInv, Shape
  <2>3. QED
    BY <1>1, <2>1, <2>2, NobodyMoves
<1>7. CASE VerifierAccepts(t)
  <2>1. /\ UNCHANGED <<binding, invoked, pending>> /\ call[t].at = "verify"
        /\ verified' = verified \cup {call[t].challenge}
        /\ Goto(t, [call[t] EXCEPT !.at = "record"])
    BY <1>7 DEF VerifierAccepts
  <2>2. call[t].challenge \in DOMAIN binding
    BY <2>1 DEF DecisionInv, CallInv
  <2>3. ChallengeInv' /\ ChallengesStay
    BY <2>1, <2>2, OtherStepsKeep DEF DecisionInv, Shape
  <2>4. PICK state : state = [at |-> "record", challenge |-> call[t].challenge]
    OBVIOUS
  <2>5. Goes(t, state)
    BY <2>1, <2>4, CallParts DEF DecisionInv, Goes
  <2>6. state.at = "record" /\ state.challenge = call[t].challenge
    BY <2>4
  <2>7. state.challenge \in DOMAIN binding' /\ state.challenge \in verified'
    BY <2>1, <2>2, <2>6
  <2>8. QED
    BY <1>1, <2>3, <2>5, <2>6, <2>7, CallerKeeps
<1>8. CASE VerifierRejects(t)
  <2>1. UNCHANGED <<binding, invoked, verified, pending>> /\ Goto(t, Idle)
    BY <1>8 DEF VerifierRejects, challengeVars
  <2>2. ChallengeInv' /\ ChallengesStay
    BY <2>1, OtherStepsKeep DEF DecisionInv, Shape
  <2>3. QED
    BY <1>1, <1>2, <2>1, <2>2, IdleGoes, CallerKeeps
<1>9. QED
  BY <1>3, <1>4, <1>5, <1>6, <1>7, <1>8 DEF Manager

\* The steps of the coordinator and of the store, but Decide and Answer.
LEMMA CoordinatorKeeps ==
    ASSUME DecisionInv, NEW t \in Threads, Coordinator(t)
    PROVE  DecisionInv'
<1> DEFINE ManagerStays == UNCHANGED <<binding, invoked, pending, verified, results>>
<1>1. ASSUME ManagerStays
      PROVE  ChallengeInv' /\ ChallengesStay /\ results' = results
  BY <1>1, OtherStepsKeep DEF DecisionInv, Shape
<1>2. ASSUME NEW r \in Requests, NEW d \in {"approve", "deny"}, NEW o \in Operators, BeginRead(t, r, d, o)
      PROVE  DecisionInv'
  <2>1. PICK state : state = [at |-> "issue", request |-> r, decision |-> d, operator |-> o]
    OBVIOUS
  <2>2. state \in Call /\ state.at = "issue"
    BY <2>1 DEF Call
  <2>3. ManagerStays /\ record' = record /\ Goto(t, state)
    BY <1>2, <2>1 DEF BeginRead, challengeVars
  <2>4. RecordMoved /\ Goes(t, state)
    BY <2>2, <2>3 DEF RecordMoved, Goes
  <2>5. QED
    BY <1>1, <2>2, <2>3, <2>4, CallerKeeps
<1>3. ASSUME NEW r \in Requests, BeginExpires(t, r)
      PROVE  DecisionInv'
  <2>1. ManagerStays /\ call' = call /\ Due(r) /\ Commit(r, ExpiredState(r))
    BY <1>3 DEF BeginExpires, challengeVars
  <2>2. RecordMoves(r, ExpiredState(r))
    BY <2>1 DEF Due, RecordMoves
  <2>3. QED
    BY <1>1, <2>1, <2>2, CommitMoves, NobodyMoves
<1>4. CASE DecideFails(t)
  <2> DEFINE c == call[t].challenge
             r == binding[c].request
  <2>1. /\ call[t].at = "record" /\ ManagerStays /\ Goto(t, Idle)
        /\ \/ record' = record
           \/ Due(r) /\ Commit(r, ExpiredState(r))
           \/ record[r].state = "pending" /\ Fails(r, DecidedState(binding[c]))
    BY <1>4 DEF DecideFails, challengeVars
  <2>2. c \in verified /\ r \in Requests
    BY <2>1 DEF DecisionInv, CallInv, Shape, Bound
  <2>3. RecordMoved
    <3> SUFFICES ASSUME record' # record PROVE RecordMoved
      BY DEF RecordMoved
    <3>1. PICK q \in Requests : \E s : RecordMoves(q, s) /\ (Commit(q, s) \/ Fails(q, s))
      BY <2>1, <2>2 DEF Due, RecordMoves
    <3>2. PICK s : RecordMoves(q, s) /\ (Commit(q, s) \/ Fails(q, s))
      BY <3>1
    <3>3. QED
      BY <3>2, CommitMoves
  <2>4. Idle.at = "idle"
    BY DEF Idle
  <2>5. QED
    BY <1>1, <2>1, <2>3, <2>4, IdleGoes, CallerKeeps
<1>5. QED
  BY <1>2, <1>3, <1>4, DecideKeeps, AnswerKeeps DEF Coordinator

LEMMA StepKeeps == DecisionInv /\ [Next]_vars => DecisionInv'
<1> SUFFICES ASSUME DecisionInv, [Next]_vars PROVE DecisionInv'
  OBVIOUS
<1>1. ASSUME UNCHANGED <<binding, invoked, verified, results>>, pending' \subseteq pending, RecordMoved,
             call' = call \/ call' = [t \in Threads |-> Idle]
      PROVE  DecisionInv'
  BY <1>1, OtherStepsKeep, NobodyMoves DEF DecisionInv, Shape
<1>2. CASE CloseManager /\ UNCHANGED decisionVars
  BY <1>1, <1>2 DEF CloseManager, decisionVars, RecordMoved
<1>3. ASSUME NEW t \in Times, SetClock(t), UNCHANGED decisionVars
      PROVE  DecisionInv'
  BY <1>1, <1>3 DEF SetClock, challengeVars, decisionVars, RecordMoved
<1>4. ASSUME NEW r \in Requests, Withdraw(r)
      PROVE  DecisionInv'
  <2>1. UNCHANGED <<binding, invoked, verified, results, pending, call>>
    BY <1>4 DEF Withdraw, challengeVars
  <2>2. PICK s : RecordMoves(r, s) /\ Commit(r, s)
    <3>1. CASE Due(r) /\ Commit(r, ExpiredState(r))
      BY <3>1 DEF Due, RecordMoves
    <3>2. CASE record[r].state = "pending" /\ Commit(r, [record[r] EXCEPT !.state = "cancelled"])
      BY <3>2 DEF RecordMoves
    <3>3. CASE record[r].state = "approved" /\ Commit(r, [record[r] EXCEPT !.state = "stale"])
      BY <3>3 DEF RecordMoves
    <3>4. QED
      BY <1>4, <3>1, <3>2, <3>3 DEF Withdraw
  <2>3. QED
    BY <1>1, <2>1, <2>2, CommitMoves
<1>5. CASE Restart
  BY <1>1, <1>5 DEF Restart, RecordMoved
<1>6. CASE UNCHANGED vars
  BY <1>1, <1>6 DEF vars, challengeVars, decisionVars, RecordMoved
<1>7. QED
  BY <1>2, <1>3, <1>4, <1>5, <1>6, ManagerKeeps, CoordinatorKeeps DEF Next

LEMMA DecisionInvHolds == Spec => []DecisionInv
BY StartsRight, StepKeeps, PTL DEF Spec

-----------------------------------------------------------------------------
(* The properties.                                                          *)

\* The verifier runs at most once for a challenge, however many callers race to
\* complete it (Consume deletes it before it calls the verifier).
THEOREM OneShotHolds == Spec => []OneShot
<1>1. DecisionInv => OneShot
  BY DEF DecisionInv, Shape, OneShot
<1>2. QED
  BY <1>1, DecisionInvHolds, PTL

\* Every recorded approval or denial was verified for exactly this request,
\* decision and operator, also when its commit failed with unknown effect
\* (Complete's call of Approve or Deny).
THEOREM DecisionsVerifiedHolds == Spec => []DecisionsVerified
<1>1. DecisionInv => DecisionsVerified
  BY DEF DecisionInv
<1>2. QED
  BY <1>1, DecisionInvHolds, PTL

\* A caller of Complete was told only of the recorded decision, and of opposing
\* challenges for a request only one succeeded.
THEOREM ResultsStandHolds == Spec => []ResultsStand
<1>1. DecisionInv => ResultsStand
  <2>1. results \subseteq Claims
    BY DEF Claims
  <2>2. QED
    BY <2>1 DEF DecisionInv, ClaimInv, Stands, ResultsStand
<1>2. QED
  BY <1>1, DecisionInvHolds, PTL

LEMMA StepSuppresses == Shape /\ [Next]_vars => CloseSuppressesStep
<1> SUFFICES ASSUME Shape, [Next]_vars, closed, NEW t \in Threads, call'[t].at = "record"
             PROVE  call[t].at = "record"
  BY DEF CloseSuppressesStep
<1>1. CASE call' = call
  BY <1>1
<1>2. ASSUME NEW u \in Threads, NEW state, Goto(u, state), state.at # "record"
      PROVE  call[t].at = "record"
  BY <1>2 DEF Shape, Goto
<1>3. Idle.at = "idle"
  BY DEF Idle
<1>4. ASSUME NEW u \in Threads, Manager(u)
      PROVE  call[t].at = "record"
  <2>1. call' = call \/ Goto(u, Idle)
    BY <1>4 DEF Manager, Issue, Reserve, IssueFails, ReserveFails, VerifierAccepts, VerifierRejects, Trusted
  <2>2. QED
    BY <1>1, <1>2, <1>3, <2>1
<1>5. ASSUME NEW u \in Threads, Coordinator(u)
      PROVE  call[t].at = "record"
  <2>1. ASSUME NEW r \in Requests, NEW d \in {"approve", "deny"}, NEW o \in Operators, BeginRead(u, r, d, o)
        PROVE  call[t].at = "record"
    BY <1>2, <2>1 DEF BeginRead
  <2>2. ASSUME NEW r \in Requests, BeginExpires(u, r)
        PROVE  call[t].at = "record"
    BY <1>1, <2>2 DEF BeginExpires
  <2>3. CASE Decide(u)
    <3>1. [call[u] EXCEPT !.at = "answer"].at # "record"
      BY <2>3, CallParts DEF Decide
    <3>2. QED
      BY <1>2, <2>3, <3>1 DEF Decide
  <2>4. CASE DecideFails(u) \/ Answer(u)
    BY <1>2, <1>3, <2>4 DEF DecideFails, Answer
  <2>5. QED
    BY <1>5, <2>1, <2>2, <2>3, <2>4 DEF Coordinator
<1>6. CASE Restart
  BY <1>3, <1>6 DEF Restart
<1>7. CASE call' = call \/ UNCHANGED vars
  BY <1>7 DEF vars
<1>8. QED
  BY <1>4, <1>5, <1>6, <1>7 DEF Next, CloseManager, SetClock, Withdraw

\* Once the manager is closed no caller gets past the verifier: the second look
\* under the mutex that Consume takes when the callback has returned.
THEOREM CloseSuppressesHolds == Spec => CloseSuppresses
<1>1. DecisionInv => Shape
  BY DEF DecisionInv
<1>2. QED
  BY <1>1, StepSuppresses, DecisionInvHolds, PTL DEF Spec, CloseSuppresses
=============================================================================
