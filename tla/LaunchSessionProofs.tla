------------------------ MODULE LaunchSessionProofs ------------------------
(***************************************************************************)
(* Proofs about LaunchSession: its three safety invariants, for any number *)
(* of connections of the bridge and any limit.                             *)
(*                                                                         *)
(* None of them is inductive: each follows from where run is. SessionInv   *)
(* says what the launcher has acquired when it gets to a place, what it    *)
(* still holds there while it cleans up, and what the result then promises.*)
(***************************************************************************)
EXTENDS LaunchSession, TLAPS

Acquiring == {"proxyCA", "issueGitHub", "issueOpenAI", "createCA", "newBridge", "look", "start"}
Running == {"supervise", "stop"}
Draining == {"closeBridge", "awaitBridge"}
Revoking == {"revokeOpenAI", "revokeGitHub", "finish", "returned"}

Shape ==
    /\ at \in Acquiring \cup Running \cup Draining \cup {"removeCA"} \cup Revoking
    /\ result \in {"ordinary", "failure"} /\ cleanupFailed \in BOOLEAN
    /\ learnt \subseteq Handles
    /\ revocation \in [Handles -> {"none", "asked", "served", "failed"}]
    /\ verdict \in {"none", "ok", "error"}

\* The bridge runs only when it was started and is over with its verdict.
BridgeInv ==
    /\ ~started => active = {} /\ verdict = "none"
    /\ verdict # "none" => closed /\ active = {}
    /\ bridgeCancelled => at \notin Acquiring \cup Running \cup {"closeBridge"}
    /\ consumed => verdict # "none"
    /\ started /\ at \in {"removeCA"} \cup Revoking => verdict # "none"

\* What run has got, in the order in which it gets it.
AcquiredInv ==
    /\ at = "issueOpenAI" => "github" \in learnt
    /\ at \in {"createCA", "newBridge", "look", "start"} \cup Running => learnt = Handles
    /\ at \in {"newBridge", "look", "start"} \cup Running => directory = "present"
    /\ at \in {"look", "start"} \cup Running => started
    /\ ChildAlive => at \in Running

\* Who is asked to take back what, and when.
RevokedInv ==
    /\ at \notin Revoking => \A h \in Handles : revocation[h] = "none"
    /\ at \in {"revokeGitHub", "finish", "returned"} /\ "openAI" \in learnt => revocation["openAI"] # "none"
    /\ at \in {"finish", "returned"} /\ "github" \in learnt => revocation["github"] # "none"

\* A result that is still ordinary is the child's, and nothing was lost.
ResultInv ==
    /\ consumed /\ at \in Acquiring \cup Running \cup Draining => result = "failure"
    /\ at = "stop" => result = "failure"
    /\ result = "ordinary" /\ at \in Draining \cup {"removeCA"} =>
           child = "exited" /\ directory = "present" /\ started
    /\ result = "ordinary" /\ at = "removeCA" => cleanupFailed \/ verdict = "ok"
    /\ result = "ordinary" /\ at \in Revoking =>
           child = "exited" /\ (cleanupFailed \/ (directory = "removed" /\ verdict = "ok"))
    /\ result = "ordinary" /\ at = "returned" => ~cleanupFailed

SessionInv == Shape /\ BridgeInv /\ AcquiredInv /\ RevokedInv /\ ResultInv


USE DEF Acquiring, Running, Draining, Revoking, Shape, BridgeInv, AcquiredInv, RevokedInv, ResultInv, SessionInv,
    ChildAlive, Handles

LEMMA StartsRight == Init => SessionInv
BY DEF Init, Bridge!Init

-----------------------------------------------------------------------------
(* Everything that is not the launcher.                                     *)

LEMMA BrokerKeeps ==
    ASSUME SessionInv, Cancel \/ BrokerStep \/ \E h \in Handles : SendIssue(h) \/ SendRevoke(h)
    PROVE  SessionInv'
<1>1. CASE Cancel
  BY <1>1 DEF Cancel, ownVars, brokerVars, bridgeVars
<1>2. CASE BrokerStep
  BY <1>2 DEF BrokerStep, Grant, Refuse, Expire, Withdraw, ownVars, bridgeVars
<1>3. CASE \E h \in Handles : SendIssue(h)
  BY <1>3 DEF SendIssue, ownVars, bridgeVars
<1>4. CASE \E h \in Handles : SendRevoke(h)
  BY <1>4 DEF SendRevoke, RevokeAt, ownVars, bridgeVars
<1>5. QED
  BY <1>1, <1>2, <1>3, <1>4

LEMMA BridgeKeeps ==
    ASSUME SessionInv, BridgeStep \/ BridgeCloses \/ BridgeReturns
    PROVE  SessionInv'
<1> USE DEF BridgeUnchanged, ownVars, brokerVars
<1>1. CASE started /\ Bridge!Break /\ BridgeUnchanged
  BY <1>1 DEF Bridge!Break
<1>2. CASE started /\ (\E c \in Conns : Bridge!Join(c) \/ Bridge!Leave(c)) /\ BridgeUnchanged
  BY <1>2 DEF Bridge!Join, Bridge!Leave
<1>3. CASE BridgeCloses
  BY <1>3 DEF BridgeCloses, Bridge!Close
<1>4. CASE BridgeReturns
  BY <1>4 DEF BridgeReturns, Bridge!Return
<1>5. QED
  BY <1>1, <1>2, <1>3, <1>4 DEF BridgeStep

LEMMA ChildKeeps ==
    ASSUME SessionInv, ChildEnds \/ ChildDies
    PROVE  SessionInv'
<1>1. PICK state \in {"exited", "signalled"} : ChildBecomes(state) /\ ChildAlive
  BY DEF ChildEnds, ChildDies
<1>2. QED
  BY <1>1 DEF ChildBecomes, brokerVars, bridgeVars

-----------------------------------------------------------------------------
(* The launcher acquires.                                                   *)

LEMMA AcquiringKeeps ==
    ASSUME SessionInv,
           \/ ProxyCA \/ CreateCA \/ NewBridge \/ Look \/ StartChild
           \/ \E h \in Handles : Issued(h) \/ IssueFails(h)
    PROVE  SessionInv'
<1> USE DEF Goto, Fail, FailWith, Proceed, brokerVars, bridgeVars
<1>1. CASE ProxyCA
  BY <1>1 DEF ProxyCA
<1>2. CASE \E h \in Handles : Issued(h)
  <2>1. CASE Issued("github")
    <3>1. at = "issueGitHub" /\ learnt' = learnt \cup {"github"}
      BY <2>1 DEF Issued, IssueAt
    <3>2. \/ at' = "closeBridge" /\ result' = "failure"
          \/ at' = "issueOpenAI" /\ result' = result
      BY <2>1 DEF Issued, AfterIssue
    <3>3. QED
      BY <2>1, <3>1, <3>2 DEF Issued
  <2>2. CASE Issued("openAI")
    <3>1. at = "issueOpenAI" /\ learnt' = learnt \cup {"openAI"}
      BY <2>2 DEF Issued, IssueAt
    <3>2. \/ at' = "closeBridge" /\ result' = "failure"
          \/ at' = "createCA" /\ result' = result
      BY <2>2 DEF Issued, AfterIssue
    <3>3. QED
      BY <2>2, <3>1, <3>2 DEF Issued
  <2>3. QED
    BY <1>2, <2>1, <2>2
<1>3. CASE \E h \in Handles : IssueFails(h)
  BY <1>3 DEF IssueFails, IssueAt
<1>4. CASE CreateCA
  BY <1>4 DEF CreateCA
<1>5. CASE NewBridge
  BY <1>5 DEF NewBridge
<1>6. CASE Look
  BY <1>6 DEF Look
<1>7. CASE StartChild
  BY <1>7 DEF StartChild
<1>8. QED
  BY <1>1, <1>2, <1>3, <1>4, <1>5, <1>6, <1>7

LEMMA SupervisingKeeps ==
    ASSUME SessionInv, ChildFirst \/ BridgeFirst \/ CancelFirst \/ Stopped
    PROVE  SessionInv'
<1> USE DEF Goto, Fail, FailWith, ChildOver, brokerVars, bridgeVars
<1>1. CASE ChildFirst
  BY <1>1 DEF ChildFirst, Ordinary
<1>2. CASE BridgeFirst
  BY <1>2 DEF BridgeFirst, Stop
<1>3. CASE CancelFirst
  BY <1>3 DEF CancelFirst, Stop
<1>4. CASE Stopped
  BY <1>4 DEF Stopped
<1>5. QED
  BY <1>1, <1>2, <1>3, <1>4

-----------------------------------------------------------------------------
(* The launcher cleans up.                                                  *)

LEMMA CleanupKeeps ==
    ASSUME SessionInv,
           CloseBridge \/ AwaitBridge \/ RemoveCA \/ Finish \/ \E h \in Handles : RevokeEnds(h)
    PROVE  SessionInv'
<1> USE DEF Goto, brokerVars, bridgeVars
<1>1. CASE CloseBridge
  BY <1>1 DEF CloseBridge
<1>2. CASE AwaitBridge
  BY <1>2 DEF AwaitBridge
<1>3. CASE RemoveCA
  BY <1>3 DEF RemoveCA
<1>4. CASE \E h \in Handles : RevokeEnds(h)
  BY <1>4 DEF RevokeEnds, RevokeAt, AfterRevoke
<1>5. CASE Finish
  BY <1>5 DEF Finish
<1>6. QED
  BY <1>1, <1>2, <1>3, <1>4, <1>5

HIDE DEF Acquiring, Running, Draining, Revoking, Shape, BridgeInv, AcquiredInv, RevokedInv, ResultInv, SessionInv,
    ChildAlive, Handles

LEMMA SessionInvHolds == Spec => []SessionInv
<1>1. ASSUME SessionInv, [Next]_vars PROVE SessionInv'
  <2>1. CASE UNCHANGED vars
    BY <1>1, <2>1
       DEF vars, ownVars, brokerVars, bridgeVars, SessionInv, Shape, BridgeInv, AcquiredInv, RevokedInv,
           ResultInv, ChildAlive
  <2>2. CASE Next
    BY <1>1, <2>2, BrokerKeeps, BridgeKeeps, ChildKeeps, AcquiringKeeps, SupervisingKeeps, CleanupKeeps, <2>1
       DEF Next, LauncherStep
  <2>3. QED
    BY <1>1, <2>1, <2>2
<1>2. QED
  BY <1>1, StartsRight, PTL DEF Spec

-----------------------------------------------------------------------------
(* The theorems.                                                            *)

\* The child's CA, leases and bridge are there as long as it lives: run gets
\* to supervise with all of them and gives none back before the child is over.
THEOREM ChildEquippedHolds == Spec => []ChildEquipped
<1>1. SessionInv => ChildEquipped
  BY DEF ChildEquipped, SessionInv, Shape, AcquiredInv, BridgeInv, RevokedInv, Acquiring, Running, Draining, Revoking, ChildAlive
<1>2. QED
  BY <1>1, SessionInvHolds, PTL

\* cleanup revokes a lease only when the bridge has returned, and the bridge
\* returns only without connections.
THEOREM RevokedLastHolds == Spec => []RevokedLast
<1>1. SessionInv => RevokedLast
  BY DEF RevokedLast, SessionInv, Shape, BridgeInv, RevokedInv, Revoking
<1>2. QED
  BY <1>1, SessionInvHolds, PTL

\* What run returns and what it leaves behind, on each of its ways out.
THEOREM CleanReturnHolds == Spec => []CleanReturn
<1>1. SessionInv => CleanReturn
  BY DEF CleanReturn, SessionInv, BridgeInv, AcquiredInv, RevokedInv, ResultInv, Shape, Handles, Acquiring, Running, Draining, Revoking, ChildAlive
<1>2. QED
  BY <1>1, SessionInvHolds, PTL
=============================================================================
