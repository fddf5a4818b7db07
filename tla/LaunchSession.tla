-------------------------- MODULE LaunchSession --------------------------
(***************************************************************************)
(* One session of the launcher                                             *)
(* (tools/dev-agent-harness/internal/launchsession, with controlclient for *)
(* the calls): it obtains the proxy CA and two leases from the broker,     *)
(* writes the CA into a directory of its own, starts the proxy bridge and  *)
(* the child, waits for the first of child, bridge and caller to end, and  *)
(* undoes all of it in the opposite order.                                 *)
(*                                                                         *)
(* The bridge is the promise DrainingServer that ProxyBridge implements.   *)
(* The broker is what its control endpoint shows of a lease: a call may    *)
(* fail before, while or after the broker acts on it, and a request the    *)
(* client has given up may still be served.                                *)
(***************************************************************************)
EXTENDS Integers, FiniteSets

CONSTANTS Conns, MaxConcurrent   \* of the bridge

Handles == {"github", "openAI"}

VARIABLES
    at,               \* where run is
    cancelled,        \* the caller's context is done
    result,           \* what run will return
    cleanupFailed,    \* owner.localCleanupFail
    directory,        \* the session's directory with the CA
    learnt,           \* handles the launcher has received
    lease,            \* the broker's view of each handle
    revocation,       \* the launcher's request to revoke it
    child,
    started,          \* the bridge's goroutine is started
    consumed,         \* its result has been received: owner.bridgeDone is nil
    active, bridgeCancelled, closed, broken, verdict   \* see DrainingServer

bridgeVars == <<active, bridgeCancelled, closed, broken, verdict>>
brokerVars == <<lease, revocation>>
ownVars == <<at, result, cleanupFailed, directory, learnt, child, started, consumed>>
vars == <<ownVars, cancelled, brokerVars, bridgeVars>>

Bridge == INSTANCE DrainingServer WITH cancelled <- bridgeCancelled

Init ==
    /\ at = "proxyCA" /\ cancelled = FALSE
    /\ result = "ordinary" /\ cleanupFailed = FALSE
    /\ directory = "none" /\ learnt = {}
    /\ lease = [h \in Handles |-> "none"]
    /\ revocation = [h \in Handles |-> "none"]
    /\ child = "none" /\ started = FALSE /\ consumed = FALSE
    /\ Bridge!Init

Cancel == ~cancelled /\ cancelled' = TRUE /\ UNCHANGED <<ownVars, brokerVars, bridgeVars>>

-----------------------------------------------------------------------------
(* The broker: it serves a request at any time after it was sent, or never. *)

Grant(h) == lease[h] = "asked" /\ lease' = [lease EXCEPT ![h] = "alive"] /\ UNCHANGED revocation

Refuse(h) == lease[h] = "asked" /\ lease' = [lease EXCEPT ![h] = "over"] /\ UNCHANGED revocation

\* The TTL, the last use, or a restart of the broker.
Expire(h) == lease[h] = "alive" /\ lease' = [lease EXCEPT ![h] = "over"] /\ UNCHANGED revocation

Withdraw(h) ==
    /\ revocation[h] = "asked"
    /\ revocation' = [revocation EXCEPT ![h] = "served"]
    /\ lease' = [lease EXCEPT ![h] = "over"]

BrokerStep ==
    /\ \E h \in Handles : Grant(h) \/ Refuse(h) \/ Expire(h) \/ Withdraw(h)
    /\ UNCHANGED <<ownVars, cancelled, bridgeVars>>

-----------------------------------------------------------------------------
(* The bridge and the child.                                                *)

BridgeUnchanged == UNCHANGED <<ownVars, cancelled, brokerVars>>

\* The steps that ServeReturns of ProxyBridge promises: a bridge that was
\* cancelled or broke closes, loses its connections and returns.
BridgeCloses == started /\ ~closed /\ Bridge!Close /\ BridgeUnchanged

BridgeLoses(c) == started /\ (bridgeCancelled \/ broken) /\ Bridge!Leave(c) /\ BridgeUnchanged

BridgeReturns == started /\ Bridge!Return /\ BridgeUnchanged

BridgeStep ==
    /\ started
    /\ Bridge!Break \/ \E c \in Conns : Bridge!Join(c) \/ Bridge!Leave(c)
    /\ BridgeUnchanged

ChildBecomes(state) ==
    /\ child' = state
    /\ UNCHANGED <<at, result, cleanupFailed, directory, learnt, started, consumed>>
    /\ UNCHANGED <<cancelled, brokerVars, bridgeVars>>

\* It exits by itself, with any status, or a signal ends it.
ChildEnds == child = "running" /\ \E how \in {"exited", "signalled"} : ChildBecomes(how)

\* Stop has killed it.
ChildDies == child = "stopping" /\ ChildBecomes("signalled")

-----------------------------------------------------------------------------
(* The launcher.                                                            *)

Goto(next) == at' = next /\ UNCHANGED <<bridgeVars, cancelled>>

Fail == result' = "failure"

\* Every way out leads through cleanup; without the leases it does nothing.
FailWith(next) == Goto(next) /\ Fail

\* After a successful call the context decides.
Proceed(next) ==
    /\ Goto(IF cancelled THEN "closeBridge" ELSE next)
    /\ result' = IF cancelled THEN "failure" ELSE result

ProxyCA ==
    /\ at = "proxyCA"
    /\ Proceed("issueGitHub") \/ FailWith("closeBridge")
    /\ UNCHANGED <<cleanupFailed, directory, learnt, child, started, consumed, brokerVars>>

IssueAt == [github |-> "issueGitHub", openAI |-> "issueOpenAI"]
AfterIssue == [github |-> "issueOpenAI", openAI |-> "createCA"]

SendIssue(h) ==
    /\ at = IssueAt[h] /\ lease[h] = "none"
    /\ lease' = [lease EXCEPT ![h] = "asked"]
    /\ UNCHANGED <<ownVars, cancelled, revocation, bridgeVars>>

Issued(h) ==
    /\ at = IssueAt[h] /\ lease[h] = "alive"
    /\ learnt' = learnt \cup {h}
    /\ Proceed(AfterIssue[h])
    /\ UNCHANGED <<cleanupFailed, directory, child, started, consumed, brokerVars>>

\* The dial, the request, the answer or the deadline of the call failed.
IssueFails(h) ==
    /\ at = IssueAt[h]
    /\ FailWith("closeBridge")
    /\ UNCHANGED <<cleanupFailed, directory, learnt, child, started, consumed, brokerVars>>

CreateCA ==
    /\ at = "createCA"
    /\ \/ directory' = "present" /\ Goto("newBridge") /\ UNCHANGED result
       \/ directory' = "present" /\ FailWith("closeBridge")
       \/ UNCHANGED directory /\ FailWith("closeBridge")
    /\ UNCHANGED <<cleanupFailed, learnt, child, started, consumed, brokerVars>>

NewBridge ==
    /\ at = "newBridge"
    /\ \/ started' = TRUE /\ Goto("look") /\ UNCHANGED result
       \/ UNCHANGED started /\ FailWith("closeBridge")
    /\ UNCHANGED <<cleanupFailed, directory, learnt, child, consumed, brokerVars>>

\* The bridge may have ended already; then the context is checked.
Look ==
    /\ at = "look"
    /\ IF verdict # "none" THEN consumed' = TRUE /\ FailWith("closeBridge")
       ELSE UNCHANGED consumed /\ Proceed("start")
    /\ UNCHANGED <<cleanupFailed, directory, learnt, child, started, brokerVars>>

\* The environment, the process and its start.
StartChild ==
    /\ at = "start"
    /\ \/ child' = "running" /\ Goto("supervise") /\ UNCHANGED result
       \/ UNCHANGED child /\ FailWith("closeBridge")
    /\ UNCHANGED <<cleanupFailed, directory, learnt, started, consumed, brokerVars>>

ChildOver == child \in {"exited", "signalled"}

Ordinary == result' = IF child = "exited" THEN result ELSE "failure"

ChildFirst ==
    /\ at = "supervise" /\ ChildOver
    /\ Goto("closeBridge") /\ Ordinary
    /\ UNCHANGED <<cleanupFailed, directory, learnt, child, started, consumed, brokerVars>>

\* process.Stop
Stop == child' = IF child = "running" THEN "stopping" ELSE child

\* Mutant: the child is waited for but not stopped.
BridgeLossAwaited ==
    /\ at = "supervise" /\ verdict # "none"
    /\ consumed' = TRUE
    /\ FailWith("stop")
    /\ UNCHANGED <<cleanupFailed, directory, learnt, child, started, brokerVars>>

BridgeFirst ==
    /\ at = "supervise" /\ verdict # "none"
    /\ consumed' = TRUE
    /\ Stop /\ FailWith("stop")
    /\ UNCHANGED <<cleanupFailed, directory, learnt, started, brokerVars>>

\* Mutant: the child is not stopped when the caller cancels.
CancelWithoutStop ==
    /\ at = "supervise" /\ cancelled
    /\ FailWith("stop")
    /\ UNCHANGED <<cleanupFailed, directory, learnt, child, started, consumed, brokerVars>>

CancelFirst ==
    /\ at = "supervise" /\ cancelled
    /\ Stop /\ FailWith("stop")
    /\ UNCHANGED <<cleanupFailed, directory, learnt, started, consumed, brokerVars>>

\* Mutant: the child is stopped but not waited for.
StoppedUnawaited ==
    /\ at = "stop"
    /\ Goto("closeBridge")
    /\ UNCHANGED <<result, cleanupFailed, directory, learnt, child, started, consumed, brokerVars>>

Stopped ==
    /\ at = "stop" /\ ChildOver
    /\ Goto("closeBridge")
    /\ UNCHANGED <<result, cleanupFailed, directory, learnt, child, started, consumed, brokerVars>>

-----------------------------------------------------------------------------
(* cleanup                                                                  *)

CloseBridge ==
    /\ at = "closeBridge"
    /\ IF started THEN bridgeCancelled' = TRUE /\ at' = "awaitBridge"
       ELSE UNCHANGED bridgeCancelled /\ at' = "removeCA"
    /\ UNCHANGED <<cancelled, active, closed, broken, verdict, brokerVars>>
    /\ UNCHANGED <<result, cleanupFailed, directory, learnt, child, started, consumed>>

\* Mutant: the bridge is cancelled but not drained.
DrainLater ==
    /\ at = "awaitBridge"
    /\ consumed' = TRUE /\ UNCHANGED cleanupFailed
    /\ Goto("removeCA")
    /\ UNCHANGED <<result, directory, learnt, child, started, brokerVars>>

AwaitBridge ==
    /\ at = "awaitBridge" /\ (verdict # "none" \/ consumed)
    /\ consumed' = TRUE
    /\ cleanupFailed' = (cleanupFailed \/ (~consumed /\ verdict = "error"))
    /\ Goto("removeCA")
    /\ UNCHANGED <<result, directory, learnt, child, started, brokerVars>>

\* Mutant: an error of the removal is ignored.
RemoveCAQuietly ==
    /\ at = "removeCA"
    /\ \/ directory' = IF directory = "present" THEN "removed" ELSE directory
       \/ UNCHANGED directory
    /\ UNCHANGED cleanupFailed
    /\ Goto("revokeOpenAI")
    /\ UNCHANGED <<result, learnt, child, started, consumed, brokerVars>>

RemoveCA ==
    /\ at = "removeCA"
    /\ \/ /\ directory' = IF directory = "present" THEN "removed" ELSE directory
          /\ UNCHANGED cleanupFailed
       \/ directory = "present" /\ cleanupFailed' = TRUE /\ UNCHANGED directory
    /\ Goto("revokeOpenAI")
    /\ UNCHANGED <<result, learnt, child, started, consumed, brokerVars>>

RevokeAt == [openAI |-> "revokeOpenAI", github |-> "revokeGitHub"]
AfterRevoke == [openAI |-> "revokeGitHub", github |-> "finish"]

SendRevoke(h) ==
    /\ at = RevokeAt[h] /\ h \in learnt /\ revocation[h] = "none"
    /\ revocation' = [revocation EXCEPT ![h] = "asked"]
    /\ UNCHANGED <<ownVars, cancelled, lease, bridgeVars>>

\* The call ends, whatever became of the request; its error is ignored.
RevokeEnds(h) ==
    /\ at = RevokeAt[h]
    /\ revocation' = [revocation EXCEPT
           ![h] = IF h \in learnt /\ @ = "none" THEN "failed" ELSE @]
    /\ Goto(AfterRevoke[h])
    /\ UNCHANGED <<result, cleanupFailed, directory, learnt, child, started, consumed, lease>>

Finish ==
    /\ at = "finish"
    /\ result' = IF cleanupFailed THEN "failure" ELSE result
    /\ Goto("returned")
    /\ UNCHANGED <<cleanupFailed, directory, learnt, child, started, consumed, brokerVars>>

\* Every blocking call of the launcher ends: the control calls have
\* deadlines, and the others are local.
LauncherStep ==
    \/ ProxyCA \/ CreateCA \/ NewBridge \/ Look \/ StartChild
    \/ ChildFirst \/ BridgeFirst \/ CancelFirst \/ Stopped
    \/ CloseBridge \/ AwaitBridge \/ RemoveCA \/ Finish
    \/ \E h \in Handles : Issued(h) \/ IssueFails(h) \/ RevokeEnds(h)

Next ==
    \/ Cancel \/ LauncherStep
    \/ \E h \in Handles : SendIssue(h) \/ SendRevoke(h)
    \/ BrokerStep \/ BridgeStep \/ BridgeCloses \/ BridgeReturns
    \/ ChildEnds \/ ChildDies
    \/ at = "returned" /\ UNCHANGED vars

Spec ==
    /\ Init /\ [][Next]_vars
    /\ WF_vars(LauncherStep) /\ WF_vars(ChildDies)
    /\ WF_vars(BridgeCloses) /\ WF_vars(BridgeReturns)
    /\ \A c \in Conns : WF_vars(BridgeLoses(c))

-----------------------------------------------------------------------------
(* Properties.                                                              *)

ChildAlive == child \in {"running", "stopping"}

\* While the child lives the launcher takes back nothing it has lent it: the
\* CA, both leases and the bridge, unless that broke by itself.
ChildEquipped ==
    ChildAlive =>
        /\ directory = "present" /\ started /\ ~bridgeCancelled
        /\ learnt = Handles /\ \A h \in Handles : revocation[h] = "none"

\* No request through the bridge is cut by a revocation of the launcher.
RevokedLast == (\E h \in Handles : revocation[h] # "none") => active = {}

\* A session leaves no child, no bridge, no handle it has learnt without an
\* attempt to revoke it and, unless it reports a failure, no directory; an
\* ordinary status is the child's own, with the bridge intact.
CleanReturn ==
    at = "returned" =>
        /\ ~ChildAlive /\ (started => verdict # "none")
        /\ \A h \in learnt : revocation[h] # "none"
        /\ result = "ordinary" => directory = "removed" /\ child = "exited" /\ verdict = "ok"

\* A cancelled session returns, whatever the child, the broker and the
\* bridge's clients do.
SessionReturns == cancelled ~> at = "returned"

\* A child is not left running without its bridge.
BridgeLossStops == (child = "running" /\ verdict # "none") ~> at = "returned"
=============================================================================
