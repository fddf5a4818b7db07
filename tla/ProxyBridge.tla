--------------------------- MODULE ProxyBridge ---------------------------
(***************************************************************************)
(* The loopback proxy bridge of the launcher                               *)
(* (tools/dev-agent-harness/internal/proxybridge): the accept loop, and    *)
(* for each client a dial of the broker's socket and two copiers, one per  *)
(* direction.                                                              *)
(*                                                                         *)
(* A copier ends "ok" at end of stream, after it has passed the half-close *)
(* on; it ends "failed" by a fault of its own, and "cut" when its sockets  *)
(* were closed under it.  The program reports "cut" as failed too.         *)
(***************************************************************************)
EXTENDS AcceptLoop

Dirs == {"up", "down"}

vars == <<loopVars, contextVars, listenerOpen, slots, conn>>

Connection ==
    [at: {"dial", "bridge", "closing", "closed"},
     copier: [Dirs -> {"none", "copying", "ok", "failed", "cut"}],
     taken: SUBSET Dirs,     \* results the bridge has received
     failed: BOOLEAN]        \* bridgeStreams' variable: both sockets are closed

Start == [at |-> "dial", copier |-> [d \in Dirs |-> "none"], taken |-> {}, failed |-> FALSE]

\* New has opened the listener; Serve has not been called.
Init ==
    /\ loop = "new" /\ watcher = "done"
    /\ cancelled = FALSE /\ runDone = FALSE
    /\ listenerOpen = TRUE /\ watcherStop = FALSE
    /\ slots = 0 /\ broken = FALSE /\ failure = FALSE
    /\ conn = [c \in Conns |-> None]

Serve ==
    /\ loop = "new" /\ ~cancelled
    /\ watcher' = "waiting"
    /\ Goes("slot")
    /\ UNCHANGED <<cancelled, runDone, listenerOpen, slots, conn>>

\* The context is done already.
ServeCancelled ==
    /\ loop = "new" /\ cancelled
    /\ listenerOpen' = FALSE
    /\ Goes("returned")
    /\ UNCHANGED <<contextVars, slots, conn>>

-----------------------------------------------------------------------------
(* One connection.                                                          *)

Dialled(c) ==
    /\ conn[c].at = "dial"
    /\ Becomes(c, [conn[c] EXCEPT !.at = "bridge", !.copier = [d \in Dirs |-> "copying"]])

\* An error, a panic, the timeout or the end of the context.
DialFails(c) == conn[c].at = "dial" /\ Becomes(c, [conn[c] EXCEPT !.at = "closing"])

Copying(c, d) == conn[c].at = "bridge" /\ conn[c].copier[d] = "copying"

\* The source ended and the half-close reached the destination.
CopyEnds(c, d) ==
    /\ Copying(c, d) /\ ~conn[c].failed
    /\ Becomes(c, [conn[c] EXCEPT !.copier[d] = "ok"])

\* A read, a write or the half-close failed.
CopyFails(c, d) ==
    /\ Copying(c, d) /\ ~conn[c].failed
    /\ Becomes(c, [conn[c] EXCEPT !.copier[d] = "failed"])

\* The sockets were closed.
CopyCut(c, d) ==
    /\ Copying(c, d) /\ conn[c].failed
    /\ Becomes(c, [conn[c] EXCEPT !.copier[d] = "cut"])

Result(c, d) ==
    conn[c].at = "bridge" /\ d \notin conn[c].taken /\ conn[c].copier[d] \in {"ok", "failed", "cut"}

\* Mutant: any result closes both sockets.
TakeAndClose(c, d) ==
    /\ Result(c, d)
    /\ Becomes(c, [conn[c] EXCEPT !.taken = @ \cup {d}, !.failed = TRUE])

\* Mutant: a failed result closes nothing.
TakeAndWait(c, d) ==
    /\ Result(c, d)
    /\ Becomes(c, [conn[c] EXCEPT !.taken = @ \cup {d}])

\* A failed direction closes both sockets if the other one is still awaited.
Take(c, d) ==
    /\ Result(c, d)
    /\ LET awaited == Dirs \ (conn[c].taken \cup {d})
       IN  Becomes(c, [conn[c] EXCEPT
               !.taken = @ \cup {d},
               !.failed = @ \/ (conn[c].copier[d] # "ok" /\ awaited # {})])

\* Mutant: the context is no longer looked at after the first result.
CancelBothOnly(c) ==
    /\ conn[c].at = "bridge" /\ runDone /\ ~conn[c].failed
    /\ conn[c].taken = {}
    /\ Becomes(c, [conn[c] EXCEPT !.failed = TRUE])

CancelBridge(c) ==
    /\ conn[c].at = "bridge" /\ runDone /\ ~conn[c].failed
    /\ conn[c].taken # Dirs
    /\ Becomes(c, [conn[c] EXCEPT !.failed = TRUE])

BridgeEnds(c) ==
    /\ conn[c].at = "bridge" /\ conn[c].taken = Dirs
    /\ Becomes(c, [conn[c] EXCEPT !.at = "closing"])

\* Steps that no peer can withhold.  A copy between idle peers lasts.
ConnectionStep(c) ==
    \/ Dialled(c) \/ DialFails(c) \/ CancelBridge(c) \/ BridgeEnds(c)
    \/ Hangup(c) \/ Release(c)
    \/ \E d \in Dirs : CopyCut(c, d) \/ Take(c, d)

PeerStep(c) == \E d \in Dirs : CopyEnds(c, d) \/ CopyFails(c, d)

Next ==
    \/ Serve \/ ServeCancelled
    \/ Cancel \/ Propagate \/ WatcherStep \/ LoopStep \/ AcceptFails
    \/ \E c \in Conns : Accept(c, Start) \/ ConnectionStep(c) \/ PeerStep(c)
    \/ loop = "returned" /\ UNCHANGED vars

Spec ==
    /\ Init /\ [][Next]_vars
    /\ WF_vars(Serve \/ ServeCancelled)
    /\ WF_vars(Propagate) /\ WF_vars(WatcherStep) /\ WF_vars(LoopStep)
    /\ \A c \in Conns : WF_vars(ConnectionStep(c))

-----------------------------------------------------------------------------
(* Properties.                                                              *)

\* A direction is cut only because the other one failed or the bridge was
\* told to stop: the end of one direction never truncates the other.
CutForCause ==
    \A c \in Conns : conn[c].at \in {"bridge", "closing"} /\ (\E d \in Dirs : conn[c].copier[d] = "cut") =>
        runDone \/ \E d \in Dirs : conn[c].copier[d] = "failed"

\* A cancelled or broken bridge returns, although its peers may be silent.
ServeReturns == (cancelled \/ broken) ~> loop = "returned"

\* A connection with a failed direction ends, although its peers may be
\* silent, and gives its slot back.
FailureEnds ==
    \A c \in Conns :
        (conn[c].at = "bridge" /\ \E d \in Dirs : conn[c].copier[d] = "failed") ~> conn[c] = None
=============================================================================
