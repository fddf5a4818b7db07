---------------------------- MODULE AcceptLoop ----------------------------
(***************************************************************************)
(* The accept loop of Server.Serve: brokerlistener has it, and proxybridge *)
(* has it again with the same steps.                                       *)
(*                                                                         *)
(* Three kinds of goroutines: the loop itself, a watcher that closes the   *)
(* listener when the caller's context is done, and one per connection.     *)
(* A slot is taken before Accept and given back by the connection; Serve   *)
(* waits for the watcher and for every connection before it returns.       *)
(*                                                                         *)
(* The goroutine of a connection is in the module that extends this one.   *)
(***************************************************************************)
EXTENDS Integers

CONSTANTS
    Conns,          \* connections alive at the same time, in any state
    MaxConcurrent   \* Rules.MaxConcurrent

ASSUME LoopConstants == MaxConcurrent \in Nat \ {0}

VARIABLES
    loop,           \* where the accept loop is
    watcher,        \* where the watcher is
    cancelled,      \* the caller's context is done
    runDone,        \* the context derived from it is done
    listenerOpen,
    watcherStop,    \* the channel that ends the watcher is closed
    slots,          \* tokens in the slots channel
    broken,         \* Accept failed while the listener was open
    failure,        \* the loop's variable of this name
    conn            \* the goroutine of each connection

loopVars == <<loop, watcherStop, failure, broken>>
contextVars == <<cancelled, runDone, watcher>>

None == [at |-> "none"]

LoopInit ==
    /\ loop = "slot" /\ watcher = "waiting"
    /\ cancelled = FALSE /\ runDone = FALSE
    /\ listenerOpen = TRUE /\ watcherStop = FALSE
    /\ slots = 0 /\ broken = FALSE /\ failure = FALSE
    /\ conn = [c \in Conns |-> None]

\* The owner cancels; the derived context follows.
Cancel ==
    /\ ~cancelled
    /\ cancelled' = TRUE
    /\ UNCHANGED <<loopVars, watcher, runDone, listenerOpen, slots, conn>>

Propagate ==
    /\ cancelled /\ ~runDone
    /\ runDone' = TRUE
    /\ UNCHANGED <<loopVars, cancelled, watcher, listenerOpen, slots, conn>>

WatcherCloses ==
    /\ watcher = "waiting" /\ cancelled
    /\ listenerOpen' = FALSE
    /\ watcher' = "closed"
    /\ UNCHANGED <<loopVars, cancelled, runDone, slots, conn>>

WatcherCancels ==
    /\ watcher = "closed"
    /\ runDone' = TRUE
    /\ watcher' = "done"
    /\ UNCHANGED <<loopVars, cancelled, listenerOpen, slots, conn>>

WatcherStops ==
    /\ watcher = "waiting" /\ watcherStop
    /\ watcher' = "done"
    /\ UNCHANGED <<loopVars, cancelled, runDone, listenerOpen, slots, conn>>

-----------------------------------------------------------------------------

Goes(at) == loop' = at /\ UNCHANGED <<watcherStop, failure, broken>>

TakeSlot ==
    /\ loop = "slot"
    /\ slots < MaxConcurrent
    /\ slots' = slots + 1
    /\ Goes("check")
    /\ UNCHANGED <<contextVars, listenerOpen, conn>>

StopWaiting ==
    /\ loop = "slot" /\ runDone
    /\ Goes("shutdown")
    /\ UNCHANGED <<contextVars, listenerOpen, slots, conn>>

Check ==
    /\ loop = "check"
    /\ IF runDone THEN slots' = slots - 1 /\ Goes("shutdown") ELSE UNCHANGED slots /\ Goes("accept")
    /\ UNCHANGED <<contextVars, listenerOpen, conn>>

\* Accept returns a connection, whose goroutine starts.
Accept(c, start) ==
    /\ loop = "accept" /\ listenerOpen
    /\ conn[c] = None
    /\ conn' = [conn EXCEPT ![c] = start]
    /\ Goes("slot")
    /\ UNCHANGED <<contextVars, listenerOpen, slots>>

\* Accept returns an error because the watcher has closed the listener.
AcceptClosed ==
    /\ loop = "accept" /\ ~listenerOpen
    /\ slots' = slots - 1
    /\ Goes("judge")
    /\ UNCHANGED <<contextVars, listenerOpen, conn>>

\* Accept returns an error, or no connection, on an open listener.
AcceptFails ==
    /\ loop = "accept" /\ listenerOpen
    /\ slots' = slots - 1
    /\ broken' = TRUE
    /\ loop' = "judge"
    /\ UNCHANGED <<contextVars, watcherStop, failure, listenerOpen, conn>>

\* Mutant: an error of Accept is always a failure of the server.
JudgeAlways ==
    /\ loop = "judge"
    /\ failure' = TRUE
    /\ loop' = "shutdown"
    /\ UNCHANGED <<contextVars, watcherStop, broken, listenerOpen, slots, conn>>

\* An error after the cancellation is not a failure.
Judge ==
    /\ loop = "judge"
    /\ failure' = ~cancelled
    /\ loop' = "shutdown"
    /\ UNCHANGED <<contextVars, watcherStop, broken, listenerOpen, slots, conn>>

\* closeListener, cancel and the end of the watcher: each is idempotent.
Shutdown ==
    /\ loop = "shutdown"
    /\ listenerOpen' = FALSE /\ runDone' = TRUE /\ watcherStop' = TRUE
    /\ loop' = "wait"
    /\ UNCHANGED <<cancelled, watcher, failure, broken, slots, conn>>

\* Mutant: Serve does not wait for the connections.
ReturnEarly ==
    /\ loop = "wait"
    /\ watcher = "done"
    /\ Goes("returned")
    /\ UNCHANGED <<contextVars, listenerOpen, slots, conn>>

Return ==
    /\ loop = "wait"
    /\ watcher = "done"
    /\ \A c \in Conns : conn[c] = None
    /\ Goes("returned")
    /\ UNCHANGED <<contextVars, listenerOpen, slots, conn>>

\* The last steps of a connection's goroutine: its sockets are closed, then
\* the slot is given back and the wait group told.
Hangup(c) ==
    /\ conn[c].at = "closing"
    /\ conn' = [conn EXCEPT ![c].at = "closed"]
    /\ UNCHANGED <<loopVars, contextVars, listenerOpen, slots>>

Release(c) ==
    /\ conn[c].at = "closed"
    /\ conn' = [conn EXCEPT ![c] = None]
    /\ slots' = slots - 1
    /\ UNCHANGED <<loopVars, contextVars, listenerOpen>>

\* The goroutine of connection c goes on.
Becomes(c, state) ==
    /\ conn' = [conn EXCEPT ![c] = state]
    /\ UNCHANGED <<loopVars, contextVars, listenerOpen, slots>>

LoopStep ==
    TakeSlot \/ StopWaiting \/ Check \/ AcceptClosed \/ Judge \/ Shutdown \/ Return

WatcherStep == WatcherCloses \/ WatcherCancels \/ WatcherStops

-----------------------------------------------------------------------------

\* Connections whose sockets are not closed yet.
Active == {c \in Conns : conn[c].at \notin {"none", "closed"}}

Verdict == IF loop # "returned" THEN "none" ELSE IF failure THEN "error" ELSE "ok"

Promise == INSTANCE DrainingServer WITH active <- Active, closed <- ~listenerOpen, verdict <- Verdict

\* Serve keeps the promise of a draining server: at most MaxConcurrent
\* connections, none left when it returns, an error only for a failed Accept
\* and success only after a cancellation, also when it finds its context done.
KeepsPromise == Promise!Spec
=============================================================================
