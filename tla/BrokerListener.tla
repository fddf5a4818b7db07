-------------------------- MODULE BrokerListener --------------------------
(***************************************************************************)
(* The broker's listener (tools/dev-agent-harness/internal/brokerlistener):*)
(* the accept loop, and for each connection the binding of its peer to a   *)
(* subject and then one session (ConnectSession).                          *)
(***************************************************************************)
EXTENDS AcceptLoop

listenerVars == <<loopVars, contextVars, listenerOpen, slots, conn>>

Session == [at: {"none", "bind", "session", "closing", "closed"}]

ListenerInit == LoopInit

\* The peer is bound to a valid subject and the session starts.
Bind(c) == conn[c].at = "bind" /\ Becomes(c, [at |-> "session"])

\* No valid subject, an error or a panic.
BindFails(c) == conn[c].at = "bind" /\ Becomes(c, [at |-> "closing"])

\* Mutant: a session never ends by itself.
SessionEndsCancelled(c) ==
    conn[c].at = "session" /\ runDone /\ Becomes(c, [at |-> "closing"])

\* The session returns: every phase of it has a deadline, and the exchange
\* that does not look at the context has timeouts of its own.
SessionEnds(c) == conn[c].at = "session" /\ Becomes(c, [at |-> "closing"])

SessionStep(c) == Bind(c) \/ BindFails(c) \/ SessionEnds(c) \/ Hangup(c) \/ Release(c)

ListenerNext ==
    \/ Cancel \/ Propagate \/ WatcherStep \/ LoopStep \/ AcceptFails
    \/ \E c \in Conns : Accept(c, [at |-> "bind"]) \/ SessionStep(c)
    \/ loop = "returned" /\ UNCHANGED listenerVars

ListenerSpec ==
    /\ ListenerInit /\ [][ListenerNext]_listenerVars
    /\ WF_listenerVars(Propagate) /\ WF_listenerVars(WatcherStep) /\ WF_listenerVars(LoopStep)
    /\ \A c \in Conns : WF_listenerVars(SessionStep(c))

-----------------------------------------------------------------------------
(* Properties.                                                              *)

\* A server at its limit gets a slot again: no connection holds one for ever.
AcceptsAgain == loop = "slot" ~> loop # "slot"
=============================================================================
