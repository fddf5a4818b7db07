-------------------------- MODULE DrainingServer --------------------------
(***************************************************************************)
(* What the two servers of the harness promise to their owner (the egress  *)
(* service for brokerlistener, the launcher for proxybridge): at most      *)
(* MaxConcurrent connections are being served; nothing is accepted after a *)
(* failure or once the listener is closed, which happens for no other      *)
(* reason than a cancellation or a failure; Serve returns only when no     *)
(* connection is left and the listener is closed, without an error only if *)
(* it was cancelled and with one only if accepting failed.                 *)
(***************************************************************************)
EXTENDS Integers, FiniteSets

CONSTANTS
    Conns,          \* connections that may be served at the same time
    MaxConcurrent   \* Rules.MaxConcurrent

VARIABLES
    active,      \* the connections being served
    cancelled,   \* the context given to Serve is done
    closed,      \* the listener is closed
    broken,      \* accepting failed
    verdict      \* what Serve has returned

vars == <<active, cancelled, closed, broken, verdict>>

Init == active = {} /\ cancelled = FALSE /\ closed = FALSE /\ broken = FALSE /\ verdict = "none"

Cancel == cancelled' = TRUE /\ UNCHANGED <<active, closed, broken, verdict>>

Break == ~closed /\ broken' = TRUE /\ UNCHANGED <<active, cancelled, closed, verdict>>

Close ==
    /\ cancelled \/ broken
    /\ closed' = TRUE
    /\ UNCHANGED <<active, cancelled, broken, verdict>>

Join(c) ==
    /\ ~closed /\ ~broken
    /\ c \notin active /\ Cardinality(active) < MaxConcurrent
    /\ active' = active \cup {c}
    /\ UNCHANGED <<cancelled, closed, broken, verdict>>

Leave(c) ==
    /\ c \in active
    /\ active' = active \ {c}
    /\ UNCHANGED <<cancelled, closed, broken, verdict>>

\* A context that is done before Serve is called is seen here.
Return ==
    /\ verdict = "none" /\ active = {}
    /\ \/ cancelled /\ verdict' = "ok"
       \/ broken /\ verdict' = "error"
    /\ closed' = TRUE
    /\ UNCHANGED <<active, cancelled, broken>>

Next == Cancel \/ Break \/ Close \/ Return \/ \E c \in Conns : Join(c) \/ Leave(c)

Spec == Init /\ [][Next]_vars
=============================================================================
