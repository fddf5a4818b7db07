------------------------- MODULE DrainingServerProofs -------------------------
(***************************************************************************)
(* Proofs about AcceptLoop and the two servers built on it, BrokerListener *)
(* and ProxyBridge, for any number of connections and any limit: both      *)
(* implement DrainingServer.                                               *)
(*                                                                         *)
(* SlotInv counts the tokens in the slots channel: one for each connection *)
(* that is not finished and one for the loop while it is about to accept.  *)
(* CauseInv says that each step of an ending has its cause in a            *)
(* cancellation or a failed Accept.                                        *)
(***************************************************************************)
EXTENDS BrokerListener, ProxyBridge, FiniteSetTheorems, TLAPS
Busy == {c \in Conns : conn[c] # None}
Reserved == IF loop \in {"check", "accept"} THEN 1 ELSE 0

SlotInv ==
    /\ DOMAIN conn = Conns
    /\ \A c \in Conns : conn[c].at = "none" => conn[c] = None
    /\ IsFiniteSet(Busy)
    /\ slots = Cardinality(Busy) + Reserved
    /\ slots <= MaxConcurrent

CauseInv ==
    /\ loop \in {"new", "slot", "check", "accept", "judge", "shutdown", "wait", "returned"}
    /\ cancelled \in BOOLEAN /\ runDone \in BOOLEAN /\ listenerOpen \in BOOLEAN
    /\ broken \in BOOLEAN /\ failure \in BOOLEAN
    /\ runDone \/ ~listenerOpen \/ loop \in {"judge", "shutdown", "wait", "returned"} => cancelled \/ broken
    /\ watcher = "closed" => cancelled
    /\ broken => loop \in {"judge", "shutdown", "wait", "returned"}
    /\ failure => broken
    /\ ~failure /\ loop \in {"shutdown", "wait", "returned"} => cancelled
    /\ loop \in {"wait", "returned"} => ~listenerOpen
    /\ loop \in {"new", "returned"} => Busy = {}

LoopInv == SlotInv /\ CauseInv

promise == <<Active, cancelled, ~listenerOpen, broken, Verdict>>

-----------------------------------------------------------------------------
(* One connection's goroutine goes on.                                      *)

\* What the position of one connection means for the sets of connections.
LEMMA Update ==
    ASSUME SlotInv, NEW c \in Conns, NEW s, s.at = "none" => s = None, conn' = [conn EXCEPT ![c] = s]
    PROVE  /\ DOMAIN conn' = Conns /\ \A d \in Conns : conn'[d].at = "none" => conn'[d] = None
           /\ Busy' = IF s = None THEN Busy \ {c} ELSE Busy \cup {c}
           /\ Active' = IF s.at \in {"none", "closed"} THEN Active \ {c} ELSE Active \cup {c}
<1>1. DOMAIN conn' = Conns /\ conn'[c] = s /\ \A d \in Conns : d # c => conn'[d] = conn[d]
  BY DEF SlotInv
<1>2. \A d \in Conns : conn'[d].at = "none" => conn'[d] = None
  BY <1>1 DEF SlotInv
<1>3. Busy' = IF s = None THEN Busy \ {c} ELSE Busy \cup {c}
  BY <1>1 DEF Busy
<1>4. Active' = IF s.at \in {"none", "closed"} THEN Active \ {c} ELSE Active \cup {c}
  BY <1>1 DEF Active
<1>5. QED
  BY <1>1, <1>2, <1>3, <1>4

\* A connection that stays unfinished keeps its slot, also when its sockets
\* are closed.
LEMMA BusyGoesOn ==
    ASSUME LoopInv, NEW c \in Conns, NEW s, conn' = [conn EXCEPT ![c] = s],
           conn[c] # None, s.at # "none",
           UNCHANGED <<loopVars, contextVars, listenerOpen, slots>>
    PROVE  LoopInv'
<1>1. s # None
  BY DEF None
<1>2. DOMAIN conn' = Conns /\ \A d \in Conns : conn'[d].at = "none" => conn'[d] = None
  BY <1>1, Update DEF LoopInv
<1>3. Busy' = Busy
  BY <1>1, Update DEF LoopInv, Busy
<1>4. SlotInv'
  BY <1>2, <1>3 DEF LoopInv, SlotInv, Reserved, loopVars
<1>5. CauseInv'
  BY <1>3 DEF LoopInv, CauseInv, loopVars, contextVars
<1>6. QED
  BY <1>4, <1>5 DEF LoopInv

\* The goroutine works on its connection: the owner sees nothing of it.
LEMMA WorksOn ==
    ASSUME LoopInv, NEW c \in Conns, NEW s, Becomes(c, s),
           conn[c].at \notin {"none", "closed"}, s.at \notin {"none", "closed"}
    PROVE  LoopInv' /\ UNCHANGED promise
<1>1. /\ conn' = [conn EXCEPT ![c] = s] /\ UNCHANGED <<loopVars, contextVars, listenerOpen, slots>>
  BY DEF Becomes
<1>2. LoopInv'
  <2>1. conn[c] # None /\ s.at # "none"
    BY DEF None
  <2>2. QED
    BY <1>1, <2>1, BusyGoesOn
<1>3. Active' = Active \cup {c}
  BY <1>1, Update DEF LoopInv
<1>4. Active' = Active
  BY <1>3 DEF Active
<1>5. QED
  BY <1>1, <1>2, <1>4 DEF promise, Verdict, loopVars, contextVars

\* The sockets are closed: the connection is no longer served.
LEMMA HangsUp ==
    ASSUME LoopInv, NEW c \in Conns, Hangup(c), [conn[c] EXCEPT !.at = "closed"].at = "closed"
    PROVE  LoopInv' /\ Promise!Leave(c)
<1> DEFINE s == [conn[c] EXCEPT !.at = "closed"]
<1>1. /\ conn[c].at = "closing" /\ conn' = [conn EXCEPT ![c] = s]
      /\ UNCHANGED <<loopVars, contextVars, listenerOpen, slots>>
  BY DEF Hangup
<1>2. s.at = "closed"
  OBVIOUS
<1> HIDE DEF s
<1>3. LoopInv'
  <2>1. conn[c] # None /\ s.at # "none"
    BY <1>1, <1>2 DEF None
  <2>2. QED
    BY <1>1, <2>1, BusyGoesOn
<1>4. Active' = Active \ {c}
  BY <1>1, <1>2, Update DEF LoopInv
<1>5. c \in Active
  BY <1>1 DEF Active
<1>6. QED
  BY <1>1, <1>3, <1>4, <1>5 DEF Promise!Leave, Verdict, loopVars, contextVars

\* The slot is given back.
LEMMA Releases ==
    ASSUME LoopInv, NEW c \in Conns, Release(c)
    PROVE  LoopInv' /\ UNCHANGED promise
<1>1. /\ conn[c].at = "closed" /\ conn' = [conn EXCEPT ![c] = None] /\ slots' = slots - 1
      /\ UNCHANGED <<loopVars, contextVars, listenerOpen>>
  BY DEF Release
<1>2. /\ DOMAIN conn' = Conns /\ \A d \in Conns : conn'[d].at = "none" => conn'[d] = None
      /\ Busy' = Busy \ {c}
  BY <1>1, Update DEF LoopInv
<1>3. Active' = Active \ {c}
  BY <1>1, Update DEF LoopInv, None
<1>4. c \in Busy /\ c \notin Active
  BY <1>1 DEF Busy, Active, None
<1>5. IsFiniteSet(Busy') /\ Cardinality(Busy') = Cardinality(Busy) - 1 /\ Cardinality(Busy) \in Nat
  BY <1>2, <1>4, FS_RemoveElement, FS_CardinalityType DEF LoopInv, SlotInv
<1>6. Reserved' = Reserved /\ Reserved \in {0, 1}
  BY <1>1 DEF Reserved, loopVars
<1>7. SlotInv'
  BY <1>1, <1>2, <1>5, <1>6, LoopConstants DEF LoopInv, SlotInv
<1>8. CauseInv'
  BY <1>1, <1>2 DEF LoopInv, CauseInv, loopVars, contextVars
<1>9. QED
  BY <1>1, <1>3, <1>4, <1>7, <1>8 DEF LoopInv, promise, Verdict, loopVars, contextVars

-----------------------------------------------------------------------------
(* A connection is accepted.                                                *)

\* A connection that is being served has a token of its own.
LEMMA ActiveIsBusy ==
    ASSUME LoopInv
    PROVE  /\ Active \subseteq Busy /\ IsFiniteSet(Active)
           /\ Cardinality(Active) \in Nat /\ Cardinality(Active) <= Cardinality(Busy)
<1>1. Active \subseteq Busy
  BY DEF Active, Busy, None
<1>2. IsFiniteSet(Busy)
  BY DEF LoopInv, SlotInv
<1>3. QED
  BY <1>1, <1>2, FS_Subset, FS_CardinalityType

\* The instance brings its own copy of Cardinality, with the same definition.
LEMMA SameCardinality == \A S : Promise!Cardinality(S) = Cardinality(S)
  BY DEF Promise!Cardinality, Cardinality

\* It gets the slot that the loop has taken for it.
LEMMA Accepts ==
    ASSUME LoopInv, NEW c \in Conns, NEW start, Accept(c, start), start.at \notin {"none", "closed"}
    PROVE  LoopInv' /\ Promise!Join(c)
<1>1. /\ loop = "accept" /\ loop' = "slot" /\ listenerOpen /\ conn[c] = None
      /\ conn' = [conn EXCEPT ![c] = start]
      /\ UNCHANGED <<watcherStop, failure, broken, contextVars, listenerOpen, slots>>
  BY DEF Accept, Goes
<1>2. start # None
  BY DEF None
<1>3. /\ DOMAIN conn' = Conns /\ \A d \in Conns : conn'[d].at = "none" => conn'[d] = None
      /\ Busy' = Busy \cup {c}
  BY <1>1, <1>2, Update DEF LoopInv
<1>4. Active' = Active \cup {c}
  BY <1>1, Update DEF LoopInv
<1>5. c \notin Busy /\ c \notin Active
  BY <1>1 DEF Busy, Active, None
<1>6. IsFiniteSet(Busy') /\ Cardinality(Busy') = Cardinality(Busy) + 1 /\ Cardinality(Busy) \in Nat
  BY <1>3, <1>5, FS_AddElement, FS_CardinalityType DEF LoopInv, SlotInv
<1>7. SlotInv'
  BY <1>1, <1>3, <1>6 DEF LoopInv, SlotInv, Reserved
<1>8. CauseInv'
  BY <1>1 DEF LoopInv, CauseInv, contextVars
<1>9. Cardinality(Active) < MaxConcurrent
  <2>1. Cardinality(Busy) + 1 <= MaxConcurrent
    BY <1>1 DEF LoopInv, SlotInv, Reserved
  <2>2. QED
    BY <1>6, <2>1, ActiveIsBusy, LoopConstants
<1>10. ~broken
  BY <1>1 DEF LoopInv, CauseInv
<1>11. Verdict' = Verdict
  BY <1>1 DEF Verdict
<1>12. ~~listenerOpen /\ (~listenerOpen)' = ~listenerOpen /\ UNCHANGED <<cancelled, broken>>
  BY <1>1 DEF contextVars
<1>13. Promise!Join(c)
  BY <1>4, <1>5, <1>9, <1>10, <1>11, <1>12, SameCardinality DEF Promise!Join
<1>14. QED
  BY <1>7, <1>8, <1>13 DEF LoopInv

-----------------------------------------------------------------------------
(* The loop, the watcher and the owner.                                     *)

\* Steps that change no connection keep the count of the tokens.
LEMMA ServerKeepsLoopInv ==
    ASSUME LoopInv, Cancel \/ Propagate \/ WatcherStep \/ LoopStep \/ AcceptFails
    PROVE  LoopInv'
<1>1. conn' = conn
  BY DEF Cancel, Propagate, WatcherStep, WatcherCloses, WatcherCancels, WatcherStops, LoopStep,
         TakeSlot, StopWaiting, Check, AcceptClosed, AcceptFails, Judge, Shutdown, Return
<1>2. Busy' = Busy
  BY <1>1 DEF Busy
<1>3. Cardinality(Busy) \in Nat
  BY FS_CardinalityType DEF LoopInv, SlotInv
<1>4. MaxConcurrent \in Nat
  BY LoopConstants
<1>5. SlotInv'
  <2>1. CASE Cancel \/ Propagate \/ WatcherStep
    BY <2>1, <1>1, <1>2 DEF LoopInv, SlotInv, Reserved, loopVars, contextVars,
         Cancel, Propagate, WatcherStep, WatcherCloses, WatcherCancels, WatcherStops
  <2>2. CASE TakeSlot
    BY <2>2, <1>1, <1>2, <1>3, <1>4 DEF LoopInv, SlotInv, Reserved, TakeSlot, Goes
  <2>3. CASE StopWaiting \/ Judge \/ Shutdown \/ Return
    BY <2>3, <1>1, <1>2, <1>3, <1>4 DEF LoopInv, SlotInv, Reserved, StopWaiting, Judge, Shutdown, Return, Goes
  <2>4. CASE Check
    BY <2>4, <1>1, <1>2, <1>3, <1>4 DEF LoopInv, SlotInv, Reserved, Check, Goes
  <2>5. CASE AcceptClosed \/ AcceptFails
    BY <2>5, <1>1, <1>2, <1>3, <1>4 DEF LoopInv, SlotInv, Reserved, AcceptClosed, AcceptFails, Goes
  <2>6. QED
    BY <2>1, <2>2, <2>3, <2>4, <2>5 DEF LoopStep
<1>6. CauseInv'
  <2>1. CASE Cancel \/ Propagate
    <3>1. CASE Cancel
      BY <3>1, <1>2 DEF LoopInv, CauseInv, loopVars, Cancel
    <3>2. CASE Propagate
      BY <3>2, <1>2 DEF LoopInv, CauseInv, loopVars, Propagate
    <3>3. QED
      BY <2>1, <3>1, <3>2
  <2>2. CASE WatcherStep
    <3>1. CASE WatcherCloses
      BY <3>1, <1>2 DEF LoopInv, CauseInv, loopVars, WatcherCloses
    <3>2. CASE WatcherCancels
      BY <3>2, <1>2 DEF LoopInv, CauseInv, loopVars, WatcherCancels
    <3>3. CASE WatcherStops
      BY <3>3, <1>2 DEF LoopInv, CauseInv, loopVars, WatcherStops
    <3>4. QED
      BY <2>2, <3>1, <3>2, <3>3 DEF WatcherStep
  <2>3. CASE TakeSlot \/ StopWaiting \/ Check
    BY <2>3, <1>2 DEF LoopInv, CauseInv, contextVars, TakeSlot, StopWaiting, Check, Goes
  <2>4. CASE AcceptClosed \/ AcceptFails \/ Judge
    <3>1. CASE AcceptClosed
      BY <3>1, <1>2 DEF LoopInv, CauseInv, contextVars, AcceptClosed, Goes
    <3>2. CASE AcceptFails
      BY <3>2, <1>2 DEF LoopInv, CauseInv, contextVars, AcceptFails
    <3>3. CASE Judge
      BY <3>3, <1>2 DEF LoopInv, CauseInv, contextVars, Judge
    <3>4. QED
      BY <2>4, <3>1, <3>2, <3>3
  <2>5. CASE Shutdown
    BY <2>5, <1>2 DEF LoopInv, CauseInv, contextVars, Shutdown
  <2>6. CASE Return
    BY <2>6, <1>1, <1>2 DEF LoopInv, CauseInv, contextVars, Return, Goes, Busy
  <2>7. QED
    BY <2>1, <2>2, <2>3, <2>4, <2>5, <2>6 DEF LoopStep
<1>7. QED
  BY <1>5, <1>6 DEF LoopInv

LEMMA ServerKeepsPromise ==
    ASSUME LoopInv, Cancel \/ Propagate \/ WatcherStep \/ LoopStep \/ AcceptFails
    PROVE  Promise!Next \/ UNCHANGED promise
<1>1. Active' = Active
  BY DEF Cancel, Propagate, WatcherStep, WatcherCloses, WatcherCancels, WatcherStops, LoopStep,
         TakeSlot, StopWaiting, Check, AcceptClosed, AcceptFails, Judge, Shutdown, Return, Active
<1>2. CASE Cancel
  <2>1. Promise!Cancel
    BY <1>1, <1>2 DEF Cancel, Promise!Cancel, loopVars, Verdict
  <2>2. QED
    BY <2>1 DEF Promise!Next
<1>3. CASE Propagate
  BY <1>1, <1>3 DEF Propagate, promise, loopVars, Verdict
<1>4. CASE WatcherStep
  <2>1. CASE WatcherCloses
    <3>1. Promise!Close
      BY <1>1, <2>1 DEF WatcherCloses, Promise!Close, loopVars, Verdict
    <3>2. QED
      BY <3>1 DEF Promise!Next
  <2>2. CASE WatcherCancels \/ WatcherStops
    BY <1>1, <2>2 DEF WatcherCancels, WatcherStops, promise, loopVars, Verdict
  <2>3. QED
    BY <1>4, <2>1, <2>2 DEF WatcherStep
<1>5. CASE TakeSlot \/ StopWaiting \/ Check \/ AcceptClosed \/ Judge
  <2>1. loop # "returned" /\ loop' # "returned" /\ UNCHANGED <<cancelled, listenerOpen, broken>>
    BY <1>5 DEF TakeSlot, StopWaiting, Check, AcceptClosed, Judge, Goes, contextVars
  <2>2. QED
    BY <1>1, <2>1 DEF promise, Verdict
<1>6. CASE AcceptFails
  <2>1. Promise!Break
    BY <1>1, <1>6 DEF AcceptFails, Promise!Break, contextVars, Verdict
  <2>2. QED
    BY <2>1 DEF Promise!Next
<1>7. CASE Shutdown
  <2>1. cancelled \/ broken
    BY <1>7 DEF Shutdown, LoopInv, CauseInv
  <2>2. Promise!Close
    BY <1>1, <1>7, <2>1 DEF Shutdown, Promise!Close, Verdict
  <2>3. QED
    BY <2>2 DEF Promise!Next
<1>8. CASE Return
  <2>1. /\ loop = "wait" /\ loop' = "returned" /\ \A c \in Conns : conn[c] = None
        /\ UNCHANGED <<failure, broken, cancelled, listenerOpen>>
    BY <1>8 DEF Return, Goes, contextVars
  <2>2. Active = {} /\ ~listenerOpen
    BY <2>1 DEF Active, None, LoopInv, CauseInv
  <2>3. IF failure THEN broken /\ Verdict' = "error" ELSE cancelled /\ Verdict' = "ok"
    BY <2>1 DEF Verdict, LoopInv, CauseInv
  <2>4. Promise!Return
    BY <1>1, <2>1, <2>2, <2>3 DEF Promise!Return, Verdict
  <2>5. QED
    BY <2>4 DEF Promise!Next
<1>9. QED
  BY <1>2, <1>3, <1>4, <1>5, <1>6, <1>7, <1>8 DEF LoopStep

-----------------------------------------------------------------------------
(* The broker's listener.                                                   *)

ListenerInv == LoopInv /\ conn \in [Conns -> Session]

\* A connection leaves when its sockets are closed; its other steps do not
\* show outside.
LEMMA SessionRefines ==
    ASSUME ListenerInv, NEW c \in Conns, SessionStep(c)
    PROVE  ListenerInv' /\ (Promise!Leave(c) \/ UNCHANGED promise)
<1>1. CASE Bind(c) \/ BindFails(c) \/ SessionEnds(c)
  <2>1. PICK s \in {[at |-> "session"], [at |-> "closing"]} : Becomes(c, s)
    BY <1>1 DEF Bind, BindFails, SessionEnds
  <2>2. conn[c].at \notin {"none", "closed"}
    BY <1>1 DEF Bind, BindFails, SessionEnds
  <2>3. s \in Session /\ s.at \notin {"none", "closed"}
    BY DEF Session
  <2>4. conn' \in [Conns -> Session]
    BY <2>1, <2>3 DEF ListenerInv, Becomes
  <2>5. QED
    BY <2>1, <2>2, <2>3, <2>4, WorksOn DEF ListenerInv
<1>2. CASE Hangup(c)
  <2>1. [conn[c] EXCEPT !.at = "closed"] = [at |-> "closed"]
    BY DEF ListenerInv, Session
  <2>2. conn' = [conn EXCEPT ![c] = [at |-> "closed"]] /\ [at |-> "closed"] \in Session
    BY <1>2, <2>1 DEF Hangup, Session
  <2>3. conn' \in [Conns -> Session]
    BY <2>2 DEF ListenerInv
  <2>4. [conn[c] EXCEPT !.at = "closed"].at = "closed"
    BY <2>1
  <2>5. LoopInv' /\ Promise!Leave(c)
    BY <1>2, <2>4, HangsUp DEF ListenerInv
  <2>6. QED
    BY <2>3, <2>5 DEF ListenerInv
<1>3. CASE Release(c)
  <2>1. conn' \in [Conns -> Session]
    BY <1>3 DEF Release, None, Session, ListenerInv
  <2>2. QED
    BY <1>3, <2>1, Releases DEF ListenerInv
<1>4. QED
  BY <1>1, <1>2, <1>3 DEF SessionStep

LEMMA ListenerAcceptRefines ==
    ASSUME ListenerInv, NEW c \in Conns, Accept(c, [at |-> "bind"])
    PROVE  ListenerInv' /\ Promise!Join(c)
<1>1. [at |-> "bind"].at \notin {"none", "closed"} /\ [at |-> "bind"] \in Session
  BY DEF Session
<1>2. conn' \in [Conns -> Session]
  BY <1>1 DEF Accept, ListenerInv
<1>3. QED
  BY <1>1, <1>2, Accepts DEF ListenerInv

LEMMA ListenerServerRefines ==
    ASSUME ListenerInv, Cancel \/ Propagate \/ WatcherStep \/ LoopStep \/ AcceptFails
    PROVE  ListenerInv' /\ (Promise!Next \/ UNCHANGED promise)
<1>1. conn' = conn
  BY DEF Cancel, Propagate, WatcherStep, WatcherCloses, WatcherCancels, WatcherStops, LoopStep,
         TakeSlot, StopWaiting, Check, AcceptClosed, AcceptFails, Judge, Shutdown, Return
<1>2. QED
  BY <1>1, ServerKeepsLoopInv, ServerKeepsPromise DEF ListenerInv

LEMMA ListenerStepRefines ==
    ASSUME ListenerInv, [ListenerNext]_listenerVars
    PROVE  ListenerInv' /\ (Promise!Next \/ UNCHANGED promise)
<1>1. CASE UNCHANGED listenerVars
  BY <1>1 DEF listenerVars, loopVars, contextVars, ListenerInv, LoopInv, SlotInv, CauseInv, Busy, Reserved,
              promise, Active, Verdict
<1>2. CASE Cancel \/ Propagate \/ WatcherStep \/ LoopStep \/ AcceptFails
  BY <1>2, ListenerServerRefines
<1>3. ASSUME NEW c \in Conns, Accept(c, [at |-> "bind"]) \/ SessionStep(c)
      PROVE  ListenerInv' /\ (Promise!Next \/ UNCHANGED promise)
  BY <1>3, ListenerAcceptRefines, SessionRefines DEF Promise!Next
<1>4. QED
  BY <1>1, <1>2, <1>3 DEF ListenerNext

\* The listener is a draining server: never more than MaxConcurrent served,
\* none accepted after a failure, none left when Serve returns, and the result
\* says what ended it.
THEOREM ListenerKeepsPromise == ListenerSpec => KeepsPromise
<1>1. ListenerInit => ListenerInv /\ Promise!Init
  <2>1. SUFFICES ASSUME ListenerInit PROVE ListenerInv /\ Promise!Init
    OBVIOUS
  <2>2. conn \in [Conns -> Session] /\ DOMAIN conn = Conns
    BY <2>1 DEF ListenerInit, LoopInit, None, Session
  <2>3. Busy = {} /\ Active = {} /\ \A c \in Conns : conn[c].at = "none" => conn[c] = None
    BY <2>1 DEF ListenerInit, LoopInit, Busy, Active, None
  <2>4. SlotInv
    BY <2>1, <2>2, <2>3, FS_EmptySet, LoopConstants DEF ListenerInit, LoopInit, SlotInv, Reserved
  <2>5. CauseInv
    BY <2>1, <2>3 DEF ListenerInit, LoopInit, CauseInv
  <2>6. Promise!Init
    BY <2>1, <2>3 DEF ListenerInit, LoopInit, Promise!Init, Verdict
  <2>7. QED
    BY <2>2, <2>4, <2>5, <2>6 DEF ListenerInv, LoopInv
<1>2. ListenerInv /\ [ListenerNext]_listenerVars => ListenerInv' /\ [Promise!Next]_(Promise!vars)
  BY ListenerStepRefines DEF Promise!vars, promise
<1>3. QED
  BY <1>1, <1>2, PTL DEF ListenerSpec, KeepsPromise, Promise!Spec

-----------------------------------------------------------------------------
(* The proxy bridge, also when Serve is called too late.                    *)

Inv == LoopInv /\ conn \in [Conns -> Connection \cup {None}]

\* While a connection dials or copies it is being served, and goes on so.
Serving == {s \in Connection : s.at \notin {"none", "closed"}}

LEMMA RecordOf ==
    \A s \in Connection \cup {None} :
        /\ s.at # "none" => s \in Connection
        /\ s \in Connection =>
             s = [at |-> s.at, copier |-> s.copier, taken |-> s.taken, failed |-> s.failed]
  BY DEF Connection, None

LEMMA Works ==
    ASSUME Inv, NEW c \in Conns,
           \/ Dialled(c) \/ DialFails(c) \/ CancelBridge(c) \/ BridgeEnds(c) \/ PeerStep(c)
           \/ \E d \in Dirs : CopyCut(c, d) \/ Take(c, d)
    PROVE  \E s \in Serving : Becomes(c, s) /\ conn[c].at \notin {"none", "closed"}
<1> DEFINE k == conn[c]
<1>1. k.at # "none" => k \in Connection
  BY RecordOf DEF Inv
<1>2. CASE Dialled(c)
  <2>1. k.at = "dial" /\ k \in Connection /\ Becomes(c, [k EXCEPT !.at = "bridge", !.copier = [d \in Dirs |-> "copying"]])
    BY <1>1, <1>2 DEF Dialled
  <2>2. [k EXCEPT !.at = "bridge", !.copier = [d \in Dirs |-> "copying"]] \in Serving
    BY <2>1 DEF Serving, Connection
  <2>3. QED
    BY <2>1, <2>2
<1>3. CASE DialFails(c) \/ BridgeEnds(c)
  <2>1. k.at \in {"dial", "bridge"} /\ k \in Connection /\ Becomes(c, [k EXCEPT !.at = "closing"])
    BY <1>1, <1>3 DEF DialFails, BridgeEnds
  <2>2. [k EXCEPT !.at = "closing"] \in Serving
    BY <2>1 DEF Serving, Connection
  <2>3. QED
    BY <2>1, <2>2
<1>4. CASE CancelBridge(c)
  <2>1. k.at = "bridge" /\ k \in Connection /\ Becomes(c, [k EXCEPT !.failed = TRUE])
    BY <1>1, <1>4 DEF CancelBridge
  <2>2. [k EXCEPT !.failed = TRUE] \in Serving
    BY <2>1 DEF Serving, Connection
  <2>3. QED
    BY <2>1, <2>2
<1>5. CASE PeerStep(c) \/ \E d \in Dirs : CopyCut(c, d)
  <2>1. PICK d \in Dirs, result \in {"ok", "failed", "cut"} :
             k.at = "bridge" /\ Becomes(c, [k EXCEPT !.copier[d] = result])
    BY <1>5 DEF PeerStep, CopyEnds, CopyFails, CopyCut, Copying
  <2>2. k \in Connection
    BY <1>1, <2>1
  <2>3. [k EXCEPT !.copier[d] = result] \in Serving
    BY <2>1, <2>2 DEF Serving, Connection
  <2>4. QED
    BY <2>1, <2>3
<1>6. CASE \E d \in Dirs : Take(c, d)
  <2>1. PICK d \in Dirs : Take(c, d)
    BY <1>6
  <2>2. k.at = "bridge" /\ k \in Connection
    BY <1>1, <2>1 DEF Take, Result
  <2>3. PICK failed \in BOOLEAN : Becomes(c, [k EXCEPT !.taken = @ \cup {d}, !.failed = failed])
    BY <2>1, <2>2 DEF Take, Connection
  <2>4. [k EXCEPT !.taken = @ \cup {d}, !.failed = failed] \in Serving
    BY <2>2 DEF Serving, Connection
  <2>5. QED
    BY <2>2, <2>3, <2>4
<1>7. QED
  BY <1>2, <1>3, <1>4, <1>5, <1>6

\* A connection leaves when its sockets are closed; its other steps do not
\* show outside.
LEMMA ConnectionRefines ==
    ASSUME Inv, NEW c \in Conns, ConnectionStep(c) \/ PeerStep(c)
    PROVE  Inv' /\ (Promise!Leave(c) \/ UNCHANGED promise)
<1>1. CASE Hangup(c)
  <2>1. conn[c] \in Connection
    BY <1>1, RecordOf DEF Hangup, Inv
  <2>2. [conn[c] EXCEPT !.at = "closed"] \in Connection /\ [conn[c] EXCEPT !.at = "closed"].at = "closed"
    BY <2>1 DEF Connection
  <2>3. conn' \in [Conns -> Connection \cup {None}]
    BY <1>1, <2>2 DEF Hangup, Inv
  <2>4. QED
    BY <1>1, <2>2, <2>3, HangsUp DEF Inv
<1>2. CASE Release(c)
  <2>1. conn' \in [Conns -> Connection \cup {None}]
    BY <1>2 DEF Release, Inv
  <2>2. QED
    BY <1>2, <2>1, Releases DEF Inv
<1>3. CASE \/ Dialled(c) \/ DialFails(c) \/ CancelBridge(c) \/ BridgeEnds(c) \/ PeerStep(c)
           \/ \E d \in Dirs : CopyCut(c, d) \/ Take(c, d)
  <2>1. PICK s \in Serving : Becomes(c, s) /\ conn[c].at \notin {"none", "closed"}
    BY <1>3, Works
  <2>2. s \in Connection /\ s.at \notin {"none", "closed"}
    BY DEF Serving
  <2>3. conn' \in [Conns -> Connection \cup {None}]
    BY <2>1, <2>2 DEF Inv, Becomes
  <2>4. QED
    BY <2>1, <2>2, <2>3, WorksOn DEF Inv
<1>4. QED
  BY <1>1, <1>2, <1>3 DEF ConnectionStep

LEMMA AcceptRefines ==
    ASSUME Inv, NEW c \in Conns, Accept(c, Start)
    PROVE  Inv' /\ Promise!Join(c)
<1>1. Start.at \notin {"none", "closed"} /\ Start \in Connection
  BY DEF Connection, Start
<1>2. conn' \in [Conns -> Connection \cup {None}]
  BY <1>1 DEF Accept, Inv
<1>3. QED
  BY <1>1, <1>2, Accepts DEF Inv

\* The call of Serve: the loop starts, or the port is closed and that is all.
LEMMA ServeRefines ==
    ASSUME Inv, Serve \/ ServeCancelled
    PROVE  Inv' /\ (Promise!Return \/ UNCHANGED promise)
<1>1. conn' = conn /\ Busy' = Busy /\ Active' = Active /\ Busy = {} /\ loop = "new" /\ UNCHANGED slots
  BY DEF Serve, ServeCancelled, Inv, LoopInv, CauseInv, Busy, Active
<1>2. SlotInv' /\ conn' \in [Conns -> Connection \cup {None}]
  <2>1. Reserved' = Reserved
    BY <1>1 DEF Serve, ServeCancelled, Goes, Reserved
  <2>2. QED
    BY <1>1, <2>1 DEF Inv, LoopInv, SlotInv
<1>3. CASE Serve
  <2>1. CauseInv'
    BY <1>1, <1>3 DEF Inv, LoopInv, CauseInv, Serve, Goes
  <2>2. UNCHANGED promise
    BY <1>1, <1>3 DEF Serve, Goes, promise, Verdict
  <2>3. QED
    BY <1>2, <2>1, <2>2 DEF Inv, LoopInv
<1>4. CASE ServeCancelled
  <2>1. /\ cancelled /\ loop' = "returned" /\ listenerOpen' = FALSE
        /\ UNCHANGED <<failure, broken, cancelled, runDone, watcher>>
    BY <1>4 DEF ServeCancelled, Goes, contextVars
  <2>2. ~failure /\ ~broken
    BY <1>1 DEF Inv, LoopInv, CauseInv
  <2>3. CauseInv'
    BY <1>1, <2>1, <2>2 DEF Inv, LoopInv, CauseInv
  <2>4. Active = {}
    BY <1>1, ActiveIsBusy DEF Inv
  <2>5. Verdict = "none" /\ Verdict' = "ok"
    BY <1>1, <2>1, <2>2 DEF Verdict
  <2>6. Promise!Return
    BY <1>1, <2>1, <2>4, <2>5 DEF Promise!Return
  <2>7. QED
    BY <1>2, <2>3, <2>6 DEF Inv, LoopInv
<1>5. QED
  BY <1>3, <1>4

LEMMA ServerRefines ==
    ASSUME Inv, Cancel \/ Propagate \/ WatcherStep \/ LoopStep \/ AcceptFails
    PROVE  Inv' /\ (Promise!Next \/ UNCHANGED promise)
<1>1. conn' = conn
  BY DEF Cancel, Propagate, WatcherStep, WatcherCloses, WatcherCancels, WatcherStops, LoopStep,
         TakeSlot, StopWaiting, Check, AcceptClosed, AcceptFails, Judge, Shutdown, Return
<1>2. QED
  BY <1>1, ServerKeepsLoopInv, ServerKeepsPromise DEF Inv

LEMMA StepRefines ==
    ASSUME Inv, [Next]_vars
    PROVE  Inv' /\ (Promise!Next \/ UNCHANGED promise)
<1>1. CASE UNCHANGED vars
  BY <1>1 DEF vars, loopVars, contextVars, Inv, LoopInv, SlotInv, CauseInv, Busy, Reserved,
              promise, Active, Verdict
<1>2. CASE Cancel \/ Propagate \/ WatcherStep \/ LoopStep \/ AcceptFails
  BY <1>2, ServerRefines
<1>3. CASE Serve \/ ServeCancelled
  BY <1>3, ServeRefines DEF Promise!Next
<1>4. ASSUME NEW c \in Conns, Accept(c, Start) \/ ConnectionStep(c) \/ PeerStep(c)
      PROVE  Inv' /\ (Promise!Next \/ UNCHANGED promise)
  BY <1>4, AcceptRefines, ConnectionRefines DEF Promise!Next
<1>5. QED
  BY <1>1, <1>2, <1>3, <1>4 DEF Next

LEMMA StartsRight ==
    ASSUME Init
    PROVE  Inv /\ Promise!Init
<1>1. conn \in [Conns -> Connection \cup {None}] /\ DOMAIN conn = Conns
  BY DEF Init
<1>2. Busy = {} /\ Active = {} /\ \A c \in Conns : conn[c].at = "none" => conn[c] = None
  BY DEF Init, Busy, Active, None
<1>3. SlotInv
  BY <1>1, <1>2, FS_EmptySet, LoopConstants DEF Init, SlotInv, Reserved
<1>4. CauseInv
  BY <1>2 DEF Init, CauseInv
<1>5. Promise!Init
  BY <1>2 DEF Init, Promise!Init, Verdict
<1>6. QED
  BY <1>1, <1>3, <1>4, <1>5 DEF Inv, LoopInv

\* The bridge is a draining server: never more than MaxConcurrent served, none
\* accepted after a failure, none left when Serve returns, and the result says
\* what ended it.
THEOREM BridgeKeepsPromise == Spec => KeepsPromise
<1>1. Init => Inv /\ Promise!Init
  BY StartsRight
<1>2. Inv /\ [Next]_vars => Inv' /\ [Promise!Next]_(Promise!vars)
  BY StepRefines DEF Promise!vars, promise
<1>3. QED
  BY <1>1, <1>2, PTL DEF Spec, KeepsPromise, Promise!Spec

-----------------------------------------------------------------------------
(* Why a direction is cut.  The flag that both sockets are closed has the   *)
(* same cause, and is not set before the dial is over.                      *)

Caused(s, done) ==
    s \in Connection =>
        /\ s.failed \/ (\E d \in Dirs : s.copier[d] = "cut") => done \/ \E d \in Dirs : s.copier[d] = "failed"
        /\ s.at = "dial" => ~s.failed
CauseOfCut == runDone \in BOOLEAN /\ \A c \in Conns : Caused(conn[c], runDone)
CutInv == Inv /\ CauseOfCut

LEMMA OneChanges ==
    ASSUME CutInv, NEW c \in Conns, NEW s, conn' = [conn EXCEPT ![c] = s],
           Caused(conn[c], runDone) => Caused(s, runDone), UNCHANGED runDone
    PROVE  CauseOfCut'
<1>1. Caused(s, runDone')
  BY DEF CutInv, CauseOfCut
<1>2. conn'[c] = s /\ \A d \in Conns : d # c => conn'[d] = conn[d]
  BY DEF CutInv, Inv
<1>3. ASSUME NEW d \in Conns PROVE Caused(conn'[d], runDone')
  BY <1>1, <1>2 DEF CutInv, CauseOfCut
<1>4. QED
  BY <1>3 DEF CutInv, CauseOfCut

\* A copier that has a result keeps it.
LEMMA CopierStep ==
    ASSUME NEW k \in Connection, NEW d \in Dirs, k.copier[d] = "copying", NEW done \in BOOLEAN,
           NEW result \in {"ok", "failed", "cut"}, result = "cut" => k.failed, k.at = "bridge",
           Caused(k, done)
    PROVE  Caused([k EXCEPT !.copier[d] = result], done)
<1> DEFINE s == [k EXCEPT !.copier[d] = result]
<1>1. /\ s.at = "bridge" /\ s.failed = k.failed
      /\ s.copier[d] = result /\ \A e \in Dirs : e # d => s.copier[e] = k.copier[e]
  BY DEF Connection
<1>2. ASSUME NEW e \in Dirs, k.copier[e] = "failed" PROVE s.copier[e] = "failed"
  BY <1>1, <1>2
<1>3. ASSUME s.failed \/ \E e \in Dirs : s.copier[e] = "cut"
      PROVE  done \/ \E e \in Dirs : s.copier[e] = "failed"
  <2>1. k.failed \/ \E e \in Dirs : k.copier[e] = "cut"
    BY <1>1, <1>3
  <2>2. done \/ \E e \in Dirs : k.copier[e] = "failed"
    BY <2>1 DEF Caused
  <2>3. QED
    BY <1>2, <2>2
<1>4. QED
  BY <1>1, <1>3 DEF Caused

LEMMA ConnectionKeepsCause ==
    ASSUME CutInv, NEW c \in Conns, ConnectionStep(c) \/ PeerStep(c)
    PROVE  CauseOfCut'
<1> DEFINE k == conn[c]
<1>1. (k.at # "none" => k \in Connection) /\ runDone \in BOOLEAN
  BY RecordOf DEF CutInv, Inv, CauseOfCut
<1>2. UNCHANGED runDone
  BY DEF ConnectionStep, PeerStep, Dialled, DialFails, CancelBridge, BridgeEnds, Hangup, Release,
         CopyCut, Take, CopyEnds, CopyFails, Becomes, contextVars
<1>3. CASE Dialled(c)
  <2> DEFINE s == [k EXCEPT !.at = "bridge", !.copier = [d \in Dirs |-> "copying"]]
  <2>1. k.at = "dial" /\ conn' = [conn EXCEPT ![c] = s]
    BY <1>3 DEF Dialled, Becomes
  <2>2. s.failed = k.failed /\ s.at = "bridge" /\ \A d \in Dirs : s.copier[d] = "copying"
    BY <1>1, <2>1 DEF Connection
  <2>3. Caused(k, runDone) => Caused(s, runDone)
    BY <1>1, <2>1, <2>2 DEF Caused
  <2>4. QED
    BY <1>2, <2>1, <2>3, OneChanges
<1>4. CASE DialFails(c) \/ BridgeEnds(c)
  <2> DEFINE s == [k EXCEPT !.at = "closing"]
  <2>1. k.at # "none" /\ conn' = [conn EXCEPT ![c] = s]
    BY <1>4 DEF DialFails, BridgeEnds, Becomes
  <2>2. s.failed = k.failed /\ s.at = "closing" /\ s.copier = k.copier
    BY <1>1, <2>1 DEF Connection
  <2>3. Caused(k, runDone) => Caused(s, runDone)
    BY <1>1, <2>1, <2>2 DEF Caused
  <2>4. QED
    BY <1>2, <2>1, <2>3, OneChanges
<1>5. CASE Hangup(c)
  <2> DEFINE s == [k EXCEPT !.at = "closed"]
  <2>1. k.at # "none" /\ conn' = [conn EXCEPT ![c] = s]
    BY <1>5 DEF Hangup
  <2>2. s.failed = k.failed /\ s.at = "closed" /\ s.copier = k.copier
    BY <1>1, <2>1 DEF Connection
  <2>3. Caused(k, runDone) => Caused(s, runDone)
    BY <1>1, <2>1, <2>2 DEF Caused
  <2>4. QED
    BY <1>2, <2>1, <2>3, OneChanges
<1>6. CASE Release(c)
  <2>1. conn' = [conn EXCEPT ![c] = None] /\ None \notin Connection
    BY <1>6 DEF Release, None, Connection
  <2>2. QED
    BY <1>2, <2>1, OneChanges DEF Caused
<1>7. CASE CancelBridge(c)
  <2> DEFINE s == [k EXCEPT !.failed = TRUE]
  <2>1. k.at = "bridge" /\ runDone /\ conn' = [conn EXCEPT ![c] = s]
    BY <1>7 DEF CancelBridge, Becomes
  <2>2. s.at = "bridge"
    BY <1>1, <2>1 DEF Connection
  <2>3. Caused(s, runDone)
    BY <2>1, <2>2 DEF Caused
  <2>4. QED
    BY <1>2, <2>1, <2>3, OneChanges
<1>8. CASE PeerStep(c) \/ \E d \in Dirs : CopyCut(c, d)
  <2>1. PICK d \in Dirs, result \in {"ok", "failed", "cut"} :
             /\ k.at = "bridge" /\ k.copier[d] = "copying" /\ (result = "cut" => k.failed)
             /\ conn' = [conn EXCEPT ![c] = [k EXCEPT !.copier[d] = result]]
    BY <1>8 DEF PeerStep, CopyEnds, CopyFails, CopyCut, Copying, Becomes
  <2>2. k \in Connection
    BY <1>1, <2>1
  <2>3. Caused(k, runDone) => Caused([k EXCEPT !.copier[d] = result], runDone)
    BY <1>1, <2>1, <2>2, CopierStep
  <2>4. QED
    BY <1>2, <2>1, <2>3, OneChanges
<1>9. CASE \E d \in Dirs : Take(c, d)
  <2>1. PICK d \in Dirs : Take(c, d)
    BY <1>9
  <2>2. k.at = "bridge" /\ k \in Connection /\ k.copier[d] \in {"ok", "failed", "cut"}
    BY <1>1, <2>1 DEF Take, Result
  <2>3. PICK failed \in BOOLEAN :
             /\ failed => k.failed \/ k.copier[d] # "ok"
             /\ conn' = [conn EXCEPT ![c] = [k EXCEPT !.taken = @ \cup {d}, !.failed = failed]]
    BY <2>1, <2>2 DEF Take, Becomes, Connection
  <2> DEFINE s == [k EXCEPT !.taken = @ \cup {d}, !.failed = failed]
  <2>4. s.failed = failed /\ s.at = "bridge" /\ s.copier = k.copier
    BY <2>2 DEF Connection
  <2>5. Caused(k, runDone) => Caused(s, runDone)
    BY <2>2, <2>3, <2>4 DEF Caused
  <2>6. QED
    BY <1>2, <2>3, <2>5, OneChanges
<1>10. QED
  BY <1>3, <1>4, <1>5, <1>6, <1>7, <1>8, <1>9 DEF ConnectionStep

LEMMA StepKeepsCause ==
    ASSUME CutInv, [Next]_vars
    PROVE  CutInv'
<1>1. Inv'
  BY StepRefines DEF CutInv
<1>2. CASE UNCHANGED vars
  BY <1>1, <1>2 DEF vars, contextVars, CutInv, CauseOfCut
<1>3. CASE Cancel \/ Propagate \/ WatcherStep \/ LoopStep \/ AcceptFails \/ Serve \/ ServeCancelled
  <2>1. conn' = conn
    BY <1>3 DEF Cancel, Propagate, WatcherStep, WatcherCloses, WatcherCancels, WatcherStops, LoopStep,
         TakeSlot, StopWaiting, Check, AcceptClosed, AcceptFails, Judge, Shutdown, Return, Serve, ServeCancelled
  <2>2. runDone' \in {runDone, TRUE}
    BY <1>3 DEF Cancel, Propagate, WatcherStep, WatcherCloses, WatcherCancels, WatcherStops, LoopStep,
         TakeSlot, StopWaiting, Check, AcceptClosed, AcceptFails, Judge, Shutdown, Return, Serve, ServeCancelled,
         contextVars
  <2>3. \A c \in Conns : Caused(conn[c], runDone) => Caused(conn[c], runDone')
    BY <2>2 DEF Caused
  <2>4. QED
    BY <1>1, <2>1, <2>2, <2>3 DEF CutInv, CauseOfCut
<1>4. ASSUME NEW c \in Conns, Accept(c, Start)
      PROVE  CutInv'
  <2>1. conn' = [conn EXCEPT ![c] = Start] /\ UNCHANGED runDone
    BY <1>4 DEF Accept, contextVars
  <2>2. Caused(Start, runDone)
    BY DEF Caused, Start
  <2>3. QED
    BY <1>1, <2>1, <2>2, OneChanges DEF CutInv
<1>5. ASSUME NEW c \in Conns, ConnectionStep(c) \/ PeerStep(c)
      PROVE  CutInv'
  BY <1>1, <1>5, ConnectionKeepsCause DEF CutInv
<1>6. QED
  BY <1>2, <1>3, <1>4, <1>5 DEF Next

\* No direction is ever cut because the other one has ended.
THEOREM CutForCauseHolds == Spec => []CutForCause
<1>1. Init => CutInv
  <2>1. SUFFICES ASSUME Init PROVE CutInv
    OBVIOUS
  <2>2. Inv
    BY <2>1, StartsRight
  <2>3. CauseOfCut
    BY <2>1 DEF Init, CauseOfCut, Caused, None, Connection
  <2>4. QED
    BY <2>2, <2>3 DEF CutInv
<1>2. CutInv => CutForCause
  <2>1. SUFFICES ASSUME CutInv, NEW c \in Conns, conn[c].at \in {"bridge", "closing"},
                        \E d \in Dirs : conn[c].copier[d] = "cut"
                 PROVE  runDone \/ \E d \in Dirs : conn[c].copier[d] = "failed"
    BY DEF CutForCause
  <2>2. conn[c] \in Connection
    BY <2>1, RecordOf DEF CutInv, Inv
  <2>3. QED
    BY <2>1, <2>2 DEF CutInv, CauseOfCut, Caused
<1>3. QED
  BY <1>1, <1>2, StepKeepsCause, PTL DEF Spec
=============================================================================
