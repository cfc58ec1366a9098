------------------------------ MODULE AgvOrder ------------------------------
(***************************************************************************)
(* Execution of an order by class AgvController                            *)
(* (src/controller/agv-controller.ts): receiving, accepting, stitching and *)
(* updating orders, the dispatch of node and edge actions by blocking      *)
(* type, the traversal of edges, pause mode, and order cancelation.        *)
(*                                                                         *)
(* The controller is single-threaded: a handler or callback runs to        *)
(* completion, so each one is an atomic action here.  The AGV adapter is   *)
(* the environment.  It holds the contexts the controller gave it and      *)
(* invokes their callbacks in any order interface AgvAdapter permits.      *)
(*                                                                         *)
(* Abstractions.  An order's arrays of nodes and edges are sets: validated *)
(* orders list them by ascending sequenceId.  INITIALIZING, RUNNING and    *)
(* PAUSED are "RUNNING", FINISHED and FAILED are "ENDED": no branch of the *)
(* code tells them apart.  The checks of the vehicle's own state (route,   *)
(* executability, charging, e-stop, field violation, operating mode,       *)
(* deviation range) are one choice, VehicleRefuses.  Publication of the    *)
(* reported state is left out.                                             *)
(***************************************************************************)
EXTENDS OrderMessages

CONSTANTS
    NoNode,           \* lastNodeId before any node has been reached
    Orders,           \* the order messages the master control may publish
    Instants,         \* subset of {"cancelOrder", "pause"}: instant actions sent
    Adapter,          \* which of the AdapterTraits the AGV adapter has
    Lasting,          \* actions that run until the adapter is told to end them
    VehicleRefuses    \* may the state of the vehicle prohibit an order?

(* What an adapter may do beyond the most obedient one:                    *)
(*   "lateStart"   reports an action's initial status after executeAction  *)
(*                 has returned (VirtualAgvAdapter: on the next tick);     *)
(*   "lateArrival" invokes edgeTraversed after it has invoked stopped;     *)
(*   "arrivesPaused" can only pause on nodes: completes an edge in pause;  *)
(*   "button"      has a hardware button that toggles pause mode.          *)
AdapterTraits == {"lateStart", "lateArrival", "arrivesPaused", "button"}

(* Operators named Wrong... are mistakes that would be easy to make in the *)
(* code they stand next to; each breaks the properties the runs check.     *)

(* Node id and sequence id identify a node of an order. *)
Place(n) == [id |-> n.id, seq |-> n.seq]

ASSUME OrdersAssumption ==
    /\ Orders \subseteq Order
    /\ \A o \in Orders : o.orderId # NoOrder /\ WellFormed(o) /\ UniqueActions(o)
ASSUME TraitsAssumption ==
    /\ Adapter \subseteq AdapterTraits
    /\ Instants \subseteq {"cancelOrder", "pause"}
    /\ Lasting \subseteq ActionId
    /\ VehicleRefuses \in BOOLEAN
ASSUME NoNodeAssumption == NoNode \notin NodeId

VARIABLES
    order,          \* currentOrder
    lastNode,       \* lastNodeId and lastNodeSequenceId of the reported state
    nodeStates,     \* nodes of the order not yet traversed
    edgeStates,     \* edges of the order not yet traversed
    actionStatus,   \* status of each node or edge action, "ABSENT" if not reported
    rejected,       \* order rejection errors being reported
    paused,         \* is pause mode reported active?
    pausedNode,     \* _currentPausedNode as a set of at most one node
    canceling,      \* _cancelOrderContext # undefined
    exec,           \* adapter: contexts of dispatched actions that have not ended
    told,           \* adapter: actions it was told to cancel or to finish
    trav,           \* adapter: traversals whose edgeTraversed is outstanding
    stops,          \* adapter: stopTraverse calls whose stopped is outstanding
    stopAt          \* adapter: the node announced by drivingToNextNode, if any

reported == <<lastNode, nodeStates, edgeStates, actionStatus>>
dispatched == <<exec, told, trav>>
stopping == <<stops, stopAt>>
vars == <<order, reported, rejected, paused, pausedNode, canceling, dispatched, stopping>>

Status == {"ABSENT", "WAITING", "RUNNING", "ENDED"}
Context == [act : ActionId, scope : {"node"}, at : Node]
               \cup [act : ActionId, scope : {"edge"}, at : Edge]

TypeOK ==
    /\ order \in Order
    /\ lastNode \in [id : NodeId \cup {NoNode}, seq : Nat]
    /\ nodeStates \subseteq [id : NodeId, seq : Nat, rel : BOOLEAN]
    /\ edgeStates \subseteq [from : NodeId, to : NodeId, seq : Nat, rel : BOOLEAN]
    /\ actionStatus \in [ActionId -> Status]
    /\ rejected \subseteq (OrderId \X Nat)
    /\ paused \in BOOLEAN
    /\ pausedNode \subseteq Node
    /\ canceling \in BOOLEAN
    /\ exec \subseteq Context
    /\ told \subseteq ActionId
    /\ trav \in Seq([edge : Edge, to : Node])
    /\ stops \in Nat
    /\ stopAt \subseteq Node

-----------------------------------------------------------------------------
(* Reported states of an order. *)

NodeState(n) == [id |-> n.id, seq |-> n.seq, rel |-> n.rel]
EdgeState(e) == [from |-> e.from, to |-> e.to, seq |-> e.seq, rel |-> e.rel]
Active(ns, es, st) ==
    ns # {} \/ es # {} \/ \E a \in ActionId : st[a] \in {"WAITING", "RUNNING"}
HasActiveOrder == Active(nodeStates, edgeStates, actionStatus)

Started == IF "lateStart" \in Adapter THEN "WAITING" ELSE "RUNNING"

-----------------------------------------------------------------------------
(* Which handlers of the adapter a step invokes: the contexts given to     *)
(* executeAction, and the traversal, if any, given to traverseEdge.        *)

NoWork == [run |-> {}, drive |-> <<>>]

WrongChunk(acts, k) == (k + 1)..Len(acts)

(* The actions after position k that are executed next: a HARD one alone,  *)
(* or all the NONE and SOFT ones up to the next HARD one.                  *)
Chunk(acts, k) ==
    IF k < Len(acts) /\ acts[k + 1].blk = "HARD"
    THEN {k + 1}
    ELSE {i \in (k + 1)..Len(acts) : \A j \in (k + 1)..i : acts[j].blk # "HARD"}

Contexts(scope, x, I) == {[act |-> x.acts[i].id, scope |-> scope, at |-> x] : i \in I}

Traverse(o, e) ==
    [run |-> {}, drive |-> <<[edge |-> e, to |-> CHOOSE n \in o.nodes : Leads(e, n)]>>]

EdgeWork(o, e, k) ==
    LET I == Chunk(e.acts, k)
    IN  IF I = {} THEN Traverse(o, e)
        ELSE [run |-> Contexts("edge", e, I), drive |-> <<>>]

WrongTrailingEdges(o, n) == {e \in o.edges : e.from = n.id /\ e.rel}
TrailingEdges(o, n) ==
    {e \in o.edges : e.from = n.id /\ e.seq = n.seq + 1 /\ e.rel}

ProcessEdge(o, n) ==
    IF TrailingEdges(o, n) = {} THEN NoWork
    ELSE EdgeWork(o, CHOOSE e \in TrailingEdges(o, n) : TRUE, 0)

NodeWork(o, n, k) ==
    LET I == Chunk(n.acts, k)
    IN  IF I = {} THEN ProcessEdge(o, n)
        ELSE [run |-> Contexts("node", n, I), drive |-> <<>>]

WrongGroup(acts, k) == {k}
WrongWholeGroup(acts, k) == DOMAIN acts

(* The actions executed in parallel with the NONE or SOFT action at k. *)
Group(acts, k) ==
    {i \in DOMAIN acts : \A j \in DOMAIN acts :
        (i <= j /\ j <= k) \/ (k <= j /\ j <= i) => acts[j].blk # "HARD"}

Position(acts, a) ==
    CHOOSE i \in DOMAIN acts : acts[i].id = a /\ \A j \in 1..(i - 1) : acts[j].id # a

(* How processing continues when action c.act has ended, with st the       *)
(* statuses of the actions then.                                           *)
Continuation(o, c, st) ==
    LET acts == c.at.acts
        k == Position(acts, c.act)
        More(j) == IF c.scope = "node" THEN NodeWork(o, c.at, j) ELSE EdgeWork(o, c.at, j)
        Ended(I) == \A i \in I : st[acts[i].id] = "ENDED"
        Later == {h \in DOMAIN acts : h > k /\ acts[h].blk = "HARD"}
        NextHard == {h \in Later : \A g \in Later : h <= g}
        Proceed == IF c.scope = "node" THEN ProcessEdge(o, c.at) ELSE Traverse(o, c.at)
    IN  CASE acts[k].blk = "HARD" -> More(k)
          [] acts[k].blk # "HARD" /\ Later # {} ->
                 IF Ended(Group(acts, k))
                 THEN [run |-> Contexts(c.scope, c.at, NextHard), drive |-> <<>>]
                 ELSE NoWork
          [] OTHER ->
                 IF Ended({i \in Group(acts, k) : acts[i].blk = "SOFT"})
                 THEN Proceed ELSE NoWork

(* Invoke the handlers in w, from statuses st, contexts xs, traversals ts. *)
Perform(w, st, xs, ts) ==
    /\ actionStatus' = [a \in ActionId |->
           IF a \in {c.act : c \in w.run} THEN Started ELSE st[a]]
    /\ exec' = xs \cup w.run
    /\ trav' = ts \o w.drive

(* _finishEdgeActions: the actions the adapter is told to finish when it   *)
(* leaves the given edges.                                                 *)
ToBeFinished(left, st) == {a \in UNION {ActionIdsOf(e) : e \in left} : st[a] # "ENDED"}

(* _processNode(n, traversedEdge), from node states ns, edge states es and *)
(* statuses st; left holds the traversed edge, if any.  The callers        *)
(* determine order', paused' and the traversals ts still outstanding.      *)
ProcessNode(n, left, ns, es, st, ts) ==
    IF n.rel /\ ~paused'
    THEN /\ nodeStates' = {s \in ns : Place(s) # Place(n)}
         /\ edgeStates' = {s \in es : s \notin {EdgeState(e) : e \in left}}
         /\ lastNode' = Place(n)
         /\ told' = told \cup ToBeFinished(left, st)
         /\ Perform(NodeWork(order', n, 0), st, exec, ts)
    ELSE /\ nodeStates' = ns /\ edgeStates' = es
         /\ UNCHANGED <<lastNode, told>>
         /\ Perform(NoWork, st, exec, ts)

-----------------------------------------------------------------------------
(* Orders received from the master control. *)

SameOrder(o) == o.orderId = order.orderId

ExtendsBase(o) == \E m \in order.nodes, n \in o.nodes :
    IsBaseEnd(order, m) /\ IsFirst(o, n) /\ Place(m) = Place(n)

ExtendsLastNode(o) == \E n \in o.nodes : IsFirst(o, n) /\ Place(n) = lastNode

(* Reasons of the controller itself for rejecting an order. *)
Unacceptable(o) ==
    \/ canceling
    \/ SameOrder(o) /\ o.upd < order.upd
    \/ HasActiveOrder /\ ~ExtendsBase(o) /\ ~(SameOrder(o) /\ o.upd = order.upd)
    \/ SameOrder(o) /\ o.upd > order.upd /\ ~HasActiveOrder /\ ~ExtendsLastNode(o)

RejectOrder(o) ==
    /\ Unacceptable(o) \/ VehicleRefuses
    /\ rejected' = rejected \cup {<<o.orderId, o.upd>>}
    /\ UNCHANGED <<order, reported, paused, pausedNode, canceling, dispatched, stopping>>

(* An order already assigned: only the state is published again. *)
DiscardOrder(o) ==
    /\ ~canceling /\ SameOrder(o) /\ o.upd = order.upd
    /\ UNCHANGED vars

(* Modes "new" and "update": the order replaces an inactive one. *)
StartOrder(o) ==
    /\ ~Unacceptable(o) /\ ~HasActiveOrder
    /\ SameOrder(o) => o.upd # order.upd
    /\ order' = o
    /\ rejected' = {}
    /\ UNCHANGED <<paused, canceling, stopping>>
    /\ \E n \in o.nodes :
          /\ IsFirst(o, n)
          /\ pausedNode' = IF paused THEN {n} ELSE pausedNode
          /\ ProcessNode(n, {}, {NodeState(m) : m \in o.nodes}, {EdgeState(e) : e \in o.edges},
                         [a \in ActionId |-> IF a \in BaseActions(o) THEN "WAITING" ELSE "ABSENT"],
                         trav)

WrongStitched(o, end, first) == o
WrongHorizon(o, end, first) ==
    [orderId |-> o.orderId, upd |-> o.upd,
     nodes |-> (order.nodes \ {end}) \cup {[end EXCEPT !.acts = @ \o first.acts]}
                  \cup (o.nodes \ {first}),
     edges |-> order.edges \cup o.edges]

(* The order that results from stitching o to the current one at end: the  *)
(* horizon is cut off, and the actions of o's first node are appended.     *)
Stitched(o, end, first) ==
    [orderId |-> o.orderId, upd |-> o.upd,
     nodes |-> (Base(order) \ {end}) \cup {[end EXCEPT !.acts = @ \o first.acts]}
                  \cup (o.nodes \ {first}),
     edges |-> {e \in order.edges : e.rel} \cup o.edges]

(* Mode "stitch".  The node at which the base ends is an object shared     *)
(* with the contexts and traversals that refer to it: they see the         *)
(* appended actions.                                                       *)
StitchOrder(o) ==
    /\ ~Unacceptable(o) /\ HasActiveOrder
    /\ SameOrder(o) => o.upd # order.upd
    /\ BaseActions(o) \cap BaseActions(order) = {}  \* see UniqueActions
    /\ \E end \in order.nodes, first \in o.nodes :
          LET new == [end EXCEPT !.acts = @ \o first.acts]
              Now(n) == IF n = end THEN new ELSE n
              fresh == [a \in ActionId |->
                           IF a \in BaseActions(o) THEN "WAITING" ELSE actionStatus[a]]
              idle == /\ \A s \in nodeStates : Place(s) # Place(end)
                      /\ \A a \in ActionIdsOf(new) : actionStatus[a] = "ENDED"
          IN  /\ IsBaseEnd(order, end) /\ IsFirst(o, first) /\ Place(end) = Place(first)
              /\ order' = Stitched(o, end, first)
              /\ nodeStates' = {s \in nodeStates : s.rel}
                                   \cup {NodeState(n) : n \in o.nodes \ {first}}
              /\ edgeStates' = {s \in edgeStates : s.rel} \cup {EdgeState(e) : e \in o.edges}
              /\ pausedNode' = {Now(n) : n \in pausedNode}
              /\ Perform(IF idle THEN ProcessEdge(order', new) ELSE NoWork, fresh,
                         {[c EXCEPT !.at = IF c.scope = "node" THEN Now(c.at) ELSE c.at] : c \in exec},
                         [i \in DOMAIN trav |-> [trav[i] EXCEPT !.to = Now(@)]])
    /\ rejected' = {}
    /\ UNCHANGED <<lastNode, told, paused, canceling, stopping>>

-----------------------------------------------------------------------------
(* Callbacks of the AGV adapter while an order is executed. *)

(* Edge traversal is postponed in pause mode, save by an adapter that must *)
(* drive on to the next node.                                              *)
EdgeTraversed ==
    /\ trav # <<>>
    /\ paused => "arrivesPaused" \in Adapter
    /\ UNCHANGED <<order, rejected, paused, canceling, stopping>>
    /\ IF canceling
       THEN /\ trav' = Tail(trav)
            /\ UNCHANGED <<reported, pausedNode, exec, told>>
       ELSE LET t == Head(trav) IN
            /\ pausedNode' = IF t.to.rel /\ paused THEN {t.to} ELSE pausedNode
            /\ ProcessNode(t.to, {t.edge}, nodeStates, edgeStates, actionStatus, Tail(trav))

(* A dispatched action reports its initial status. *)
ActionBegins(c) ==
    /\ "lateStart" \in Adapter
    /\ actionStatus[c.act] # "RUNNING"
    /\ actionStatus' = [actionStatus EXCEPT ![c.act] = "RUNNING"]
    /\ UNCHANGED <<order, lastNode, nodeStates, edgeStates, rejected, paused, pausedNode,
                   canceling, dispatched, stopping>>

WrongActionsEnded(st) == \E a \in BaseActions(order) : st[a] = "ENDED"
WrongEveryActionEnded(st) == \A a \in ActionId : st[a] = "ENDED"
AllActionsEnded(st) == \A a \in BaseActions(order) : st[a] = "ENDED"

(* A dispatched action reports FINISHED or FAILED.  In pause mode, and if  *)
(* the action lasts, only because the adapter was told to end it.          *)
ActionEnds(c) ==
    LET st == [actionStatus EXCEPT ![c.act] = "ENDED"] IN
    /\ paused \/ c.act \in Lasting => c.act \in told
    /\ told' = told \ {c.act}
    /\ IF canceling
       THEN /\ Perform(NoWork, st, exec \ {c}, trav)
            /\ stops' = IF AllActionsEnded(st) THEN stops + 1 ELSE stops
       ELSE /\ Perform(Continuation(order, c, st), st, exec \ {c}, trav)
            /\ UNCHANGED stops
    /\ UNCHANGED <<order, lastNode, nodeStates, edgeStates, rejected, paused, pausedNode,
                   canceling, stopAt>>

-----------------------------------------------------------------------------
(* Order cancelation. *)

(* Instant action cancelOrder, checked and processed at once: waiting      *)
(* actions fail, running ones are to be canceled, then the AGV stops.      *)
CancelOrder ==
    LET st == [a \in ActionId |->
                  IF actionStatus[a] = "WAITING" THEN "ENDED" ELSE actionStatus[a]]
        running == {a \in ActionId : st[a] = "RUNNING"}
    IN  /\ "cancelOrder" \in Instants
        /\ HasActiveOrder /\ ~canceling
        /\ canceling' = TRUE
        /\ actionStatus' = st
        /\ told' = told \cup running
        /\ stops' = IF running = {} THEN stops + 1 ELSE stops
        /\ UNCHANGED <<order, lastNode, nodeStates, edgeStates, rejected, paused, pausedNode,
                       exec, trav, stopAt>>

(* The adapter cannot stop in between nodes and announces the next one. *)
DrivingToNextNode ==
    /\ stops > 0 /\ trav # <<>> /\ stopAt = {}
    /\ stopAt' = {Head(trav).to}
    /\ nodeStates' = {s \in nodeStates : Place(s) = Place(Head(trav).to)}
    /\ edgeStates' = {}
    /\ UNCHANGED <<order, lastNode, actionStatus, rejected, paused, pausedNode, canceling,
                   dispatched, stops>>

(* The AGV has stopped: the order is deleted.  VirtualAgvAdapter also ends *)
(* pause mode here.                                                        *)
Stopped ==
    /\ stops > 0
    /\ stops' = stops - 1
    /\ stopAt' = {}
    /\ canceling' = FALSE
    /\ nodeStates' = {} /\ edgeStates' = {}
    /\ paused' \in {paused, FALSE}
    /\ trav' = IF "lateArrival" \in Adapter THEN trav ELSE <<>>
    /\ UNCHANGED <<order, lastNode, actionStatus, rejected, pausedNode, exec, told>>

-----------------------------------------------------------------------------
(* Pause mode. *)

StartPause ==
    /\ "pause" \in Instants /\ ~paused
    /\ paused' = TRUE
    /\ UNCHANGED <<order, reported, rejected, pausedNode, canceling, dispatched, stopping>>

WrongStopPause ==
    /\ "pause" \in Instants
    /\ paused' = FALSE
    /\ pausedNode' = {}
    /\ UNCHANGED <<order, reported, rejected, canceling, dispatched, stopping>>

(* stopPause reports FINISHED with linked state paused = false; then the   *)
(* controller resumes the node it has suspended.                           *)
StopPause ==
    /\ "pause" \in Instants
    /\ paused' = FALSE
    /\ pausedNode' = {}
    /\ UNCHANGED <<order, rejected, canceling, stopping>>
    /\ IF pausedNode = {} \/ canceling
       THEN UNCHANGED <<reported, dispatched>>
       ELSE \E n \in pausedNode : ProcessNode(n, {}, nodeStates, edgeStates, actionStatus, trav)

PauseButton ==
    /\ "button" \in Adapter
    /\ paused' = ~paused
    /\ UNCHANGED <<order, reported, rejected, pausedNode, canceling, dispatched, stopping>>

-----------------------------------------------------------------------------
Init ==
    /\ order = [orderId |-> NoOrder, upd |-> 0, nodes |-> {}, edges |-> {}]
    /\ lastNode = [id |-> NoNode, seq |-> 0]
    /\ nodeStates = {} /\ edgeStates = {}
    /\ actionStatus = [a \in ActionId |-> "ABSENT"]
    /\ rejected = {}
    /\ paused = FALSE /\ pausedNode = {} /\ canceling = FALSE
    /\ exec = {} /\ told = {} /\ trav = <<>> /\ stops = 0 /\ stopAt = {}

Next ==
    \/ \E o \in Orders : RejectOrder(o) \/ DiscardOrder(o) \/ StartOrder(o) \/ StitchOrder(o)
    \/ EdgeTraversed
    \/ \E c \in exec : ActionBegins(c) \/ ActionEnds(c)
    \/ CancelOrder \/ DrivingToNextNode \/ Stopped
    \/ StartPause \/ StopPause \/ PauseButton

Spec == Init /\ [][Next]_vars

(* The adapter keeps its promises: a traversal is completed, an action     *)
(* ends, a stop is reported.  Nothing obliges the master control to act.   *)
Fairness ==
    /\ WF_vars(EdgeTraversed)
    /\ WF_vars(Stopped)
    /\ \A a \in ActionId : WF_vars(\E c \in exec : c.act = a /\ ActionEnds(c))

FairSpec == Spec /\ Fairness
-----------------------------------------------------------------------------
(* Properties. *)

Blocking(c) == c.at.acts[Position(c.at.acts, c.act)].blk

(* A HARD action executes alone: while its context is with the adapter no  *)
(* other node or edge action is (_processNodeActions, "up to the next HARD *)
(* blocking action", and _areParallelActionsEnded).                        *)
HardRunsAlone == \A c, d \in exec : Blocking(c) = "HARD" => c = d

(* The AGV has an edge to traverse only while no SOFT or HARD action       *)
(* executes: their end is what lets _processEdge and _traverseEdge go on.  *)
StandsWhileBlocked == trav # <<>> => \A c \in exec : Blocking(c) = "NONE"

(* traverseEdge is not invoked again before edgeTraversed, and the edge    *)
(* being traversed is one the state still reports, unless it is canceled.  *)
OneTraversal ==
    /\ Len(trav) <= 1
    /\ trav # <<>> /\ ~canceling => EdgeState(Head(trav).edge) \in edgeStates

(* Once an order is over nothing of it is left with the adapter or in the  *)
(* controller: no action executes, no edge is traversed, no stop is        *)
(* expected and no node waits for pause mode to end.                       *)
IdleIsQuiet ==
    ~HasActiveOrder /\ ~canceling => exec = {} /\ trav = <<>> /\ stops = 0 /\ pausedNode = {}

(* stopTraverse is not invoked again before stopped has been invoked: of   *)
(* all the actions that end while an order is canceled just one is last.   *)
StopsOnce == stops <= 1

(* When stopTraverse is invoked all scheduled actions of the order being   *)
(* canceled have ended, and no other one is dispatched until it stops.     *)
StopsLast == stops > 0 => canceling /\ exec = {}

(* The base has been traversed, and the horizon waits to be released. *)
AtHorizon ==
    /\ nodeStates # {} /\ \A s \in nodeStates : ~s.rel
    /\ \A a \in ActionId : actionStatus[a] \in {"ABSENT", "ENDED"}

(* An active order never hangs: outside pause mode some callback of the    *)
(* adapter is outstanding, or the order waits at its horizon, or for       *)
(* stopPause if pause mode was ended by the button.  No handler of the     *)
(* controller may return without having started the next step.             *)
NeverHangs ==
    HasActiveOrder /\ ~paused =>
        exec # {} \/ trav # <<>> \/ stops > 0 \/ AtHorizon \/ pausedNode # {}

(* Every reported action is one of the current base, so that _cancelOrder  *)
(* finds the node or edge of every action it must cancel.                  *)
CancelFindsActions ==
    \A a \in ActionId : actionStatus[a] # "ABSENT" => a \in BaseActions(order)

(* While an order is executed the reported nodes and edges are exactly its *)
(* route beyond the last node, after stitching as well.                    *)
RouteAhead ==
    HasActiveOrder /\ ~canceling /\ pausedNode = {} =>
        /\ nodeStates = {NodeState(n) : n \in {m \in order.nodes : m.seq > lastNode.seq}}
        /\ edgeStates = {EdgeState(e) : e \in {f \in order.edges : f.seq > lastNode.seq}}

(* The AGV is reported at another node only when an order starts there, or *)
(* by way of the one released edge that leads from the last node to it.    *)
NoNodeSkipped ==
    [][\/ lastNode' = lastNode
       \/ \E n \in order'.nodes : IsFirst(order', n) /\ lastNode' = Place(n)
       \/ \E e \in order.edges :
             /\ e.rel /\ e.from = lastNode.id /\ e.to = lastNode'.id
             /\ e.seq = lastNode.seq + 1 /\ lastNode'.seq = e.seq + 1]_vars

(* The status of an action of an order only moves forward: no action is    *)
(* executed twice, or revived after it has ended or has been canceled.     *)
StatusMovesForward ==
    [][\A a \in ActionId :
          /\ actionStatus[a] = "ENDED" => actionStatus'[a] = "ENDED" \/ order' # order
          /\ actionStatus[a] = "RUNNING" => actionStatus'[a] \in {"RUNNING", "ENDED"}]_vars

(* Without pause mode, an active order completes, or reaches its horizon.  *)
OrderCompletes == HasActiveOrder ~> (~HasActiveOrder \/ AtHorizon)

(* The life of an order as the master control may rely on it. *)
phase == IF canceling THEN "canceling" ELSE IF HasActiveOrder THEN "active" ELSE "idle"
todo == {s.seq : s \in {r \in nodeStates : r.rel}}

Lifecycle == INSTANCE OrderLifecycle WITH phase <- phase, todo <- todo
ImplementsLifecycle == Lifecycle!Spec
ImplementsFairLifecycle == Lifecycle!FairSpec
=============================================================================
