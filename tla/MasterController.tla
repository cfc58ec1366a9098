-------------------------- MODULE MasterController --------------------------
(***************************************************************************)
(* Orders between class MasterController                                   *)
(* (src/controller/master-controller.ts) and an AGV: the master controller *)
(* keeps a cache for each order it has assigned, derives from the state    *)
(* messages of the AGV what has changed, and invokes the callbacks of the  *)
(* application.  The AGV is module AgvOrder, to which orders travel and    *)
(* from which a state message comes for each change it reports.            *)
(*                                                                         *)
(* A cache is the entry at its position in caches, for as long as it is    *)
(* live, that is, present in _currentOrders.  Positions are the identities *)
(* of the objects.                                                         *)
(*                                                                         *)
(* Abstractions.  There are one AGV, one master controller and at most one *)
(* cancelOrder action.  The properties onEdgeTraversing reports (driving,  *)
(* paused, ...) do not change: it is invoked once for each edge.  An error *)
(* is the order it rejects; other instant actions, and their validation    *)
(* errors, are in module InstantReports.                                   *)
(***************************************************************************)
EXTENDS OrderMessages, SequencesExt

CONSTANTS
    NoNode, Orders, Instants, Adapter, Lasting, VehicleRefuses,  \* see AgvOrder
    MaxAssigned,   \* bound on the orders assigned
    MaxLost,       \* bound on the state messages lost
    Capacity       \* bound on the state messages on their way

(* One vehicle without the traits of AgvOrder, and no other instant action *)
(* than cancelOrder.                                                       *)
ASSUME MasterAssumption ==
    /\ {MaxAssigned, MaxLost} \subseteq Nat
    /\ Capacity \in Nat /\ Capacity >= 3
    /\ Adapter = {} /\ Instants \subseteq {"cancelOrder"}
    /\ Lasting \subseteq ActionId /\ VehicleRefuses \in BOOLEAN
    /\ NoNode \notin NodeId

(* The application assigns orders with ids of their own that the vehicle   *)
(* can execute.                                                            *)
ASSUME AssignedOrders ==
    /\ Orders \subseteq Order
    /\ \A o \in Orders : o.orderId # NoOrder /\ WellFormed(o) /\ UniqueActions(o)
    /\ \A o, p \in Orders : o.orderId = p.orderId /\ o.upd = p.upd => o = p

VARIABLES
    order, lastNode, nodeStates, edgeStates, actionStatus, rejected, paused,
    pausedNode, canceling, exec, told, trav, stops, stopAt,     \* see AgvOrder
    cancelState,   \* AGV: the state of the cancelOrder action it reports
    orders,        \* messages on their way to the AGV
    states,        \* state messages on their way to the master controller
    lost,          \* number of state messages lost
    caches,        \* order state caches, in the order of assignment
    lastCache,     \* position of _currentOrders.get(agvId)["lastCache"], or 0
    canceler,      \* cache of the cancelOrder action: "unused", "live" or "removed"
    calls          \* callbacks invoked by the last step

Agv == INSTANCE AgvOrder

agvVars == <<order, lastNode, nodeStates, edgeStates, actionStatus, rejected, paused,
             pausedNode, canceling, exec, told, trav, stops, stopAt>>
masterVars == <<caches, lastCache, canceler>>
vars == <<agvVars, cancelState, orders, states, lost, masterVars, calls>>

(* Messages to the AGV: <<o>> is order o.                                  *)
CancelMessage == <<>>

ReportedOrder == [order : Orders, prev : Nat, live : BOOLEAN, invoked : BOOLEAN,
                  nodes : Seq(Node), edges : Seq(Edge),
                  passed : SUBSET [id : NodeId, seq : Nat],
                  traversing : BOOLEAN, edgeDone : SUBSET Nat,
                  mapped : SUBSET ActionId, seen : [ActionId -> Agv!Status]]

TypeOK ==
    /\ Agv!TypeOK
    /\ caches \in Seq(ReportedOrder) /\ lastCache \in 0..Len(caches)
    /\ \A i \in DOMAIN caches : caches[i].prev < i
    /\ canceler \in {"unused", "live", "removed"}
    /\ cancelState \in {"NONE", "RUNNING", "FINISHED", "REFUSED"}
    /\ orders \in Seq({<<o>> : o \in Orders} \cup {CancelMessage})
    /\ Len(states) <= Capacity /\ lost \in 0..MaxLost

-----------------------------------------------------------------------------
(* Caches. *)

BySequenceId(s) == SetToSortSeq(s, LAMBDA x, y : x.seq < y.seq)

(* The first element of an array with a property, if any (Array.find).     *)
Find(s, Test(_)) ==
    LET I == {i \in DOMAIN s : Test(s[i])}
    IN  {s[i] : i \in {j \in I : \A k \in I : j <= k}}

Live(id, upd) ==
    {i \in DOMAIN caches :
        caches[i].live /\ caches[i].order.orderId = id /\ caches[i].order.upd = upd}

(* _getLastAssignedOrderStateCache, read before the new cache replaces it. *)
LastAssigned == lastCache

(* _addOrderStateCache: the cache of an order to be assigned.              *)
NewCache(o) ==
    [order |-> o, prev |-> LastAssigned, live |-> TRUE, invoked |-> FALSE,
     nodes |-> BySequenceId(o.nodes), edges |-> BySequenceId(o.edges),
     passed |-> {}, traversing |-> FALSE, edgeDone |-> {},
     mapped |-> BaseActions(o), seen |-> [a \in ActionId |-> "ABSENT"]]

(* _removeOrderStateCache: lastCache goes when no order is left.           *)
Remaining(cs) == IF \E i \in DOMAIN cs : cs[i].live THEN lastCache ELSE 0

WrongLastActive(i, cs) ==
    LET j == cs[i].prev IN IF j # 0 /\ cs[j].live THEN {j} ELSE {}

(* _getLastActiveOrderStateCache: the closest of the caches that precede i *)
(* which is still there.                                                   *)
LastActive(i, cs) ==
    LET Before[k \in 0..Len(cs)] ==
            IF k = 0 THEN {} ELSE IF cs[k].live THEN {k} ELSE Before[cs[k].prev]
    IN  Before[cs[i].prev]

(* The cache c of an order stitched onto the one with cache last.          *)
Stitch(c, last) ==
    LET Kept(s) == SelectSeq(s, LAMBDA x : x.rel)
        base == Kept(last.nodes)
        end == [base[Len(base)] EXCEPT !.acts = @ \o c.nodes[1].acts]
    IN  [c EXCEPT !.nodes = Front(base) \o <<end>> \o Tail(@),
                  !.edges = Kept(last.edges) \o @,
                  !.passed = last.passed, !.traversing = last.traversing,
                  !.edgeDone = last.edgeDone,
                  !.mapped = @ \cup last.mapped, !.seen = last.seen]

-----------------------------------------------------------------------------
(* _dispatchOrderState.  A dispatch d holds the cache and the callbacks    *)
(* invoked so far: "action", "edgeTraversing", "edgeTraversed",            *)
(* "nodeTraversed", "processed" or "rejected", with what they are about.   *)

IsEnded(s, a) == s.acts[a] = "ENDED"
Canceling(s, statuses) == canceler = "live" /\ s.cancel \in statuses

(* Status changes of the actions of the order's base.                      *)
DispatchActions(d, s) ==
    LET changed == {a \in d.cache.mapped :
                       s.acts[a] # "ABSENT" /\ s.acts[a] # d.cache.seen[a]}
    IN  [cache |-> [d.cache EXCEPT !.seen =
                       [a \in ActionId |-> IF a \in changed THEN s.acts[a] ELSE @[a]]],
         calls |-> d.calls \cup {<<"action", a>> : a \in changed}]

(* The released edge that follows the node passed last.                    *)
NextEdge(c, place) ==
    Find(c.edges, LAMBDA e : e.rel /\ e.from = place.id /\ e.seq = place.seq + 1)

AreBlockingActionsEnded(c, place, s) ==
    \A n \in Find(c.nodes, LAMBDA m : Agv!Place(m) = place) :
        \A k \in DOMAIN n.acts : n.acts[k].blk = "NONE" \/ IsEnded(s, n.acts[k].id)

Traversed(e, c, s) == Agv!EdgeState(e) \notin s.edges /\ e.seq \notin c.edgeDone

(* _updateEdgeStateChanges: onEdgeTraversing is invoked for the first      *)
(* state and for those in which one of the properties has changed.         *)
EdgeStateChanges(c, edges) ==
    IF c.traversing THEN {} ELSE {<<"edgeTraversing", e.seq>> : e \in edges}

(* processEdgeEvents *)
DispatchEdge(d, s) ==
    LET c == d.cache
        edges == UNION {NextEdge(c, p) : p \in c.passed}
        first == EdgeStateChanges(c, edges)
    IN  IF edges = {} \/ Canceling(s, {"RUNNING", "FINISHED"}) THEN d
        ELSE IF \E e \in edges : Traversed(e, c, s)
        THEN [cache |-> [c EXCEPT !.traversing = FALSE, !.edgeDone = {e.seq : e \in edges}],
              calls |-> d.calls \cup first \cup {<<"edgeTraversed", e.seq>> : e \in edges}]
        ELSE IF /\ \A e \in edges : Agv!EdgeState(e) \in s.edges
                /\ c.traversing \/ \A p \in c.passed : AreBlockingActionsEnded(c, p, s)
        THEN [cache |-> [c EXCEPT !.traversing = TRUE], calls |-> d.calls \cup first]
        ELSE d

(* The node passed since the last state.                                   *)
NextNode(c, s) ==
    IF c.passed = {}
    THEN {n \in {c.nodes[1]} : \A m \in s.nodes : Agv!Place(m) # Agv!Place(n)}
    ELSE IF s.last \in c.passed THEN {}
    ELSE Find(c.nodes, LAMBDA n : Agv!Place(n) = s.last)

DispatchNode(d, s) ==
    LET next == NextNode(d.cache, s)
    IN  IF next = {} THEN d
        ELSE DispatchEdge(
                 [cache |-> [d.cache EXCEPT !.passed = {Agv!Place(n) : n \in next}],
                  calls |-> d.calls \cup {<<"nodeTraversed", n.seq>> : n \in next}], s)

WrongOrderProcessed(c, s) ==
    IF s.nodes = {} /\ s.edges = {} THEN "over"
    ELSE IF \A x \in s.nodes \cup s.edges : ~x.rel THEN "active"
    ELSE "no"

(* _isOrderProcessed: true, undefined or false.                            *)
OrderProcessed(c, s) ==
    IF \E a \in c.mapped : c.seen[a] # "ENDED" THEN "no"
    ELSE IF s.nodes = {} /\ s.edges = {} THEN "over"
    ELSE IF \A x \in s.nodes \cup s.edges : ~x.rel THEN "active"
    ELSE "no"

WrongDispatchResult(d, s) ==
    LET result == OrderProcessed(d.cache, s)
    IN  IF result = "no" THEN d
        ELSE [cache |-> [d.cache EXCEPT !.invoked = TRUE, !.live = (result = "active")],
              calls |-> d.calls \cup {<<"processed", result, Canceling(s, {"FINISHED"})>>}]

(* The order is reported processed.  The cache of one that is still active *)
(* stays: it is needed if another order is stitched to it.                 *)
DispatchResult(d, s) ==
    LET result == OrderProcessed(d.cache, s)
    IN  IF result = "no" \/ d.cache.invoked THEN d
        ELSE [cache |-> [d.cache EXCEPT !.invoked = TRUE, !.live = (result = "active"),
                                        !.prev = IF result = "active" THEN @ ELSE 0],
              calls |-> d.calls \cup {<<"processed", result, Canceling(s, {"FINISHED"})>>}]

DispatchCache(c, s) ==
    DispatchResult(DispatchNode(DispatchEdge(
        DispatchActions([cache |-> c, calls |-> {}], s), s), s), s)

-----------------------------------------------------------------------------
(* Operations of the master controller. *)

(* What the application assigns: orders with ids of their own, each one    *)
(* when the previous one is over, or to extend the base of that one.       *)
Assignable(o) ==
    /\ \A i \in DOMAIN caches : caches[i].order # o
    /\ \A i \in DOMAIN caches :
          caches[i].live /\ (\A j \in (i + 1)..Len(caches) : ~caches[j].live) =>
              \E m \in caches[i].order.nodes, n \in o.nodes :
                 IsBaseEnd(caches[i].order, m) /\ IsFirst(o, n) /\ Agv!Place(m) = Agv!Place(n)

(* assignOrder: an order that is being executed is not assigned again.     *)
AssignOrder(o) ==
    /\ Assignable(o) /\ Live(o.orderId, o.upd) = {}
    /\ Len(caches) < MaxAssigned
    /\ caches' = Append(caches, NewCache(o))
    /\ lastCache' = Len(caches) + 1
    /\ orders' = Append(orders, <<o>>)
    /\ calls' = {}
    /\ UNCHANGED <<agvVars, cancelState, states, lost, canceler>>

(* The promise of publish is rejected: the order has not been sent.        *)
PublishFails(i) ==
    /\ caches[i].live /\ orders # <<>> /\ Last(orders) = <<caches[i].order>>
    /\ i = Len(caches)
    /\ orders' = Front(orders)
    /\ caches' = [caches EXCEPT ![i].live = FALSE]
    /\ lastCache' = Remaining(caches')
    /\ calls' = {}
    /\ UNCHANGED <<agvVars, cancelState, states, lost, canceler>>

(* initiateInstantActions with a cancelOrder action.                       *)
InitiateCancel ==
    /\ "cancelOrder" \in Instants /\ canceler = "unused"
    /\ canceler' = "live"
    /\ orders' = Append(orders, CancelMessage)
    /\ calls' = {}
    /\ UNCHANGED <<agvVars, cancelState, states, lost, caches, lastCache>>

(* _dispatchState: first the rejection errors, then the order's state, at  *)
(* last the state of the instant action.                                   *)
DispatchState ==
    /\ states # <<>> /\ states' = Tail(states)
    /\ UNCHANGED <<agvVars, cancelState, orders, lost>>
    /\ LET s == Head(states)
           Errs == UNION {Live(e[1], e[2]) : e \in s.errors}
           kept == [i \in DOMAIN caches |-> IF i \in Errs THEN [caches[i] EXCEPT !.live = FALSE]
                                            ELSE caches[i]]
           Now == Live(s.orderId, s.upd) \ Errs
           Old == UNION {LastActive(i, kept) : i \in Now}
           Done(i) == DispatchCache(IF Old = {} THEN kept[i]
                                    ELSE Stitch(kept[i], kept[CHOOSE j \in Old : TRUE]), s)
       IN  /\ caches' = [i \in DOMAIN caches |->
                  IF i \in Now THEN Done(i).cache
                  ELSE IF i \in Old THEN [kept[i] EXCEPT !.live = FALSE, !.prev = 0]
                  ELSE kept[i]]
           /\ calls' = {<<i, "rejected">> : i \in Errs}
                           \cup UNION {{<<i>> \o c : c \in Done(i).calls} : i \in Now}
           /\ lastCache' = Remaining(caches')
           /\ canceler' = IF canceler = "live" /\ s.cancel \in {"FINISHED", "REFUSED"}
                          THEN "removed" ELSE canceler

-----------------------------------------------------------------------------
(* The AGV publishes its state with each change. *)

Snapshot == [orderId |-> order.orderId, upd |-> order.upd, last |-> lastNode,
             nodes |-> nodeStates, edges |-> edgeStates, acts |-> actionStatus,
             errors |-> rejected, cancel |-> cancelState]

(* Before an action that is dispatched reports that it runs, the handler   *)
(* that dispatches it has published the state with the action waiting.     *)
Started == {c.act : c \in exec'} \ {c.act : c \in exec}
Before == [Snapshot' EXCEPT !.acts =
              [a \in ActionId |-> IF a \in Started THEN "WAITING" ELSE @[a]]]

(* _acceptOrder publishes the accepted order before its first node is      *)
(* processed.                                                              *)
Accepted(o) ==
    [orderId |-> o.orderId, upd |-> o.upd, last |-> lastNode,
     nodes |-> {Agv!NodeState(n) : n \in o.nodes},
     edges |-> {Agv!EdgeState(e) : e \in o.edges},
     acts |-> [a \in ActionId |-> IF a \in BaseActions(o) THEN "WAITING" ELSE "ABSENT"],
     errors |-> {}, cancel |-> cancelState]

AgvStep == calls' = {} /\ UNCHANGED <<lost, masterVars>>
Publish(first) ==
    /\ states' = states \o first \o (IF Started = {} THEN <<>> ELSE <<Before>>) \o <<Snapshot'>>
    /\ Len(states') <= Capacity

ReceiveOrder ==
    /\ AgvStep /\ orders # <<>> /\ orders' = Tail(orders)
    /\ UNCHANGED cancelState
    /\ \E k \in DOMAIN Head(orders) : LET o == Head(orders)[k] IN
          \/ (Agv!RejectOrder(o) \/ Agv!DiscardOrder(o) \/ Agv!StitchOrder(o)) /\ Publish(<<>>)
          \/ Agv!StartOrder(o) /\ Publish(<<Accepted(o)>>)

(* cancelOrder is executed at once, or refused with an error.              *)
ReceiveCancel ==
    /\ AgvStep /\ orders # <<>> /\ orders' = Tail(orders)
    /\ Head(orders) = CancelMessage
    /\ IF Agv!HasActiveOrder
       THEN Agv!CancelOrder /\ cancelState' = "RUNNING"
       ELSE UNCHANGED agvVars /\ cancelState' = "REFUSED"
    /\ Publish(<<>>)

Execute ==
    /\ AgvStep /\ UNCHANGED orders
    /\ UNCHANGED cancelState
    /\ \/ Agv!EdgeTraversed \/ Agv!DrivingToNextNode
       \/ \E c \in exec : Agv!ActionBegins(c) \/ Agv!ActionEnds(c)
    /\ Publish(<<>>)

Stopped ==
    /\ AgvStep /\ UNCHANGED orders
    /\ Agv!Stopped /\ cancelState' = "FINISHED"
    /\ Publish(<<>>)

(* The state is published again after publishStateInterval, with or        *)
(* without the state or error of the instant action that has ended.        *)
PublishCurrentState ==
    /\ AgvStep /\ UNCHANGED <<orders, agvVars>>
    /\ cancelState' \in IF cancelState = "RUNNING" THEN {cancelState} ELSE {cancelState, "NONE"}
    /\ states = <<>>
    /\ Publish(<<>>)

(* Messages are published with QoS 0.                                      *)
LoseState ==
    /\ states # <<>> /\ lost < MaxLost
    /\ states' = Tail(states) /\ lost' = lost + 1
    /\ calls' = {}
    /\ UNCHANGED <<agvVars, cancelState, orders, masterVars>>

-----------------------------------------------------------------------------
Init ==
    /\ Agv!Init
    /\ cancelState = "NONE" /\ orders = <<>> /\ states = <<>> /\ lost = 0
    /\ caches = <<>> /\ lastCache = 0 /\ canceler = "unused" /\ calls = {}

Next ==
    \/ \E o \in Orders : AssignOrder(o)
    \/ \E i \in DOMAIN caches : PublishFails(i)
    \/ InitiateCancel \/ DispatchState
    \/ ReceiveOrder \/ ReceiveCancel \/ Execute \/ Stopped
    \/ PublishCurrentState \/ LoseState

Spec == Init /\ [][Next]_vars

-----------------------------------------------------------------------------
(* Properties. *)

(* onOrderProcessed: "Invoked once", and "After this callback has been     *)
(* invoked, no more callbacks related to the assigned order are invoked    *)
(* afterwards."  Nor are they after another order has been stitched to it. *)
SilentWhenProcessed ==
    [][\A i \in DOMAIN caches :
          caches[i].invoked \/ ~caches[i].live => \A c \in calls' : c[1] # i]_vars

(* Nodes are reported in the order of the route and each one once, from    *)
(* one order to the next that extends it; and, unless a state was lost,    *)
(* none before the vehicle has reached it.                                 *)
NodesInOrder ==
    [][\A i \in DOMAIN caches : caches'[i].passed # caches[i].passed =>
          /\ \A p \in caches[i].passed, q \in caches'[i].passed : p.seq < q.seq
          /\ lost = 0 /\ caches[i].order.orderId = order.orderId =>
                 \A q \in caches'[i].passed : q.seq <= lastNode.seq]_vars

(* An order that is reported processed has been: the vehicle has visited   *)
(* all nodes of its base and no action of it executes, although the state  *)
(* that said so was a while on its way.  An order that is reported         *)
(* rejected is not being executed.                                         *)
ProcessedRight ==
    [][\A c \in calls' :
          LET o == caches[c[1]].order IN
          (o.orderId = order.orderId /\ o.upd = order.upd) =>
              /\ c[2] = "processed" => Agv!todo = {} /\ exec = {}
              /\ c[2] # "rejected"]_vars

(* The master controller keeps the cache of an order for as long as the    *)
(* vehicle may report anything about it.                                   *)
ActiveOrderCached == Agv!HasActiveOrder => Live(order.orderId, order.upd) # {}

(* No order is forgotten: if no state was lost and none is on its way, and *)
(* the vehicle has nothing more to do, then the application has heard of   *)
(* each order it assigned that it is processed or rejected, or another     *)
(* order has been stitched to it.                                          *)
NoOrderForgotten ==
    /\ lost = 0 /\ orders = <<>> /\ states = <<>>
    /\ Agv!HasActiveOrder => Agv!AtHorizon /\ exec = {} /\ ~canceling
    => \A i \in DOMAIN caches : caches[i].live => caches[i].invoked

=============================================================================
