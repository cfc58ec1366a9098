---------------------- MODULE MasterController_proofs ----------------------
(***************************************************************************)
(* Theorems about MasterController: the safety properties that relate the  *)
(* caches of the master controller to what the vehicle does, for every     *)
(* set of orders and every number of messages on their way.                *)
(*                                                                         *)
(* The vehicle is as in AgvOrder_proofs, whose lemmas are cited as AgvP!:  *)
(* its NONE actions run alone when no HARD action follows them.            *)
(*                                                                         *)
(* Argument.  Each report either says no more than the one before          *)
(* (Lessens), or is the first one of a later order; a later order begins   *)
(* only when the one before is over, or as its continuation.  A trace V of *)
(* the reports that count, from the one dispatched last to the present     *)
(* state of the vehicle, connects the caches with the vehicle; InSync says *)
(* that there is one.  The vehicle extends the trace at its end, and       *)
(* _dispatchState takes a report from its beginning.  A report that is     *)
(* lost breaks the trace: nothing is claimed of the caches after that.     *)
(***************************************************************************)
EXTENDS MasterController, WellFoundedInduction, TLAPS

AgvP == INSTANCE AgvOrder_proofs

-----------------------------------------------------------------------------
(* The vehicle: what the theorems about AgvOrder say of it here. *)

LEMMA SameNames ==
    /\ AgvP!Order = Order
    /\ \A o : /\ AgvP!BaseActions(o) = BaseActions(o)
              /\ AgvP!WellFormed(o) <=> WellFormed(o)
              /\ AgvP!UniqueActions(o) <=> UniqueActions(o)
<1>1. AgvP!Order = Order
  BY DEF AgvP!Order, Order, AgvP!Node, Node, AgvP!Edge, Edge, AgvP!Action, Action
<1>2. ASSUME NEW o PROVE AgvP!BaseActions(o) = BaseActions(o)
  BY DEF AgvP!BaseActions, BaseActions, AgvP!Released, Released, AgvP!ActionIdsOf, ActionIdsOf
<1>3. ASSUME NEW o PROVE AgvP!WellFormed(o) <=> WellFormed(o)
  BY DEF AgvP!WellFormed, WellFormed, AgvP!IsFirst, IsFirst, AgvP!Leads, Leads
<1>4. ASSUME NEW o PROVE AgvP!UniqueActions(o) <=> UniqueActions(o)
  BY DEF AgvP!UniqueActions, UniqueActions, AgvP!Released, Released,
         AgvP!ActionIdsOf, ActionIdsOf
<1> QED  BY <1>1, <1>2, <1>3, <1>4

(* The assumptions of AgvOrder. *)
LEMMA AgvAssumptions ==
    /\ Orders \subseteq AgvP!Order
    /\ \A o \in Orders : o.orderId # NoOrder /\ AgvP!WellFormed(o) /\ AgvP!UniqueActions(o)
    /\ Adapter \subseteq AgvP!AdapterTraits
    /\ Instants \subseteq {"cancelOrder", "pause"}
    /\ Lasting \subseteq ActionId
    /\ VehicleRefuses \in BOOLEAN
    /\ NoNode \notin NodeId
BY MasterAssumption, AssignedOrders, SameNames

LEMMA AgvObedient == AgvP!Obedient
  BY MasterAssumption DEF AgvP!Obedient

(* Its steps are the same by both names. *)
LEMMA SameSteps ==
    /\ \A o : /\ Agv!RejectOrder(o) => AgvP!RejectOrder(o)
              /\ Agv!DiscardOrder(o) => AgvP!DiscardOrder(o)
              /\ Agv!StartOrder(o) => AgvP!StartOrder(o)
              /\ Agv!StitchOrder(o) => AgvP!StitchOrder(o)
    /\ \A c : /\ Agv!ActionBegins(c) => AgvP!ActionBegins(c)
              /\ Agv!ActionEnds(c) => AgvP!ActionEnds(c)
    /\ Agv!EdgeTraversed => AgvP!EdgeTraversed
    /\ Agv!DrivingToNextNode => AgvP!DrivingToNextNode
    /\ Agv!CancelOrder => AgvP!CancelOrder
    /\ Agv!Stopped => AgvP!Stopped
    /\ Agv!HasActiveOrder <=> AgvP!HasActiveOrder
<1> USE DEF
          Agv!Place, AgvP!Place, Agv!NodeState, AgvP!NodeState, Agv!EdgeState,
          AgvP!EdgeState, Agv!Active, AgvP!Active, Agv!HasActiveOrder,
          AgvP!HasActiveOrder, Agv!Started, AgvP!Started, Agv!NoWork,
          AgvP!NoWork, Agv!Chunk, AgvP!Chunk, Agv!Contexts, AgvP!Contexts,
          Agv!Traverse, AgvP!Traverse, Agv!EdgeWork, AgvP!EdgeWork,
          Agv!TrailingEdges, AgvP!TrailingEdges, Agv!ProcessEdge,
          AgvP!ProcessEdge, Agv!NodeWork, AgvP!NodeWork, Agv!Group, AgvP!Group,
          Agv!Position, AgvP!Position, Agv!Continuation, AgvP!Continuation,
          Agv!Perform, AgvP!Perform, Agv!ToBeFinished, AgvP!ToBeFinished,
          Agv!ProcessNode, AgvP!ProcessNode, Agv!SameOrder, AgvP!SameOrder,
          Agv!ExtendsBase, AgvP!ExtendsBase, Agv!ExtendsLastNode,
          AgvP!ExtendsLastNode, Agv!Unacceptable, AgvP!Unacceptable,
          Agv!RejectOrder, AgvP!RejectOrder, Agv!DiscardOrder,
          AgvP!DiscardOrder, Agv!StartOrder, AgvP!StartOrder, Agv!Stitched,
          AgvP!Stitched, Agv!StitchOrder, AgvP!StitchOrder, Agv!EdgeTraversed,
          AgvP!EdgeTraversed, Agv!ActionBegins, AgvP!ActionBegins,
          Agv!AllActionsEnded, AgvP!AllActionsEnded, Agv!ActionEnds,
          AgvP!ActionEnds, Agv!CancelOrder, AgvP!CancelOrder,
          Agv!DrivingToNextNode, AgvP!DrivingToNextNode, Agv!Stopped,
          AgvP!Stopped, Agv!Base, AgvP!Base, Agv!IsFirst, AgvP!IsFirst,
          Agv!IsBaseEnd, AgvP!IsBaseEnd, Agv!Leads, AgvP!Leads, Agv!ActionIdsOf,
          AgvP!ActionIdsOf, Agv!Released, AgvP!Released, Agv!BaseActions,
          AgvP!BaseActions, Agv!reported, AgvP!reported, Agv!dispatched,
          AgvP!dispatched, Agv!stopping, AgvP!stopping, Agv!vars, AgvP!vars
<1>1. ASSUME NEW o, Agv!RejectOrder(o) PROVE AgvP!RejectOrder(o)
  BY <1>1
<1>2. ASSUME NEW o, Agv!DiscardOrder(o) PROVE AgvP!DiscardOrder(o)
  BY <1>2
<1>3. ASSUME NEW o, Agv!StartOrder(o) PROVE AgvP!StartOrder(o)
  BY <1>3
<1>4. ASSUME NEW o, Agv!StitchOrder(o) PROVE AgvP!StitchOrder(o)
  BY <1>4
<1>5. ASSUME NEW c, Agv!ActionBegins(c) PROVE AgvP!ActionBegins(c)
  BY <1>5
<1>6. ASSUME NEW c, Agv!ActionEnds(c) PROVE AgvP!ActionEnds(c)
  BY <1>6
<1>7. ASSUME Agv!EdgeTraversed PROVE AgvP!EdgeTraversed
  BY <1>7
<1>8. ASSUME Agv!DrivingToNextNode PROVE AgvP!DrivingToNextNode
  BY <1>8
<1>9. ASSUME Agv!CancelOrder PROVE AgvP!CancelOrder
  BY <1>9
<1>10. ASSUME Agv!Stopped PROVE AgvP!Stopped
  BY <1>10
<1>11. Agv!HasActiveOrder <=> AgvP!HasActiveOrder
  OBVIOUS
<1> HIDE DEF
          Agv!Place, AgvP!Place, Agv!NodeState, AgvP!NodeState, Agv!EdgeState,
          AgvP!EdgeState, Agv!Active, AgvP!Active, Agv!HasActiveOrder,
          AgvP!HasActiveOrder, Agv!Started, AgvP!Started, Agv!NoWork,
          AgvP!NoWork, Agv!Chunk, AgvP!Chunk, Agv!Contexts, AgvP!Contexts,
          Agv!Traverse, AgvP!Traverse, Agv!EdgeWork, AgvP!EdgeWork,
          Agv!TrailingEdges, AgvP!TrailingEdges, Agv!ProcessEdge,
          AgvP!ProcessEdge, Agv!NodeWork, AgvP!NodeWork, Agv!Group, AgvP!Group,
          Agv!Position, AgvP!Position, Agv!Continuation, AgvP!Continuation,
          Agv!Perform, AgvP!Perform, Agv!ToBeFinished, AgvP!ToBeFinished,
          Agv!ProcessNode, AgvP!ProcessNode, Agv!SameOrder, AgvP!SameOrder,
          Agv!ExtendsBase, AgvP!ExtendsBase, Agv!ExtendsLastNode,
          AgvP!ExtendsLastNode, Agv!Unacceptable, AgvP!Unacceptable,
          Agv!RejectOrder, AgvP!RejectOrder, Agv!DiscardOrder,
          AgvP!DiscardOrder, Agv!StartOrder, AgvP!StartOrder, Agv!Stitched,
          AgvP!Stitched, Agv!StitchOrder, AgvP!StitchOrder, Agv!EdgeTraversed,
          AgvP!EdgeTraversed, Agv!ActionBegins, AgvP!ActionBegins,
          Agv!AllActionsEnded, AgvP!AllActionsEnded, Agv!ActionEnds,
          AgvP!ActionEnds, Agv!CancelOrder, AgvP!CancelOrder,
          Agv!DrivingToNextNode, AgvP!DrivingToNextNode, Agv!Stopped,
          AgvP!Stopped, Agv!Base, AgvP!Base, Agv!IsFirst, AgvP!IsFirst,
          Agv!IsBaseEnd, AgvP!IsBaseEnd, Agv!Leads, AgvP!Leads, Agv!ActionIdsOf,
          AgvP!ActionIdsOf, Agv!Released, AgvP!Released, Agv!BaseActions,
          AgvP!BaseActions, Agv!reported, AgvP!reported, Agv!dispatched,
          AgvP!dispatched, Agv!stopping, AgvP!stopping, Agv!vars, AgvP!vars
<1> QED  BY <1>1, <1>2, <1>3, <1>4, <1>5, <1>6, <1>7, <1>8, <1>9, <1>10, <1>11
-----------------------------------------------------------------------------
(* What the reports tell. *)

CancelState == {"NONE", "RUNNING", "FINISHED", "REFUSED"}

Report == [orderId : OrderId \cup {NoOrder}, upd : Nat,
           last : [id : NodeId \cup {NoNode}, seq : Nat],
           nodes : SUBSET [id : NodeId, seq : Nat, rel : BOOLEAN],
           edges : SUBSET [from : NodeId, to : NodeId, seq : Nat, rel : BOOLEAN],
           acts : [ActionId -> Agv!Status],
           errors : SUBSET (OrderId \X Nat), cancel : CancelState]

(* Actions that are still to end.                                          *)
Acting(s) == {a \in ActionId : s.acts[a] \in {"WAITING", "RUNNING"}}
Over(s) == s.nodes = {} /\ s.edges = {} /\ Acting(s) = {}

(* The report t of the same order follows s: no more remains to be done.   *)
Lessens(s, t) == t.nodes \subseteq s.nodes /\ t.edges \subseteq s.edges /\ Acting(t) \subseteq Acting(s)

(* What t leaves out had ended according to s.                             *)
EndsFirst(s, t) == \A a \in ActionId : t.acts[a] = "ABSENT" => s.acts[a] \in {"ABSENT", "ENDED"}

(* Reports that differ only in whether an action waits or runs already.    *)
Alike(s, t) ==
    /\ s.orderId = t.orderId /\ s.upd = t.upd
    /\ s.nodes = t.nodes /\ s.edges = t.edges /\ s.errors = t.errors
    /\ Acting(s) = Acting(t)
    /\ \A a \in ActionId : s.acts[a] = "ABSENT" <=> t.acts[a] = "ABSENT"

Shows(s, o) ==
    /\ s.orderId = o.orderId /\ s.upd = o.upd
    /\ \A a \in BaseActions(o) : s.acts[a] # "ABSENT"

-----------------------------------------------------------------------------
(* The vehicle's part of the invariant, and what its steps report. *)

VehicleInv == AgvP!IInv /\ AgvP!AheadWaits /\ AgvP!Reported

Known == cancelState \in CancelState

LEMMA VehicleStep ==
    ASSUME VehicleInv, AgvP!LoneNoneOrder, AgvP!LoneNoneOrder', [AgvP!Next]_(AgvP!vars)
    PROVE  VehicleInv'
<1>1. AgvP!IInv'
  BY AgvAssumptions, AgvObedient, AgvP!NextStep DEF VehicleInv
<1>2. AgvP!AheadWaits'
  BY <1>1, AgvAssumptions, AgvObedient, AgvP!ProgressStep DEF VehicleInv
<1>3. AgvP!Reported'
  BY <1>1, AgvAssumptions, AgvObedient, AgvP!ReportedStep DEF VehicleInv
<1> QED  BY <1>1, <1>2, <1>3 DEF VehicleInv

LEMMA BaseActionsKnown ==
    ASSUME NEW o \in Orders
    PROVE  BaseActions(o) \subseteq ActionId
BY AgvAssumptions, SameNames, AgvP!BaseType

LEMMA SnapshotType == VehicleInv /\ Known => Snapshot \in Report
<1> SUFFICES ASSUME VehicleInv, Known PROVE Snapshot \in Report
  OBVIOUS
<1>1. order.orderId \in OrderId \cup {NoOrder} /\ order.upd \in Nat
  BY DEF VehicleInv, AgvP!IInv, AgvP!TypeOK, AgvP!Order
<1>2. /\ lastNode \in [id : NodeId \cup {NoNode}, seq : Nat]
      /\ nodeStates \subseteq [id : NodeId, seq : Nat, rel : BOOLEAN]
      /\ edgeStates \subseteq [from : NodeId, to : NodeId, seq : Nat, rel : BOOLEAN]
      /\ actionStatus \in [ActionId -> Agv!Status]
      /\ rejected \subseteq (OrderId \X Nat)
  BY DEF VehicleInv, AgvP!IInv, AgvP!TypeOK, AgvP!Status, Agv!Status
<1> QED  BY <1>1, <1>2 DEF Snapshot, Report, Known

(* The report before an action begins says no less than the one after.     *)
LEMMA BeforeAlike ==
    ASSUME VehicleInv', Known'
    PROVE  Before \in Report /\ Alike(Before, Snapshot')
<1>1. Snapshot' \in Report
  <2>1. (VehicleInv /\ Known => Snapshot \in Report)'
    BY SnapshotType, PTL
  <2> QED  BY <2>1
<1>2. ASSUME NEW a \in Started
      PROVE  a \in ActionId /\ actionStatus'[a] = "RUNNING"
  <2>1. PICK c \in exec' : c.act = a
    BY <1>2 DEF Started
  <2>2. exec' \subseteq AgvP!Context /\ AgvP!RunningExecutes'
    BY DEF VehicleInv, AgvP!IInv, AgvP!TypeOK
  <2>3. c.act \in ActionId
    BY <2>1, <2>2 DEF AgvP!Context
  <2> QED  BY <2>1, <2>2, <2>3 DEF AgvP!RunningExecutes
<1>3. Before = [Snapshot' EXCEPT !.acts =
                  [a \in ActionId |-> IF a \in Started THEN "WAITING" ELSE actionStatus'[a]]]
  BY DEF Before, Snapshot
<1>4. Before.acts = [a \in ActionId |-> IF a \in Started THEN "WAITING" ELSE actionStatus'[a]]
  BY <1>3 DEF Snapshot
<1>5. Before \in Report
  BY <1>1, <1>3 DEF Report, Agv!Status, Snapshot
<1>6. Acting(Before) = Acting(Snapshot')
  BY <1>2, <1>4 DEF Acting, Snapshot
<1>7. \A a \in ActionId : Before.acts[a] = "ABSENT" <=> actionStatus'[a] = "ABSENT"
  BY <1>2, <1>4
<1> QED  BY <1>3, <1>5, <1>6, <1>7 DEF Alike, Snapshot

LEMMA QuietReport ==
    ASSUME VehicleInv, VehicleInv', AgvP!LoneNoneOrder, [AgvP!Next]_(AgvP!vars), order' = order
    PROVE  /\ Lessens(Snapshot, Snapshot')
           /\ \A a \in ActionId : actionStatus[a] # "ABSENT" => actionStatus'[a] # "ABSENT"
<1>1. AgvP!IInv /\ AgvP!IInv' /\ AgvP!AheadWaits /\ AgvP!Reported
  BY DEF VehicleInv
<1>2. nodeStates' \subseteq nodeStates /\ edgeStates' \subseteq edgeStates /\ AgvP!StaysReported
  BY <1>1, AgvAssumptions, AgvObedient, AgvP!OrderStays
<1>3. AgvP!InExecution(actionStatus') \subseteq AgvP!InExecution(actionStatus)
  BY <1>1, AgvAssumptions, AgvObedient, AgvP!LessRemains
<1> QED  BY <1>2, <1>3 DEF AgvP!StaysReported, AgvP!InExecution, Lessens, Acting, Snapshot

LEMMA StartReport ==
    ASSUME VehicleInv, VehicleInv', NEW o \in Orders, Agv!StartOrder(o)
    PROVE  /\ Over(Snapshot) /\ EndsFirst(Snapshot, Accepted(o))
           /\ order' = o /\ rejected' = {}
           /\ Lessens(Accepted(o), Snapshot')
           /\ \A a \in BaseActions(o) : actionStatus'[a] # "ABSENT"
<1>1. AgvP!StartOrder(o)
  BY SameSteps
<1>2. AgvP!IInv'
  BY DEF VehicleInv
<1>3. /\ ~AgvP!HasActiveOrder /\ order' = o /\ rejected' = {}
      /\ nodeStates' \subseteq {AgvP!NodeState(n) : n \in o.nodes}
      /\ edgeStates' \subseteq {AgvP!EdgeState(e) : e \in o.edges}
      /\ AgvP!BaseActions(o) \subseteq ActionId
      /\ \A a \in AgvP!BaseActions(o) : actionStatus'[a] # "ABSENT"
      /\ AgvP!InExecution(actionStatus') \subseteq AgvP!BaseActions(o)
  BY <1>1, <1>2, AgvAssumptions, AgvObedient, AgvP!StartReports
<1>4. Over(Snapshot)
  BY <1>3 DEF AgvP!HasActiveOrder, AgvP!Active, Over, Acting, Snapshot
<1>5. EndsFirst(Snapshot, Accepted(o))
  BY <1>4 DEF VehicleInv, AgvP!IInv, AgvP!TypeOK, AgvP!Status, EndsFirst, Over, Acting, Snapshot
<1>6. Lessens(Accepted(o), Snapshot')
  <2>1. \A a \in BaseActions(o) : Accepted(o).acts[a] = "WAITING"
    BY <1>3, SameNames DEF Accepted
  <2>2. Acting(Snapshot') \subseteq Acting(Accepted(o))
    BY <1>3, <2>1, SameNames DEF Acting, Snapshot, AgvP!InExecution
  <2> QED  BY <1>3, <2>2 DEF Lessens, Accepted, Snapshot, Agv!NodeState, AgvP!NodeState,
                             Agv!EdgeState, AgvP!EdgeState
<1> QED  BY <1>3, <1>4, <1>5, <1>6, SameNames

LEMMA StitchReport ==
    ASSUME VehicleInv, VehicleInv', NEW o \in Orders, Agv!StitchOrder(o)
    PROVE  /\ EndsFirst(Snapshot, Snapshot') /\ Shows(Snapshot', o)
           /\ rejected' = {}
           /\ Acting(Snapshot') \subseteq Acting(Snapshot) \cup BaseActions(o)
<1>1. AgvP!StitchOrder(o)
  BY SameSteps
<1>2. AgvP!IInv /\ AgvP!IInv' /\ AgvP!AheadWaits /\ AgvP!Reported
  BY DEF VehicleInv
<1>3. /\ order'.orderId = o.orderId /\ order'.upd = o.upd /\ rejected' = {}
      /\ \A a \in AgvP!BaseActions(o) : actionStatus'[a] # "ABSENT"
      /\ AgvP!InExecution(actionStatus')
             \subseteq AgvP!InExecution(actionStatus) \cup AgvP!BaseActions(o)
      /\ AgvP!StaysReported
  BY <1>1, <1>2, AgvAssumptions, AgvObedient, AgvP!StitchReports
<1> QED  BY <1>3, SameNames
         DEF AgvP!StaysReported, AgvP!InExecution, EndsFirst, Shows, Acting, Snapshot

-----------------------------------------------------------------------------
(* The master controller's part of the invariant.                          *)
(*                                                                         *)
(* V are the reports that count: V[0] is the one dispatched last, the ones *)
(* after it are on their way, and V[L] is what the vehicle has reported    *)
(* last.  V[k].s is the message, V[k].pos the position of the cache of the *)
(* order it is about, or 0.  q are the messages on their way to the AGV.   *)

Caches ==
    /\ \E C : caches \in Seq(C)
    /\ lastCache \in Nat /\ lastCache <= Len(caches)
    /\ (\E i \in DOMAIN caches : caches[i].live) => lastCache = Len(caches)
    /\ \A i \in DOMAIN caches :
          LET c == caches[i] IN
          /\ {"order", "prev", "live", "invoked", "mapped", "seen"} \subseteq DOMAIN c
          /\ c.order \in Orders /\ c.live \in BOOLEAN /\ c.invoked \in BOOLEAN
          /\ c.prev \in Nat /\ c.prev < i
          /\ BaseActions(c.order) \subseteq c.mapped /\ c.mapped \subseteq ActionId
    /\ \A i, j \in DOMAIN caches : caches[i].order = caches[j].order => i = j
    /\ \A i, k \in DOMAIN caches : i < k /\ caches[i].live => caches[k].prev = k - 1

(* Nothing has been reported to the application of the orders after h.     *)
Unheard(h) ==
    \A i \in DOMAIN caches : i > h =>
        /\ caches[i].mapped = BaseActions(caches[i].order) /\ ~caches[i].invoked
        /\ \A a \in ActionId : caches[i].seen[a] = "ABSENT"

Trace(V, L) ==
    /\ V \in [0..L -> [pos : Nat, s : Report]]
    /\ \A k \in 0..L :
          IF V[k].pos = 0 THEN V[k].s.orderId = NoOrder /\ Over(V[k].s)
          ELSE V[k].pos \in DOMAIN caches /\ Shows(V[k].s, caches[V[k].pos].order)
    /\ \A k, l \in 0..L : k <= l =>
          V[k].pos <= V[l].pos /\ (V[k].pos = V[l].pos => Lessens(V[k].s, V[l].s))
    /\ \A k \in 1..L :
          /\ EndsFirst(V[k - 1].s, V[k].s)
          /\ V[k - 1].pos < V[k].pos =>
                Acting(V[k].s) \subseteq Acting(V[k - 1].s) \cup BaseActions(caches[V[k].pos].order)

(* The orders on their way are later ones than n, and in order.            *)
Sent(q, k, i) == q[k] = <<caches[i].order>>
Underway(n, q) ==
    /\ q \in Seq({<<o>> : o \in Orders} \cup {CancelMessage})
    /\ \A k \in DOMAIN q : q[k] = CancelMessage \/
          \E i \in DOMAIN caches : Sent(q, k, i) /\ caches[i].live /\ i > n
    /\ \A k, l \in DOMAIN q, i, j \in DOMAIN caches :
          k < l /\ Sent(q, k, i) /\ Sent(q, l, j) => i < j

(* An order that is reported to be rejected is none of those reported.     *)
Names(s, j) == <<caches[j].order.orderId, caches[j].order.upd>> \in s.errors
Refused(V, L, q) ==
    \A k \in 0..L : \A e \in V[k].s.errors : \E j \in DOMAIN caches :
        /\ e = <<caches[j].order.orderId, caches[j].order.upd>> /\ j > V[k].pos
        /\ \A i \in DOMAIN caches, l \in DOMAIN q : Sent(q, l, i) => j < i
        /\ \A l \in 0..L : V[l].pos # j

(* Of each order for which there is a cache something is still to come.    *)
Awaited(V, L, q) ==
    \A j \in DOMAIN caches : caches[j].live =>
        \/ \E k \in DOMAIN q : Sent(q, k, j)
        \/ \E k \in 0..L : V[k].pos = j
        \/ \E k \in 1..L : Names(V[k].s, j)

(* And there is a cache for each order that is about to be reported.       *)
Coming(V, L) == \A k \in 0..L : V[k].pos > V[0].pos => caches[V[k].pos].live

(* What has been derived from the report dispatched last.                  *)
Heard(v) ==
    v.pos > 0 =>
        LET c == caches[v.pos] IN
        IF c.live
        THEN /\ Acting(v.s) \subseteq c.mapped
             /\ \A a \in c.mapped :
                   c.seen[a] = IF v.s.acts[a] = "ABSENT" THEN "ENDED" ELSE v.s.acts[a]
             /\ ~c.invoked => OrderProcessed(c, v.s) = "no"
        ELSE Over(v.s)

MasterInv(V, L, q) ==
    /\ Caches /\ Unheard(V[0].pos) /\ Trace(V, L) /\ Underway(V[L].pos, q)
    /\ Refused(V, L, q) /\ Awaited(V, L, q) /\ Coming(V, L) /\ Heard(V[0])

(* V and the report x that follows.                                        *)
Extended(V, L, x) == [k \in 0..(L + 1) |-> IF k <= L THEN V[k] ELSE x]

LEMMA ExtendedTrace ==
    ASSUME NEW V, NEW L \in Nat, Caches, Trace(V, L), NEW x \in [pos : Nat, s : Report],
           V[L].pos <= x.pos, EndsFirst(V[L].s, x.s),
           V[L].pos = x.pos => Lessens(V[L].s, x.s),
           V[L].pos < x.pos => /\ x.pos \in DOMAIN caches
                               /\ Acting(x.s) \subseteq Acting(V[L].s)
                                                  \cup BaseActions(caches[x.pos].order),
           IF x.pos = 0 THEN x.s.orderId = NoOrder /\ Over(x.s)
           ELSE x.pos \in DOMAIN caches /\ Shows(x.s, caches[x.pos].order)
    PROVE  /\ Trace(Extended(V, L, x), L + 1)
           /\ \A k \in 0..L : Extended(V, L, x)[k] = V[k]
           /\ Extended(V, L, x)[L + 1] = x
           /\ Extended(V, L, x) \in [0..(L + 1) -> [pos : Nat, s : Report]]
<1> DEFINE W == Extended(V, L, x)
<1>1. V \in [0..L -> [pos : Nat, s : Report]]
  BY DEF Trace
<1>2. \A k \in 0..(L + 1) : k \in 0..L \/ k = L + 1
  OBVIOUS
<1>3. \A k \in 0..L : k \in 0..(L + 1) /\ k <= L
  OBVIOUS
<1>4. L + 1 \in 0..(L + 1) /\ ~(L + 1 <= L)
  OBVIOUS
<1>5. /\ \A k \in 0..L : W[k] = V[k]
      /\ W[L + 1] = x
  BY <1>3, <1>4 DEF Extended
<1>6. W \in [0..(L + 1) -> [pos : Nat, s : Report]]
  BY <1>1, <1>2 DEF Extended
<1> HIDE DEF W
<1>7. \A k \in 0..(L + 1) :
         IF W[k].pos = 0 THEN W[k].s.orderId = NoOrder /\ Over(W[k].s)
         ELSE W[k].pos \in DOMAIN caches /\ Shows(W[k].s, caches[W[k].pos].order)
  BY <1>2, <1>5 DEF Trace
<1>8. ASSUME NEW k \in 0..(L + 1), NEW l \in 0..(L + 1), k <= l
      PROVE  W[k].pos <= W[l].pos /\ (W[k].pos = W[l].pos => Lessens(W[k].s, W[l].s))
  <2>1. CASE l \in 0..L
    <3>1. k \in 0..L
      BY <1>8, <2>1
    <3> QED  BY <1>5, <1>8, <2>1, <3>1 DEF Trace
  <2>2. CASE k = L + 1 /\ l = L + 1
    <3>1. x.pos \in Nat
      OBVIOUS
    <3> QED  BY <1>5, <2>2, <3>1 DEF Lessens
  <2>3. CASE k \in 0..L /\ l = L + 1
    <3>1. V[k].pos \in Nat /\ V[L].pos \in Nat /\ x.pos \in Nat
      BY <1>1, <2>3
    <3>2. V[k].pos <= V[L].pos /\ (V[k].pos = V[L].pos => Lessens(V[k].s, V[L].s))
      BY <2>3 DEF Trace
    <3>3. V[k].pos <= x.pos
      BY <3>1, <3>2
    <3>4. ASSUME V[k].pos = x.pos PROVE Lessens(V[k].s, x.s)
      <4>1. V[k].pos = V[L].pos /\ V[L].pos = x.pos
        BY <3>1, <3>2, <3>4
      <4> QED  BY <3>2, <4>1 DEF Lessens
    <3> QED  BY <1>5, <2>3, <3>3, <3>4
  <2> QED  BY <1>2, <1>8, <2>1, <2>2, <2>3
<1>9. ASSUME NEW k \in 1..(L + 1)
      PROVE  /\ EndsFirst(W[k - 1].s, W[k].s)
             /\ W[k - 1].pos < W[k].pos =>
                   Acting(W[k].s) \subseteq Acting(W[k - 1].s)
                                              \cup BaseActions(caches[W[k].pos].order)
  <2>1. CASE k \in 1..L
    <3>1. k \in 0..L /\ k - 1 \in 0..L
      BY <2>1
    <3>2. W[k] = V[k] /\ W[k - 1] = V[k - 1]
      BY <1>5, <3>1
    <3> QED  BY <2>1, <3>2 DEF Trace
  <2>2. CASE k = L + 1
    <3>1. W[k] = x /\ k - 1 = L /\ W[k - 1] = V[L]
      BY <1>5, <2>2
    <3> QED  BY <3>1
  <2> QED  BY <2>1, <2>2
<1> QED  BY <1>5, <1>6, <1>7, <1>8, <1>9 DEF Trace, W

(* The first message on its way, an order.                                 *)
LEMMA OrderArrives ==
    ASSUME Caches, NEW n \in Nat, NEW q, Underway(n, q), q # <<>>,
           NEW o \in Orders, Head(q) = <<o>>
    PROVE  \E i \in DOMAIN caches :
              /\ caches[i].order = o /\ caches[i].live /\ i > n
              /\ Underway(i, Tail(q)) /\ Underway(n, Tail(q))
              /\ \A k \in DOMAIN Tail(q) : k + 1 \in DOMAIN q /\ Tail(q)[k] = q[k + 1]
              /\ \A k \in DOMAIN q, j \in DOMAIN caches :
                    Sent(q, k, j) => j = i \/ (k - 1 \in DOMAIN Tail(q) /\ Sent(Tail(q), k - 1, j))
              /\ Sent(q, 1, i)
<1>1. q \in Seq({<<p>> : p \in Orders} \cup {CancelMessage})
  BY DEF Underway
<1>2. DOMAIN q = 1..Len(q) /\ 1 \in DOMAIN q /\ q[1] = <<o>> /\ Len(q) \in Nat
  BY <1>1
<1>3. <<o>> # CancelMessage
  BY DEF CancelMessage
<1>4. PICK i \in DOMAIN caches : Sent(q, 1, i) /\ caches[i].live /\ i > n
  BY <1>2, <1>3 DEF Underway
<1>5. caches[i].order = o
  BY <1>2, <1>4 DEF Sent
<1>6. /\ Tail(q) \in Seq({<<p>> : p \in Orders} \cup {CancelMessage})
      /\ Len(Tail(q)) = Len(q) - 1 /\ DOMAIN Tail(q) = 1..(Len(q) - 1)
      /\ \A k \in 1..(Len(q) - 1) : Tail(q)[k] = q[k + 1]
  BY <1>1, <1>2
<1>7. \A k \in DOMAIN Tail(q) : k + 1 \in DOMAIN q /\ Tail(q)[k] = q[k + 1] /\ k \in Nat
  BY <1>2, <1>6
<1> DEFINE t == Tail(q)
<1> HIDE DEF t
<1>8. \A k \in DOMAIN t, j \in DOMAIN caches : Sent(t, k, j) <=> Sent(q, k + 1, j)
  BY <1>7 DEF t, Sent
<1>9. \A k \in DOMAIN t : t[k] = CancelMessage \/
         \E j \in DOMAIN caches : Sent(t, k, j) /\ caches[j].live /\ j > n
  BY <1>7, <1>8 DEF t, Underway
<1>10. \A k \in DOMAIN t, j \in DOMAIN caches : Sent(t, k, j) => i < j
  <2> SUFFICES ASSUME NEW k \in DOMAIN t, NEW j \in DOMAIN caches, Sent(t, k, j) PROVE i < j
    OBVIOUS
  <2>1. 1 < k + 1 /\ k + 1 \in DOMAIN q
    BY <1>6, <1>7 DEF t
  <2> QED  BY <1>2, <1>4, <1>8, <2>1 DEF Underway
<1>11. \A k, l \in DOMAIN t, j1, j2 \in DOMAIN caches :
          k < l /\ Sent(t, k, j1) /\ Sent(t, l, j2) => j1 < j2
  <2> SUFFICES ASSUME NEW k \in DOMAIN t, NEW l \in DOMAIN t,
                      NEW j1 \in DOMAIN caches, NEW j2 \in DOMAIN caches,
                      k < l, Sent(t, k, j1), Sent(t, l, j2)
               PROVE  j1 < j2
    OBVIOUS
  <2>1. k + 1 < l + 1 /\ k + 1 \in DOMAIN q /\ l + 1 \in DOMAIN q
    BY <1>7 DEF t
  <2> QED  BY <1>8, <2>1 DEF Underway
<1>12. Underway(n, t)
  BY <1>6, <1>9, <1>11 DEF Underway, t
<1>13. \A k \in DOMAIN t : t[k] = CancelMessage \/
          \E j \in DOMAIN caches : Sent(t, k, j) /\ caches[j].live /\ j > i
  <2> SUFFICES ASSUME NEW k \in DOMAIN t, t[k] # CancelMessage
               PROVE  \E j \in DOMAIN caches : Sent(t, k, j) /\ caches[j].live /\ j > i
    OBVIOUS
  <2>1. PICK j \in DOMAIN caches : Sent(t, k, j) /\ caches[j].live
    BY <1>9
  <2>2. i < j /\ i \in Nat /\ j \in Nat
    BY <1>10, <2>1 DEF Caches
  <2> QED  BY <2>1, <2>2
<1>14. Underway(i, t)
  BY <1>6, <1>11, <1>13 DEF Underway, t
<1>15. ASSUME NEW k \in DOMAIN q, NEW j \in DOMAIN caches, Sent(q, k, j)
       PROVE  j = i \/ (k - 1 \in DOMAIN t /\ Sent(t, k - 1, j))
  <2>1. CASE k = 1
    <3>1. caches[j].order = caches[i].order
      BY <1>4, <1>15, <2>1 DEF Sent
    <3> QED  BY <3>1 DEF Caches
  <2>2. CASE k # 1
    <3>1. k - 1 \in DOMAIN t /\ (k - 1) + 1 = k
      BY <1>2, <1>6, <2>2 DEF t
    <3> QED  BY <1>8, <1>15, <3>1
  <2> QED  BY <2>1, <2>2
<1> QED  BY <1>4, <1>5, <1>7, <1>12, <1>14, <1>15 DEF t

(* What is reported next of the same order shows it as well.               *)
LEMMA StillShows ==
    ASSUME Caches, NEW V, NEW L \in Nat, Trace(V, L), NEW x \in [pos : Nat, s : Report],
           x.pos = V[L].pos, x.s.orderId = V[L].s.orderId, x.s.upd = V[L].s.upd,
           Lessens(V[L].s, x.s),
           \A a \in ActionId : V[L].s.acts[a] # "ABSENT" => x.s.acts[a] # "ABSENT"
    PROVE  IF x.pos = 0 THEN x.s.orderId = NoOrder /\ Over(x.s)
           ELSE x.pos \in DOMAIN caches /\ Shows(x.s, caches[x.pos].order)
<1>1. L \in 0..L
  OBVIOUS
<1>2. CASE x.pos = 0
  <2>1. V[L].s.orderId = NoOrder /\ Over(V[L].s)
    BY <1>1, <1>2 DEF Trace
  <2> QED  BY <1>2, <2>1 DEF Over, Lessens
<1>3. CASE x.pos # 0
  <2>1. x.pos \in DOMAIN caches /\ Shows(V[L].s, caches[x.pos].order)
    BY <1>1, <1>3 DEF Trace
  <2>2. BaseActions(caches[x.pos].order) \subseteq ActionId
    BY <2>1, BaseActionsKnown DEF Caches
  <2> QED  BY <1>3, <2>1, <2>2 DEF Shows
<1> QED  BY <1>2, <1>3

(* The vehicle reports more of what it has reported last.                  *)
LEMMA ReportsOn ==
    ASSUME NEW V, NEW L \in Nat, NEW q, MasterInv(V, L, q), NEW x \in [pos : Nat, s : Report],
           x.pos = V[L].pos, x.s.orderId = V[L].s.orderId, x.s.upd = V[L].s.upd,
           Lessens(V[L].s, x.s),
           \A a \in ActionId : V[L].s.acts[a] # "ABSENT" => x.s.acts[a] # "ABSENT",
           x.s.errors \subseteq V[L].s.errors
    PROVE  MasterInv(Extended(V, L, x), L + 1, q)
<1> DEFINE W == Extended(V, L, x)
<1>1. /\ Caches /\ Unheard(V[0].pos) /\ Trace(V, L) /\ Underway(V[L].pos, q)
      /\ Refused(V, L, q) /\ Awaited(V, L, q) /\ Coming(V, L) /\ Heard(V[0])
  BY DEF MasterInv
<1>2. V \in [0..L -> [pos : Nat, s : Report]] /\ L \in 0..L /\ 0 \in 0..L
  BY <1>1 DEF Trace
<1>3. EndsFirst(V[L].s, x.s)
  BY DEF EndsFirst
<1>4. IF x.pos = 0 THEN x.s.orderId = NoOrder /\ Over(x.s)
      ELSE x.pos \in DOMAIN caches /\ Shows(x.s, caches[x.pos].order)
  BY <1>1, StillShows
<1>5. /\ Trace(W, L + 1) /\ W[L + 1] = x
      /\ \A k \in 0..L : W[k] = V[k]
  <2>1. V[L].pos <= x.pos /\ ~(V[L].pos < x.pos)
    BY <1>2
  <2> QED  BY <1>1, <1>3, <1>4, <2>1, ExtendedTrace
<1>6. \A k \in 0..(L + 1) : k \in 0..L \/ k = L + 1
  OBVIOUS
<1>7. \A k \in 0..L : k \in 0..(L + 1)
  OBVIOUS
<1>8. \A k \in 1..L : k \in 1..(L + 1) /\ k \in 0..L
  OBVIOUS
<1> HIDE DEF W
<1>9. Refused(W, L + 1, q)
  <2> SUFFICES ASSUME NEW k \in 0..(L + 1), NEW e \in W[k].s.errors
               PROVE  \E j \in DOMAIN caches :
                         /\ e = <<caches[j].order.orderId, caches[j].order.upd>> /\ j > W[k].pos
                         /\ \A i \in DOMAIN caches, l \in DOMAIN q : Sent(q, l, i) => j < i
                         /\ \A l \in 0..(L + 1) : W[l].pos # j
    BY DEF Refused
  <2>1. PICK m \in 0..L : e \in V[m].s.errors /\ W[k].pos = V[m].pos
    BY <1>2, <1>5, <1>6
  <2>2. PICK j \in DOMAIN caches :
           /\ e = <<caches[j].order.orderId, caches[j].order.upd>> /\ j > V[m].pos
           /\ \A i \in DOMAIN caches, l \in DOMAIN q : Sent(q, l, i) => j < i
           /\ \A l \in 0..L : V[l].pos # j
    BY <1>1, <2>1 DEF Refused
  <2>3. \A l \in 0..(L + 1) : W[l].pos # j
    BY <1>2, <1>5, <1>6, <2>2
  <2> QED  BY <2>1, <2>2, <2>3
<1>10. Awaited(W, L + 1, q)
  BY <1>1, <1>5, <1>7, <1>8 DEF Awaited
<1>11. Coming(W, L + 1)
  BY <1>1, <1>2, <1>5, <1>6 DEF Coming
<1> QED  BY <1>1, <1>2, <1>5, <1>9, <1>10, <1>11 DEF MasterInv, W

(* The vehicle rejects the order it receives, and reports that.            *)
LEMMA ReportsRejection ==
    ASSUME NEW V, NEW L \in Nat, NEW q, MasterInv(V, L, q), NEW x \in [pos : Nat, s : Report],
           x.pos = V[L].pos, x.s.orderId = V[L].s.orderId, x.s.upd = V[L].s.upd,
           Lessens(V[L].s, x.s),
           \A a \in ActionId : V[L].s.acts[a] # "ABSENT" => x.s.acts[a] # "ABSENT",
           q # <<>>, NEW o \in Orders, Head(q) = <<o>>,
           x.s.errors = V[L].s.errors \cup {<<o.orderId, o.upd>>}
    PROVE  MasterInv(Extended(V, L, x), L + 1, Tail(q))
<1> DEFINE W == Extended(V, L, x)
           t == Tail(q)
<1>1. /\ Caches /\ Unheard(V[0].pos) /\ Trace(V, L) /\ Underway(V[L].pos, q)
      /\ Refused(V, L, q) /\ Awaited(V, L, q) /\ Coming(V, L) /\ Heard(V[0])
  BY DEF MasterInv
<1>2. V \in [0..L -> [pos : Nat, s : Report]] /\ L \in 0..L /\ 0 \in 0..L /\ V[L].pos \in Nat
  BY <1>1 DEF Trace
<1>3. PICK i \in DOMAIN caches :
              /\ caches[i].order = o /\ caches[i].live /\ i > V[L].pos
              /\ Underway(i, t) /\ Underway(V[L].pos, t)
              /\ \A k \in DOMAIN t : k + 1 \in DOMAIN q /\ t[k] = q[k + 1]
              /\ \A k \in DOMAIN q, j \in DOMAIN caches :
                    Sent(q, k, j) => j = i \/ (k - 1 \in DOMAIN t /\ Sent(t, k - 1, j))
              /\ Sent(q, 1, i)
  BY <1>1, <1>2, OrderArrives
<1>4. IF x.pos = 0 THEN x.s.orderId = NoOrder /\ Over(x.s)
      ELSE x.pos \in DOMAIN caches /\ Shows(x.s, caches[x.pos].order)
  BY <1>1, StillShows
<1>5. EndsFirst(V[L].s, x.s)
  BY DEF EndsFirst
<1>6. /\ Trace(W, L + 1) /\ W[L + 1] = x
      /\ \A k \in 0..L : W[k] = V[k]
  <2>1. V[L].pos <= x.pos /\ ~(V[L].pos < x.pos)
    BY <1>2
  <2> QED  BY <1>1, <1>4, <1>5, <2>1, ExtendedTrace
<1>7. \A k \in 0..(L + 1) : k \in 0..L \/ k = L + 1
  OBVIOUS
<1>8. \A k \in 0..L : k \in 0..(L + 1)
  OBVIOUS
<1>9. \A k \in 1..L : k \in 1..(L + 1) /\ k \in 0..L
  OBVIOUS
<1> HIDE DEF W, t
<1>10. \A l \in 0..(L + 1) : W[l].pos <= V[L].pos /\ W[l].pos \in Nat
  BY <1>1, <1>2, <1>6, <1>7 DEF Trace
<1>11. \A k \in DOMAIN t, j \in DOMAIN caches : Sent(t, k, j) => i < j /\ Sent(q, k + 1, j)
  <2> SUFFICES ASSUME NEW k \in DOMAIN t, NEW j \in DOMAIN caches, Sent(t, k, j)
               PROVE  i < j /\ Sent(q, k + 1, j)
    OBVIOUS
  <2>1. t[k] = <<caches[j].order>> /\ <<caches[j].order>> # CancelMessage
    BY DEF Sent, CancelMessage
  <2>2. PICK m \in DOMAIN caches : Sent(t, k, m) /\ m > i
    BY <1>3, <2>1 DEF Underway
  <2>3. caches[m].order = caches[j].order
    BY <2>1, <2>2 DEF Sent
  <2>4. m = j
    BY <1>1, <2>3 DEF Caches
  <2>5. t[k] = q[k + 1]
    BY <1>3
  <2> QED  BY <2>1, <2>2, <2>4, <2>5 DEF Sent
<1>12. Refused(W, L + 1, t)
  <2> SUFFICES ASSUME NEW k \in 0..(L + 1), NEW e \in W[k].s.errors
               PROVE  \E j \in DOMAIN caches :
                         /\ e = <<caches[j].order.orderId, caches[j].order.upd>> /\ j > W[k].pos
                         /\ \A m \in DOMAIN caches, l \in DOMAIN t : Sent(t, l, m) => j < m
                         /\ \A l \in 0..(L + 1) : W[l].pos # j
    BY DEF Refused
  <2>1. CASE \E m \in 0..L : e \in V[m].s.errors /\ W[k].pos = V[m].pos
    <3>1. PICK m \in 0..L : e \in V[m].s.errors /\ W[k].pos = V[m].pos
      BY <2>1
    <3>2. PICK j \in DOMAIN caches :
             /\ e = <<caches[j].order.orderId, caches[j].order.upd>> /\ j > V[m].pos
             /\ \A r \in DOMAIN caches, l \in DOMAIN q : Sent(q, l, r) => j < r
             /\ \A l \in 0..L : V[l].pos # j
      BY <1>1, <3>1 DEF Refused
    <3>3. \A l \in 0..(L + 1) : W[l].pos # j
      BY <1>2, <1>6, <1>7, <3>2
    <3>4. \A r \in DOMAIN caches, l \in DOMAIN t : Sent(t, l, r) => j < r
      BY <1>3, <1>11, <3>2
    <3> QED  BY <3>1, <3>2, <3>3, <3>4
  <2>2. CASE e = <<o.orderId, o.upd>>
    <3>1. i \in Nat
      BY <1>1 DEF Caches
    <3>2. \A l \in 0..(L + 1) : W[l].pos # i /\ i > W[l].pos
      BY <1>2, <1>3, <1>10, <3>1
    <3> QED  BY <1>3, <1>11, <2>2, <3>2
  <2> QED  BY <1>2, <1>6, <1>7, <2>1, <2>2
<1>13. Awaited(W, L + 1, t)
  <2> SUFFICES ASSUME NEW j \in DOMAIN caches, caches[j].live
               PROVE  \/ \E k \in DOMAIN t : Sent(t, k, j)
                      \/ \E k \in 0..(L + 1) : W[k].pos = j
                      \/ \E k \in 1..(L + 1) : Names(W[k].s, j)
    BY DEF Awaited
  <2>1. CASE \E k \in DOMAIN q : Sent(q, k, j)
    <3>1. CASE j = i
      <4>1. L + 1 \in 1..(L + 1) /\ Names(W[L + 1].s, j)
        BY <1>3, <1>6, <3>1 DEF Names
      <4> QED  BY <4>1
    <3> QED  BY <1>3, <2>1, <3>1
  <2>2. CASE \E k \in 0..L : V[k].pos = j
    BY <1>6, <1>8, <2>2
  <2>3. CASE \E k \in 1..L : Names(V[k].s, j)
    BY <1>6, <1>9, <2>3
  <2> QED  BY <1>1, <2>1, <2>2, <2>3 DEF Awaited
<1>14. Coming(W, L + 1)
  BY <1>1, <1>2, <1>6, <1>7 DEF Coming
<1> QED  BY <1>1, <1>2, <1>3, <1>6, <1>12, <1>13, <1>14 DEF MasterInv, W, t

(* The vehicle accepts the order it receives, and reports that.            *)
LEMMA ReportsOrder ==
    ASSUME NEW V, NEW L \in Nat, NEW q, MasterInv(V, L, q), q # <<>>,
           NEW o \in Orders, Head(q) = <<o>>,
           NEW s \in Report, Shows(s, o), s.errors = {}, EndsFirst(V[L].s, s),
           Acting(s) \subseteq Acting(V[L].s) \cup BaseActions(o)
    PROVE  \E i \in DOMAIN caches :
               MasterInv(Extended(V, L, [pos |-> i, s |-> s]), L + 1, Tail(q))
<1> DEFINE t == Tail(q)
<1>1. /\ Caches /\ Unheard(V[0].pos) /\ Trace(V, L) /\ Underway(V[L].pos, q)
      /\ Refused(V, L, q) /\ Awaited(V, L, q) /\ Coming(V, L) /\ Heard(V[0])
  BY DEF MasterInv
<1>2. V \in [0..L -> [pos : Nat, s : Report]] /\ L \in 0..L /\ 0 \in 0..L /\ V[L].pos \in Nat
  BY <1>1 DEF Trace
<1>3. PICK i \in DOMAIN caches :
              /\ caches[i].order = o /\ caches[i].live /\ i > V[L].pos
              /\ Underway(i, t) /\ Underway(V[L].pos, t)
              /\ \A k \in DOMAIN t : k + 1 \in DOMAIN q /\ t[k] = q[k + 1]
              /\ \A k \in DOMAIN q, j \in DOMAIN caches :
                    Sent(q, k, j) => j = i \/ (k - 1 \in DOMAIN t /\ Sent(t, k - 1, j))
              /\ Sent(q, 1, i)
  BY <1>1, <1>2, OrderArrives
<1> DEFINE x == [pos |-> i, s |-> s]
           W == Extended(V, L, x)
<1>4. x \in [pos : Nat, s : Report] /\ x.pos = i /\ x.s = s /\ i \in Nat /\ i > 0
  BY <1>1, <1>2, <1>3 DEF Caches
<1> HIDE DEF x
<1>5. /\ V[L].pos <= x.pos /\ V[L].pos # x.pos /\ x.pos # 0
      /\ x.pos \in DOMAIN caches /\ Shows(x.s, caches[x.pos].order)
      /\ Acting(x.s) \subseteq Acting(V[L].s) \cup BaseActions(caches[x.pos].order)
  BY <1>2, <1>3, <1>4
<1>6. /\ Trace(W, L + 1) /\ W[L + 1] = x
      /\ \A k \in 0..L : W[k] = V[k]
  BY <1>1, <1>4, <1>5, ExtendedTrace
<1>7. \A k \in 0..(L + 1) : k \in 0..L \/ k = L + 1
  OBVIOUS
<1>8. \A k \in 0..L : k \in 0..(L + 1)
  OBVIOUS
<1>9. \A k \in 1..L : k \in 1..(L + 1) /\ k \in 0..L
  OBVIOUS
<1>10. L + 1 \in 0..(L + 1)
  OBVIOUS
<1>11. 1 \in DOMAIN q
  <2>1. q \in Seq({<<p>> : p \in Orders} \cup {CancelMessage})
    BY <1>1 DEF Underway
  <2> QED  BY <2>1
<1> HIDE DEF W, t
<1>12. Refused(W, L + 1, t)
  <2> SUFFICES ASSUME NEW k \in 0..(L + 1), NEW e \in W[k].s.errors
               PROVE  \E j \in DOMAIN caches :
                         /\ e = <<caches[j].order.orderId, caches[j].order.upd>> /\ j > W[k].pos
                         /\ \A m \in DOMAIN caches, l \in DOMAIN t : Sent(t, l, m) => j < m
                         /\ \A l \in 0..(L + 1) : W[l].pos # j
    BY DEF Refused
  <2>1. k \in 0..L /\ e \in V[k].s.errors /\ W[k] = V[k]
    BY <1>4, <1>6, <1>7
  <2>2. PICK j \in DOMAIN caches :
           /\ e = <<caches[j].order.orderId, caches[j].order.upd>> /\ j > V[k].pos
           /\ \A r \in DOMAIN caches, l \in DOMAIN q : Sent(q, l, r) => j < r
           /\ \A l \in 0..L : V[l].pos # j
    BY <1>1, <2>1 DEF Refused
  <2>3. j < i
    BY <1>3, <1>11, <2>2
  <2>4. j \in Nat
    BY <1>1 DEF Caches
  <2>5. \A l \in 0..(L + 1) : W[l].pos # j
    BY <1>4, <1>6, <1>7, <2>2, <2>3, <2>4
  <2>6. \A r \in DOMAIN caches, l \in DOMAIN t : Sent(t, l, r) => j < r
    BY <1>3, <2>2 DEF Sent
  <2> QED  BY <2>1, <2>2, <2>5, <2>6
<1>13. Awaited(W, L + 1, t)
  <2> SUFFICES ASSUME NEW j \in DOMAIN caches, caches[j].live
               PROVE  \/ \E k \in DOMAIN t : Sent(t, k, j)
                      \/ \E k \in 0..(L + 1) : W[k].pos = j
                      \/ \E k \in 1..(L + 1) : Names(W[k].s, j)
    BY DEF Awaited
  <2>1. CASE \E k \in DOMAIN q : Sent(q, k, j)
    BY <1>3, <1>4, <1>6, <1>10, <2>1
  <2>2. CASE \E k \in 0..L : V[k].pos = j
    BY <1>6, <1>8, <2>2
  <2>3. CASE \E k \in 1..L : Names(V[k].s, j)
    BY <1>6, <1>9, <2>3
  <2> QED  BY <1>1, <2>1, <2>2, <2>3 DEF Awaited
<1>14. Coming(W, L + 1)
  BY <1>1, <1>2, <1>3, <1>4, <1>6, <1>7 DEF Coming
<1>15. MasterInv(W, L + 1, t)
  BY <1>1, <1>2, <1>3, <1>4, <1>6, <1>12, <1>13, <1>14 DEF MasterInv
<1> QED  BY <1>15 DEF W, x, t

(* The vehicle receives cancelOrder.                                       *)
LEMMA CancelArrives ==
    ASSUME NEW V, NEW L \in Nat, NEW q, MasterInv(V, L, q), q # <<>>, Head(q) = CancelMessage
    PROVE  MasterInv(V, L, Tail(q))
<1> DEFINE t == Tail(q)
<1>1. /\ Underway(V[L].pos, q) /\ Refused(V, L, q) /\ Awaited(V, L, q)
  BY DEF MasterInv
<1>2. q \in Seq({<<p>> : p \in Orders} \cup {CancelMessage})
  BY <1>1 DEF Underway
<1>3. /\ t \in Seq({<<p>> : p \in Orders} \cup {CancelMessage})
      /\ DOMAIN q = 1..Len(q) /\ DOMAIN t = 1..(Len(q) - 1) /\ Len(q) \in Nat
      /\ \A k \in 1..(Len(q) - 1) : t[k] = q[k + 1]
      /\ q[1] = CancelMessage
  BY <1>2
<1> HIDE DEF t
<1>4. \A k \in DOMAIN t : k + 1 \in DOMAIN q /\ t[k] = q[k + 1] /\ k \in Nat
  BY <1>3
<1>5. \A k \in DOMAIN q, j \in DOMAIN caches :
         Sent(q, k, j) => k - 1 \in DOMAIN t /\ Sent(t, k - 1, j)
  <2> SUFFICES ASSUME NEW k \in DOMAIN q, NEW j \in DOMAIN caches, Sent(q, k, j)
               PROVE  k - 1 \in DOMAIN t /\ Sent(t, k - 1, j)
    OBVIOUS
  <2>1. <<caches[j].order>> # CancelMessage
    BY DEF CancelMessage
  <2>2. k # 1
    BY <1>3, <2>1 DEF Sent
  <2>3. k - 1 \in DOMAIN t /\ (k - 1) + 1 = k
    BY <1>3, <2>2
  <2> QED  BY <1>4, <2>3 DEF Sent
<1>6. \A k \in DOMAIN t, j \in DOMAIN caches : Sent(t, k, j) <=> Sent(q, k + 1, j)
  BY <1>4 DEF Sent
<1>7. Underway(V[L].pos, t)
  <2>1. \A k \in DOMAIN t : t[k] = CancelMessage \/
           \E i \in DOMAIN caches : Sent(t, k, i) /\ caches[i].live /\ i > V[L].pos
    BY <1>1, <1>4, <1>6 DEF Underway
  <2>2. \A k, l \in DOMAIN t, i, j \in DOMAIN caches :
          k < l /\ Sent(t, k, i) /\ Sent(t, l, j) => i < j
    <3> SUFFICES ASSUME NEW k \in DOMAIN t, NEW l \in DOMAIN t,
                        NEW i \in DOMAIN caches, NEW j \in DOMAIN caches,
                        k < l, Sent(t, k, i), Sent(t, l, j)
                 PROVE  i < j
      OBVIOUS
    <3>1. k + 1 < l + 1 /\ k + 1 \in DOMAIN q /\ l + 1 \in DOMAIN q
      BY <1>4
    <3> QED  BY <1>1, <1>6, <3>1 DEF Underway
  <2> QED  BY <1>3, <2>1, <2>2 DEF Underway
<1>8. Refused(V, L, t)
  BY <1>1, <1>4, <1>6 DEF Refused
<1>9. Awaited(V, L, t)
  BY <1>1, <1>5 DEF Awaited
<1> QED  BY <1>7, <1>8, <1>9 DEF MasterInv, t

-----------------------------------------------------------------------------
(* The reports ss are on their way, after V[0] and as V tells.             *)
Carries(V, ss, q) ==
    /\ ss \in Seq(Report) /\ MasterInv(V, Len(ss), q)
    /\ \A k \in 1..Len(ss) : V[k].s = ss[k]

(* As long as no report has been lost.                                     *)
InSync ==
    \E V, ss, q : /\ ss = states /\ q = orders /\ Carries(V, ss, q)
                  /\ V[Len(ss)].s = Snapshot

(* The report t tells no more than s of the same order.                    *)
Continues(s, t) ==
    /\ t.orderId = s.orderId /\ t.upd = s.upd /\ t.errors \subseteq s.errors
    /\ Lessens(s, t)
    /\ \A a \in ActionId : s.acts[a] # "ABSENT" => t.acts[a] # "ABSENT"

LEMMA CarriesUnchanged ==
    ASSUME NEW V, NEW ss, NEW q, Carries(V, ss, q), UNCHANGED <<caches, lastCache>>
    PROVE  Carries(V, ss, q)'
<1>1. caches' = caches /\ lastCache' = lastCache
  OBVIOUS
<1>2. MasterInv(V, Len(ss), q)
  BY DEF Carries
<1>3. Caches'
  BY <1>1, <1>2 DEF MasterInv, Caches
<1>4. Unheard(V[0].pos)' /\ Trace(V, Len(ss))'
  BY <1>1, <1>2 DEF MasterInv, Unheard, Trace
<1>5. Underway(V[Len(ss)].pos, q)'
  BY <1>1, <1>2 DEF MasterInv, Underway, Sent
<1>6. Refused(V, Len(ss), q)' /\ Awaited(V, Len(ss), q)'
  BY <1>1, <1>2 DEF MasterInv, Refused, Awaited, Sent, Names
<1>7. Coming(V, Len(ss))' /\ Heard(V[0])'
  BY <1>1, <1>2 DEF MasterInv, Coming, Heard
<1> QED  BY <1>3, <1>4, <1>5, <1>6, <1>7 DEF Carries, MasterInv

(* A report after those on their way. *)
LEMMA Appended ==
    ASSUME NEW V, NEW ss, NEW q, Carries(V, ss, q), NEW r \in Report, NEW p \in Nat
    PROVE  LET W == Extended(V, Len(ss), [pos |-> p, s |-> r])
               rs == ss \o <<r>>
           IN  /\ rs \in Seq(Report) /\ Len(rs) = Len(ss) + 1
               /\ \A k \in 1..Len(rs) : W[k].s = rs[k]
               /\ W[Len(rs)].s = r
<1> DEFINE W == Extended(V, Len(ss), [pos |-> p, s |-> r])
           rs == ss \o <<r>>
<1>1. ss \in Seq(Report) /\ \A k \in 1..Len(ss) : V[k].s = ss[k]
  BY DEF Carries
<1>2. /\ rs \in Seq(Report) /\ Len(rs) = Len(ss) + 1 /\ Len(ss) \in Nat
      /\ \A k \in 1..Len(ss) : rs[k] = ss[k]
      /\ rs[Len(ss) + 1] = r
  BY <1>1
<1> HIDE DEF rs
<1>3. \A k \in 1..Len(ss) : W[k] = V[k]
  BY <1>2 DEF Extended
<1>4. W[Len(ss) + 1].s = r
  BY <1>2 DEF Extended
<1>5. \A k \in 1..Len(rs) : k \in 1..Len(ss) \/ k = Len(ss) + 1
  BY <1>2
<1> HIDE DEF W
<1>6. \A k \in 1..Len(rs) : W[k].s = rs[k]
  BY <1>1, <1>2, <1>3, <1>4, <1>5
<1> QED  BY <1>2, <1>4, <1>6 DEF W, rs

LEMMA CarriesOn ==
    ASSUME NEW V, NEW ss, NEW q, Carries(V, ss, q), NEW r \in Report,
           Continues(V[Len(ss)].s, r)
    PROVE  \E W : Carries(W, ss \o <<r>>, q) /\ W[Len(ss \o <<r>>)].s = r
<1> DEFINE x == [pos |-> V[Len(ss)].pos, s |-> r]
           W == Extended(V, Len(ss), x)
<1>1. ss \in Seq(Report) /\ Len(ss) \in Nat /\ MasterInv(V, Len(ss), q)
  BY DEF Carries
<1>2. V[Len(ss)].pos \in Nat
  BY <1>1 DEF MasterInv, Trace
<1>3. MasterInv(W, Len(ss) + 1, q)
  <2>1. x \in [pos : Nat, s : Report] /\ x.pos = V[Len(ss)].pos /\ x.s = r
    BY <1>2
  <2> HIDE DEF x
  <2> QED  BY <1>1, <2>1, ReportsOn DEF Continues
<1>4. /\ ss \o <<r>> \in Seq(Report) /\ Len(ss \o <<r>>) = Len(ss) + 1
      /\ \A k \in 1..Len(ss \o <<r>>) : W[k].s = (ss \o <<r>>)[k]
      /\ W[Len(ss \o <<r>>)].s = r
  BY <1>2, Appended
<1> QED  BY <1>3, <1>4 DEF Carries

LEMMA CarriesRejection ==
    ASSUME NEW V, NEW ss, NEW q, Carries(V, ss, q), NEW r \in Report,
           q # <<>>, NEW o \in Orders, Head(q) = <<o>>,
           r.errors = V[Len(ss)].s.errors \cup {<<o.orderId, o.upd>>},
           Continues(V[Len(ss)].s, [r EXCEPT !.errors = {}])
    PROVE  \E W : Carries(W, ss \o <<r>>, Tail(q)) /\ W[Len(ss \o <<r>>)].s = r
<1> DEFINE x == [pos |-> V[Len(ss)].pos, s |-> r]
           W == Extended(V, Len(ss), x)
<1>1. ss \in Seq(Report) /\ Len(ss) \in Nat /\ MasterInv(V, Len(ss), q)
  BY DEF Carries
<1>2. V[Len(ss)].pos \in Nat
  BY <1>1 DEF MasterInv, Trace
<1>3. /\ r.orderId = V[Len(ss)].s.orderId /\ r.upd = V[Len(ss)].s.upd
      /\ Lessens(V[Len(ss)].s, r)
      /\ \A a \in ActionId : V[Len(ss)].s.acts[a] # "ABSENT" => r.acts[a] # "ABSENT"
  BY DEF Continues, Lessens, Acting, Report
<1>4. MasterInv(W, Len(ss) + 1, Tail(q))
  <2>1. x \in [pos : Nat, s : Report] /\ x.pos = V[Len(ss)].pos /\ x.s = r
    BY <1>2
  <2> HIDE DEF x
  <2> QED  BY <1>1, <1>3, <2>1, ReportsRejection
<1>5. /\ ss \o <<r>> \in Seq(Report) /\ Len(ss \o <<r>>) = Len(ss) + 1
      /\ \A k \in 1..Len(ss \o <<r>>) : W[k].s = (ss \o <<r>>)[k]
      /\ W[Len(ss \o <<r>>)].s = r
  BY <1>2, Appended
<1> QED  BY <1>4, <1>5 DEF Carries

LEMMA CarriesOrder ==
    ASSUME NEW V, NEW ss, NEW q, Carries(V, ss, q), NEW r \in Report,
           q # <<>>, NEW o \in Orders, Head(q) = <<o>>,
           Shows(r, o), r.errors = {}, EndsFirst(V[Len(ss)].s, r),
           Acting(r) \subseteq Acting(V[Len(ss)].s) \cup BaseActions(o)
    PROVE  \E W : Carries(W, ss \o <<r>>, Tail(q)) /\ W[Len(ss \o <<r>>)].s = r
<1>1. ss \in Seq(Report) /\ Len(ss) \in Nat /\ MasterInv(V, Len(ss), q)
  BY DEF Carries
<1>2. PICK i \in DOMAIN caches :
               MasterInv(Extended(V, Len(ss), [pos |-> i, s |-> r]), Len(ss) + 1, Tail(q))
  BY <1>1, ReportsOrder
<1> DEFINE W == Extended(V, Len(ss), [pos |-> i, s |-> r])
<1>3. i \in Nat
  BY <1>1 DEF MasterInv, Caches
<1>4. /\ ss \o <<r>> \in Seq(Report) /\ Len(ss \o <<r>>) = Len(ss) + 1
      /\ \A k \in 1..Len(ss \o <<r>>) : W[k].s = (ss \o <<r>>)[k]
      /\ W[Len(ss \o <<r>>)].s = r
  BY <1>3, Appended
<1> QED  BY <1>2, <1>4 DEF Carries

(* A handler of the vehicle publishes what follows the reports ss.         *)
LEMMA PublishesOn ==
    ASSUME VehicleInv', Known', UNCHANGED masterVars,
           NEW V, NEW ss, NEW q, Carries(V, ss, q), q = orders',
           Continues(V[Len(ss)].s, Snapshot'),
           states' = ss \o (IF Started = {} THEN <<>> ELSE <<Before>>) \o <<Snapshot'>>
    PROVE  InSync'
<1>1. Before \in Report /\ Alike(Before, Snapshot')
  BY BeforeAlike
<1>2. Snapshot' \in Report
  <2>1. (VehicleInv /\ Known => Snapshot \in Report)'
    BY SnapshotType, PTL
  <2> QED  BY <2>1
<1>3. PICK r : r = Snapshot'
  OBVIOUS
<1>4. ss \in Seq(Report)
  BY DEF Carries
<1>5. \E W, rs : Carries(W, rs, q) /\ rs = states' /\ W[Len(rs)].s = r
  <2>1. CASE Started = {}
    <3>1. states' = ss \o <<r>>
      BY <1>3, <1>4, <2>1
    <3>2. PICK W : Carries(W, ss \o <<r>>, q) /\ W[Len(ss \o <<r>>)].s = r
      BY <1>2, <1>3, CarriesOn
    <3> QED  BY <3>1, <3>2
  <2>2. CASE Started # {}
    <3>1. PICK b \in Report : b = Before
      BY <1>1
    <3>2. Continues(V[Len(ss)].s, b) /\ Continues(b, r)
      BY <1>1, <1>3, <3>1 DEF Alike, Continues, Lessens
    <3>3. PICK bs : bs = ss \o <<b>>
      OBVIOUS
    <3>4. PICK W : Carries(W, bs, q) /\ W[Len(bs)].s = b
      <4>1. \E W : Carries(W, ss \o <<b>>, q) /\ W[Len(ss \o <<b>>)].s = b
        BY <3>2, CarriesOn
      <4> QED  BY <3>3, <4>1
    <3>5. PICK X : Carries(X, bs \o <<r>>, q) /\ X[Len(bs \o <<r>>)].s = r
      <4>1. r \in Report /\ Continues(W[Len(bs)].s, r)
        BY <1>2, <1>3, <3>2, <3>4
      <4> QED  BY <3>4, <4>1, CarriesOn
    <3>6. states' = bs \o <<r>>
      BY <1>3, <2>2, <3>1, <3>3
    <3> QED  BY <3>5, <3>6
  <2> QED  BY <2>1, <2>2
<1>6. PICK W, rs : Carries(W, rs, q)' /\ rs = states' /\ W[Len(rs)].s = r
  BY <1>5, CarriesUnchanged DEF masterVars
<1> QED  BY <1>3, <1>6 DEF InSync

LEMMA Synced ==
    ASSUME UNCHANGED masterVars, NEW V, NEW ss, NEW q, Carries(V, ss, q), ss = states', q = orders',
           V[Len(ss)].s = Snapshot'
    PROVE  InSync'
BY CarriesUnchanged DEF InSync, masterVars

LEMMA NothingBefore ==
    ASSUME NEW ss \in Seq(Report)
    PROVE  ss \o <<>> = ss
OBVIOUS

LEMMA QuietStep ==
    ASSUME VehicleInv, VehicleInv', AgvP!LoneNoneOrder, [AgvP!Next]_(AgvP!vars),
           order' = order, rejected' = rejected
    PROVE  Continues(Snapshot, Snapshot')
<1>1. /\ Lessens(Snapshot, Snapshot')
      /\ \A a \in ActionId : actionStatus[a] # "ABSENT" => actionStatus'[a] # "ABSENT"
  BY QuietReport
<1> QED  BY <1>1 DEF Continues, Snapshot

LEMMA QuietSync ==
    ASSUME VehicleInv, VehicleInv', Known', AgvP!LoneNoneOrder, [AgvP!Next]_(AgvP!vars),
           order' = order, rejected' = rejected, AgvStep, Publish(<<>>), InSync,
           \/ orders' = orders
           \/ orders # <<>> /\ Head(orders) = CancelMessage /\ orders' = Tail(orders)
    PROVE  InSync'
<1>1. PICK V, ss, q : /\ ss = states /\ q = orders /\ Carries(V, ss, q)
                      /\ V[Len(ss)].s = Snapshot
  BY DEF InSync
<1>2. PICK p : p = orders'
  OBVIOUS
<1>3. Carries(V, ss, p)
  <2>1. CASE p = q
    BY <1>1, <2>1
  <2>2. CASE q # <<>> /\ Head(q) = CancelMessage /\ p = Tail(q)
    BY <1>1, <2>2, CancelArrives DEF Carries
  <2> QED  BY <1>1, <1>2, <2>1, <2>2
<1>4. ss \in Seq(Report) /\ ss \o <<>> = ss
  BY <1>1, NothingBefore DEF Carries
<1>5. states' = ss \o (IF Started = {} THEN <<>> ELSE <<Before>>) \o <<Snapshot'>>
  BY <1>1, <1>4 DEF Publish
<1>6. Continues(V[Len(ss)].s, Snapshot')
  BY <1>1, QuietStep
<1> QED  BY <1>2, <1>3, <1>5, <1>6, PublishesOn DEF AgvStep

LEMMA RejectSync ==
    ASSUME VehicleInv, Known, NEW o \in Orders, Agv!RejectOrder(o), UNCHANGED cancelState,
           VehicleInv', Known', AgvStep, Publish(<<>>), InSync,
           orders # <<>>, Head(orders) = <<o>>, orders' = Tail(orders)
    PROVE  InSync'
<1>1. PICK V, ss, q : /\ ss = states /\ q = orders /\ Carries(V, ss, q)
                      /\ V[Len(ss)].s = Snapshot
  BY DEF InSync
<1>2. /\ rejected' = rejected \cup {<<o.orderId, o.upd>>} /\ exec' = exec
      /\ UNCHANGED <<order, lastNode, nodeStates, edgeStates, actionStatus>>
  BY DEF Agv!RejectOrder, Agv!reported, Agv!dispatched
<1>3. PICK r \in Report : r = Snapshot'
  <2>1. (VehicleInv /\ Known => Snapshot \in Report)'
    BY SnapshotType, PTL
  <2> QED  BY <2>1
<1>4. ss \in Seq(Report) /\ ss \o <<>> = ss
  BY <1>1, NothingBefore DEF Carries
<1>5. states' = ss \o <<r>>
  BY <1>1, <1>2, <1>3, <1>4 DEF Publish, Started
<1>6. Continues(V[Len(ss)].s, [r EXCEPT !.errors = {}])
  BY <1>1, <1>2, <1>3 DEF Continues, Snapshot, Lessens, Acting
<1>7. r.errors = V[Len(ss)].s.errors \cup {<<o.orderId, o.upd>>}
  BY <1>1, <1>2, <1>3 DEF Snapshot
<1>8. PICK W : Carries(W, ss \o <<r>>, Tail(q)) /\ W[Len(ss \o <<r>>)].s = r
  BY <1>1, <1>6, <1>7, CarriesRejection
<1>9. PICK rs, p : rs = ss \o <<r>> /\ p = Tail(q)
  OBVIOUS
<1>10. rs = states' /\ p = orders' /\ W[Len(rs)].s = Snapshot' /\ Carries(W, rs, p)
  BY <1>1, <1>3, <1>5, <1>8, <1>9
<1> QED  BY <1>10, Synced DEF AgvStep

LEMMA StitchSync ==
    ASSUME VehicleInv, Known, NEW o \in Orders, Agv!StitchOrder(o),
           VehicleInv', Known', AgvStep, Publish(<<>>), InSync,
           orders # <<>>, Head(orders) = <<o>>, orders' = Tail(orders)
    PROVE  InSync'
<1>1. PICK V, ss, q : /\ ss = states /\ q = orders /\ Carries(V, ss, q)
                      /\ V[Len(ss)].s = Snapshot
  BY DEF InSync
<1>2. /\ EndsFirst(Snapshot, Snapshot') /\ Shows(Snapshot', o) /\ Snapshot'.errors = {}
      /\ Acting(Snapshot') \subseteq Acting(Snapshot) \cup BaseActions(o)
  BY StitchReport DEF Snapshot
<1>3. Before \in Report /\ Alike(Before, Snapshot')
  BY BeforeAlike
<1>4. PICK t \in Report : t = Snapshot'
  <2>1. (VehicleInv /\ Known => Snapshot \in Report)'
    BY SnapshotType, PTL
  <2> QED  BY <2>1
<1>5. PICK r \in Report : r = IF Started = {} THEN t ELSE Before
  BY <1>3
<1>6. Alike(r, t)
  BY <1>3, <1>4, <1>5 DEF Alike
<1>7. /\ Shows(r, o) /\ r.errors = {} /\ EndsFirst(V[Len(ss)].s, r)
      /\ Acting(r) \subseteq Acting(V[Len(ss)].s) \cup BaseActions(o)
  <2>1. BaseActions(o) \subseteq ActionId
    BY BaseActionsKnown
  <2> QED  BY <1>1, <1>2, <1>4, <1>6, <2>1 DEF Alike, Shows, EndsFirst
<1>8. PICK rs, p : rs = ss \o <<r>> /\ p = Tail(q)
  OBVIOUS
<1>9. PICK W : Carries(W, rs, p) /\ W[Len(rs)].s = r
  <2>1. Carries(V, ss, q) /\ q # <<>> /\ Head(q) = <<o>>
    BY <1>1
  <2>2. \E W : Carries(W, ss \o <<r>>, Tail(q)) /\ W[Len(ss \o <<r>>)].s = r
    BY <1>7, <2>1, CarriesOrder
  <2> QED  BY <1>8, <2>2
<1>10. ss \in Seq(Report) /\ ss \o <<>> = ss
  BY <1>1, NothingBefore DEF Carries
<1>11. CASE Started = {}
  <2>1. states' = rs /\ r = t
    BY <1>1, <1>4, <1>5, <1>8, <1>10, <1>11 DEF Publish
  <2> QED  BY <1>1, <1>4, <1>8, <1>9, <2>1, Synced DEF AgvStep
<1>12. CASE Started # {}
  <2>1. states' = rs \o <<t>>
    BY <1>1, <1>4, <1>5, <1>8, <1>10, <1>12 DEF Publish
  <2>2. Continues(r, t)
    BY <1>6 DEF Alike, Continues, Lessens
  <2>3. PICK X : Carries(X, rs \o <<t>>, p) /\ X[Len(rs \o <<t>>)].s = t
    BY <1>9, <2>2, CarriesOn
  <2>4. PICK ts : ts = rs \o <<t>>
    OBVIOUS
  <2> QED  BY <1>1, <1>4, <1>8, <2>1, <2>3, <2>4, Synced DEF AgvStep
<1> QED  BY <1>11, <1>12

LEMMA AcceptedType ==
    ASSUME VehicleInv, Known, NEW o \in Orders
    PROVE  /\ Accepted(o) \in Report /\ Shows(Accepted(o), o)
           /\ Acting(Accepted(o)) = BaseActions(o)
<1>1. o \in Order
  BY AssignedOrders
<1>2. BaseActions(o) \subseteq ActionId
  BY BaseActionsKnown
<1>3. /\ {Agv!NodeState(n) : n \in o.nodes} \subseteq [id : NodeId, seq : Nat, rel : BOOLEAN]
      /\ {Agv!EdgeState(e) : e \in o.edges}
             \subseteq [from : NodeId, to : NodeId, seq : Nat, rel : BOOLEAN]
  BY <1>1 DEF Order, Node, Edge, Agv!NodeState, Agv!EdgeState
<1>4. lastNode \in [id : NodeId \cup {NoNode}, seq : Nat]
  BY DEF VehicleInv, AgvP!IInv, AgvP!TypeOK
<1>5. o.orderId \in OrderId \cup {NoOrder} /\ o.upd \in Nat
  BY <1>1 DEF Order
<1>6. Accepted(o) \in Report
  BY <1>3, <1>4, <1>5 DEF Accepted, Report, Agv!Status, Known
<1>7. Accepted(o).acts = [a \in ActionId |-> IF a \in BaseActions(o) THEN "WAITING" ELSE "ABSENT"]
  BY DEF Accepted
<1>8. Acting(Accepted(o)) = BaseActions(o)
  BY <1>2, <1>7 DEF Acting
<1>9. Shows(Accepted(o), o)
  BY <1>2, <1>7 DEF Shows, Accepted
<1> QED  BY <1>6, <1>8, <1>9

LEMMA StartSync ==
    ASSUME VehicleInv, Known, NEW o \in Orders, Agv!StartOrder(o),
           VehicleInv', Known', AgvStep, Publish(<<Accepted(o)>>), InSync,
           orders # <<>>, Head(orders) = <<o>>, orders' = Tail(orders)
    PROVE  InSync'
<1>1. PICK V, ss, q : /\ ss = states /\ q = orders /\ Carries(V, ss, q)
                      /\ V[Len(ss)].s = Snapshot
  BY DEF InSync
<1>2. PICK r \in Report : r = Accepted(o) /\ Shows(r, o) /\ Acting(r) = BaseActions(o)
  BY AcceptedType
<1>3. /\ EndsFirst(Snapshot, r) /\ order' = o /\ rejected' = {} /\ Lessens(r, Snapshot')
      /\ \A a \in BaseActions(o) : actionStatus'[a] # "ABSENT"
  BY <1>2, StartReport
<1>4. /\ r.errors = {} /\ r.orderId = o.orderId /\ r.upd = o.upd
      /\ \A a \in ActionId : r.acts[a] # "ABSENT" => a \in BaseActions(o)
  BY <1>2 DEF Accepted
<1>5. PICK rs, p : rs = ss \o <<r>> /\ p = Tail(q)
  OBVIOUS
<1>6. PICK W : Carries(W, rs, p) /\ W[Len(rs)].s = r
  <2>1. Carries(V, ss, q) /\ q # <<>> /\ Head(q) = <<o>>
    BY <1>1
  <2>2. EndsFirst(V[Len(ss)].s, r)
    BY <1>1, <1>3
  <2>3. \E W : Carries(W, ss \o <<r>>, Tail(q)) /\ W[Len(ss \o <<r>>)].s = r
    BY <1>2, <1>4, <2>1, <2>2, CarriesOrder
  <2> QED  BY <1>5, <2>3
<1>7. Continues(W[Len(rs)].s, Snapshot')
  BY <1>3, <1>4, <1>6 DEF Continues, Snapshot
<1>8. states' = rs \o (IF Started = {} THEN <<>> ELSE <<Before>>) \o <<Snapshot'>>
  BY <1>1, <1>2, <1>5 DEF Publish
<1> QED  BY <1>1, <1>5, <1>6, <1>7, <1>8, PublishesOn DEF AgvStep

-----------------------------------------------------------------------------
(* The inductive invariant.                                                *)
IndInv ==
    /\ VehicleInv /\ Known /\ lost \in Nat
    /\ orders \in Seq({<<o>> : o \in Orders} \cup {CancelMessage})
    /\ lost = 0 => InSync

VehicleActs == ReceiveOrder \/ ReceiveCancel \/ Execute \/ Stopped \/ PublishCurrentState

LEMMA OrderReceived ==
    ASSUME IndInv, ReceiveOrder
    PROVE  \E o \in Orders :
              /\ orders # <<>> /\ Head(orders) = <<o>> /\ orders' = Tail(orders)
              /\ \/ (Agv!RejectOrder(o) \/ Agv!DiscardOrder(o) \/ Agv!StitchOrder(o))
                       /\ Publish(<<>>)
                 \/ Agv!StartOrder(o) /\ Publish(<<Accepted(o)>>)
<1>1. Head(orders) \in {<<o>> : o \in Orders} \cup {CancelMessage}
  BY DEF IndInv, ReceiveOrder
<1>2. PICK k \in DOMAIN Head(orders) : LET o == Head(orders)[k] IN
         \/ (Agv!RejectOrder(o) \/ Agv!DiscardOrder(o) \/ Agv!StitchOrder(o)) /\ Publish(<<>>)
         \/ Agv!StartOrder(o) /\ Publish(<<Accepted(o)>>)
  BY DEF ReceiveOrder
<1>3. Head(orders) # CancelMessage
  BY <1>2 DEF CancelMessage
<1>4. PICK o \in Orders : Head(orders) = <<o>>
  BY <1>1, <1>3
<1>5. k = 1 /\ Head(orders)[k] = o
  BY <1>2, <1>4
<1> QED  BY <1>2, <1>4, <1>5 DEF ReceiveOrder

LEMMA VehicleSteps ==
    ASSUME IndInv, VehicleActs
    PROVE  [AgvP!Next]_(AgvP!vars)
<1>1. CASE ReceiveOrder
  <2>1. PICK o \in Orders : \/ Agv!RejectOrder(o) \/ Agv!DiscardOrder(o)
                            \/ Agv!StitchOrder(o) \/ Agv!StartOrder(o)
    BY <1>1, OrderReceived
  <2> QED  BY <2>1, SameSteps DEF AgvP!Next
<1>2. CASE ReceiveCancel
  <2>1. CASE Agv!CancelOrder
    BY <2>1, SameSteps DEF AgvP!Next
  <2>2. CASE UNCHANGED agvVars
    BY <2>2 DEF agvVars, AgvP!vars, AgvP!reported, AgvP!dispatched, AgvP!stopping
  <2> QED  BY <1>2, <2>1, <2>2 DEF ReceiveCancel
<1>3. CASE Execute
  BY <1>3, SameSteps DEF AgvP!Next, Execute
<1>4. CASE Stopped
  BY <1>4, SameSteps DEF AgvP!Next, Stopped
<1>5. CASE PublishCurrentState
  BY <1>5 DEF PublishCurrentState, agvVars, AgvP!vars, AgvP!reported, AgvP!dispatched, AgvP!stopping
<1> QED  BY <1>1, <1>2, <1>3, <1>4, <1>5 DEF VehicleActs

(* The order it has received already is not received again.                *)
LEMMA NotDiscarded ==
    ASSUME IndInv, InSync, NEW o \in Orders, orders # <<>>, Head(orders) = <<o>>
    PROVE  ~Agv!DiscardOrder(o)
<1> SUFFICES ASSUME o.orderId = order.orderId, o.upd = order.upd PROVE FALSE
  BY DEF Agv!DiscardOrder, Agv!SameOrder
<1>1. PICK V, ss, q : /\ ss = states /\ q = orders /\ Carries(V, ss, q)
                      /\ V[Len(ss)].s = Snapshot
  BY DEF InSync
<1> DEFINE n == V[Len(ss)].pos
<1>2. MasterInv(V, Len(ss), q) /\ Len(ss) \in Nat /\ Len(ss) \in 0..Len(ss)
  BY <1>1 DEF Carries
<1>3. Caches /\ Trace(V, Len(ss)) /\ Underway(n, q)
  BY <1>2 DEF MasterInv
<1>4. n \in Nat
  BY <1>2, <1>3 DEF Trace
<1>5. PICK i \in DOMAIN caches : caches[i].order = o /\ i > n
  BY <1>1, <1>3, <1>4, OrderArrives
<1>6. Snapshot.orderId = order.orderId /\ Snapshot.upd = order.upd
  BY DEF Snapshot
<1>7. CASE n = 0
  <2>1. Snapshot.orderId = NoOrder
    BY <1>1, <1>2, <1>3, <1>7 DEF Trace
  <2> QED  BY <1>6, <2>1, AssignedOrders
<1>8. CASE n # 0
  <2>1. n \in DOMAIN caches /\ Shows(Snapshot, caches[n].order)
    BY <1>1, <1>2, <1>3, <1>8 DEF Trace
  <2>2. caches[n].order \in Orders
    BY <1>3, <2>1 DEF Caches
  <2>3. caches[n].order = o
    BY <1>6, <2>1, <2>2, AssignedOrders DEF Shows
  <2>4. n = i
    BY <1>3, <1>5, <2>1, <2>3 DEF Caches
  <2> QED  BY <1>4, <1>5, <2>4
<1> QED  BY <1>7, <1>8

LEMMA VehicleKnown ==
    ASSUME IndInv, VehicleActs
    PROVE  Known' /\ orders' \in Seq({<<o>> : o \in Orders} \cup {CancelMessage})
                  /\ lost' = lost /\ UNCHANGED masterVars
<1>1. Known'
  BY DEF IndInv, Known, VehicleActs, ReceiveOrder, ReceiveCancel, Execute, Stopped,
         PublishCurrentState, CancelState
<1>2. orders' = orders \/ (orders # <<>> /\ orders' = Tail(orders))
  BY DEF VehicleActs, ReceiveOrder, ReceiveCancel, Execute, Stopped, PublishCurrentState
<1>3. orders' \in Seq({<<o>> : o \in Orders} \cup {CancelMessage})
  BY <1>2 DEF IndInv
<1>4. AgvStep
  BY DEF VehicleActs, ReceiveOrder, ReceiveCancel, Execute, Stopped, PublishCurrentState
<1> QED  BY <1>1, <1>3, <1>4 DEF AgvStep

LEMMA VehicleActsStep ==
    ASSUME IndInv, VehicleActs, AgvP!LoneNoneOrder, AgvP!LoneNoneOrder'
    PROVE  IndInv'
<1>1. [AgvP!Next]_(AgvP!vars)
  BY VehicleSteps
<1>2. VehicleInv /\ VehicleInv' /\ Known /\ Known'
  BY <1>1, VehicleStep, VehicleKnown DEF IndInv
<1>3. ASSUME InSync PROVE InSync'
  <2>1. CASE ReceiveOrder
    <3>1. AgvStep /\ UNCHANGED cancelState
      BY <2>1 DEF ReceiveOrder
    <3>2. PICK o \in Orders :
              /\ orders # <<>> /\ Head(orders) = <<o>> /\ orders' = Tail(orders)
              /\ \/ (Agv!RejectOrder(o) \/ Agv!DiscardOrder(o) \/ Agv!StitchOrder(o))
                       /\ Publish(<<>>)
                 \/ Agv!StartOrder(o) /\ Publish(<<Accepted(o)>>)
      BY <2>1, OrderReceived
    <3>3. ~Agv!DiscardOrder(o)
      BY <1>3, <3>2, NotDiscarded
    <3>4. CASE Agv!RejectOrder(o) /\ Publish(<<>>)
      BY <1>2, <1>3, <3>1, <3>2, <3>4, RejectSync
    <3>5. CASE Agv!StitchOrder(o) /\ Publish(<<>>)
      BY <1>2, <1>3, <3>1, <3>2, <3>5, StitchSync
    <3>6. CASE Agv!StartOrder(o) /\ Publish(<<Accepted(o)>>)
      BY <1>2, <1>3, <3>1, <3>2, <3>6, StartSync
    <3> QED  BY <3>2, <3>3, <3>4, <3>5, <3>6
  <2>2. CASE ReceiveCancel
    <3>1. order' = order /\ rejected' = rejected
      BY <2>2 DEF ReceiveCancel, Agv!CancelOrder, agvVars
    <3> QED  BY <1>1, <1>2, <1>3, <2>2, <3>1, QuietSync DEF ReceiveCancel
  <2>3. CASE Execute
    <3>1. order' = order /\ rejected' = rejected
      BY <2>3 DEF Execute, Agv!EdgeTraversed, Agv!DrivingToNextNode, Agv!ActionBegins,
                  Agv!ActionEnds
    <3> QED  BY <1>1, <1>2, <1>3, <2>3, <3>1, QuietSync DEF Execute
  <2>4. CASE Stopped
    <3>1. order' = order /\ rejected' = rejected
      BY <2>4 DEF Stopped, Agv!Stopped
    <3> QED  BY <1>1, <1>2, <1>3, <2>4, <3>1, QuietSync DEF Stopped
  <2>5. CASE PublishCurrentState
    <3>1. order' = order /\ rejected' = rejected
      BY <2>5 DEF PublishCurrentState, agvVars
    <3> QED  BY <1>1, <1>2, <1>3, <2>5, <3>1, QuietSync DEF PublishCurrentState
  <2> QED  BY <2>1, <2>2, <2>3, <2>4, <2>5 DEF VehicleActs
<1> QED  BY <1>2, <1>3, VehicleKnown DEF IndInv

-----------------------------------------------------------------------------
(* The operations of the master controller.                                *)

(* The caches go on being those of the same orders.                        *)
KeepsOrders ==
    \A i \in DOMAIN caches : i \in DOMAIN caches' /\ caches'[i].order = caches[i].order

LEMMA TraceKept ==
    ASSUME NEW V, NEW L \in Nat, Trace(V, L), KeepsOrders
    PROVE  Trace(V, L)'
<1>1. V \in [0..L -> [pos : Nat, s : Report]]
  BY DEF Trace
<1>2. \A k \in 0..L :
         IF V[k].pos = 0 THEN V[k].s.orderId = NoOrder /\ Over(V[k].s)
         ELSE V[k].pos \in DOMAIN caches' /\ Shows(V[k].s, caches'[V[k].pos].order)
  BY DEF Trace, KeepsOrders
<1>3. \A k \in 1..L :
         /\ EndsFirst(V[k - 1].s, V[k].s)
         /\ V[k - 1].pos < V[k].pos =>
               Acting(V[k].s) \subseteq Acting(V[k - 1].s) \cup BaseActions(caches'[V[k].pos].order)
  <2> SUFFICES ASSUME NEW k \in 1..L
               PROVE  /\ EndsFirst(V[k - 1].s, V[k].s)
                      /\ V[k - 1].pos < V[k].pos =>
                            Acting(V[k].s) \subseteq Acting(V[k - 1].s)
                                               \cup BaseActions(caches'[V[k].pos].order)
    OBVIOUS
  <2>1. k \in 0..L /\ k - 1 \in 0..L
    OBVIOUS
  <2>2. V[k].pos \in Nat /\ V[k - 1].pos \in Nat
    BY <1>1, <2>1
  <2>3. V[k - 1].pos < V[k].pos => V[k].pos \in DOMAIN caches
    BY <2>1, <2>2 DEF Trace
  <2> QED  BY <2>3 DEF Trace, KeepsOrders
<1> QED  BY <1>1, <1>2, <1>3 DEF Trace

LEMMA AssignStep ==
    ASSUME NEW o \in Orders, AssignOrder(o), InSync
    PROVE  InSync'
<1>1. PICK V, ss, q : /\ ss = states /\ q = orders /\ Carries(V, ss, q)
                      /\ V[Len(ss)].s = Snapshot
  BY DEF InSync
<1> DEFINE L == Len(ss)
           new == NewCache(o)
<1>2. PICK p, N : p = Append(q, <<o>>) /\ N = Len(caches)
  OBVIOUS
<1>3. MasterInv(V, L, q) /\ L \in Nat /\ ss \in Seq(Report) /\ 0 \in 0..L /\ L \in 0..L
  BY <1>1 DEF Carries
<1>4. /\ Caches /\ Unheard(V[0].pos) /\ Trace(V, L) /\ Underway(V[L].pos, q)
      /\ Refused(V, L, q) /\ Awaited(V, L, q) /\ Coming(V, L) /\ Heard(V[0])
  BY <1>3 DEF MasterInv
<1>5. PICK C : caches \in Seq(C)
  BY <1>4 DEF Caches
<1>6. /\ N \in Nat /\ DOMAIN caches = 1..N /\ DOMAIN caches' = 1..(N + 1)
      /\ \A i \in 1..N : caches'[i] = caches[i]
      /\ caches'[N + 1] = new
      /\ Len(caches') = N + 1 /\ caches' \in Seq(C \cup {new})
  <2>1. caches \in Seq(C \cup {new}) /\ new \in C \cup {new}
    BY <1>5
  <2> QED  BY <1>2, <1>5, <2>1 DEF AssignOrder
<1>7. \A i \in DOMAIN caches' : i \in DOMAIN caches \/ i = N + 1
  BY <1>6
<1>8. /\ {"order", "prev", "live", "invoked", "mapped", "seen"} \subseteq DOMAIN new
      /\ new.order = o /\ new.prev = lastCache /\ new.live = TRUE /\ new.invoked = FALSE
      /\ new.mapped = BaseActions(o) /\ new.seen = [a \in ActionId |-> "ABSENT"]
  BY DEF NewCache, LastAssigned
<1>9. \A i \in DOMAIN caches : caches[i].order # o /\ i \in DOMAIN caches' /\ i < N + 1
  BY <1>6 DEF AssignOrder, Assignable
<1> HIDE DEF new
<1>10. lastCache' = N + 1 /\ lastCache <= N /\ lastCache \in Nat
  BY <1>2, <1>4 DEF AssignOrder, Caches
<1>11. Caches'
  <2>1. \A i \in DOMAIN caches' :
          LET c == caches'[i] IN
          /\ {"order", "prev", "live", "invoked", "mapped", "seen"} \subseteq DOMAIN c
          /\ c.order \in Orders /\ c.live \in BOOLEAN /\ c.invoked \in BOOLEAN
          /\ c.prev \in Nat /\ c.prev < i
          /\ BaseActions(c.order) \subseteq c.mapped /\ c.mapped \subseteq ActionId
    <3> SUFFICES ASSUME NEW i \in DOMAIN caches'
                 PROVE  LET c == caches'[i] IN
                        /\ {"order", "prev", "live", "invoked", "mapped", "seen"} \subseteq DOMAIN c
                        /\ c.order \in Orders /\ c.live \in BOOLEAN /\ c.invoked \in BOOLEAN
                        /\ c.prev \in Nat /\ c.prev < i
                        /\ BaseActions(c.order) \subseteq c.mapped /\ c.mapped \subseteq ActionId
      OBVIOUS
    <3>1. CASE i \in DOMAIN caches
      BY <1>4, <1>6, <3>1 DEF Caches
    <3>2. CASE i = N + 1
      <4>1. BaseActions(o) \subseteq ActionId
        BY BaseActionsKnown
      <4>2. lastCache < N + 1
        BY <1>6, <1>10
      <4> QED  BY <1>6, <1>8, <1>10, <3>2, <4>1, <4>2
    <3> QED  BY <1>7, <3>1, <3>2
  <2>2. \A i, j \in DOMAIN caches' : caches'[i].order = caches'[j].order => i = j
    BY <1>4, <1>6, <1>7, <1>8, <1>9 DEF Caches
  <2>3. \A i, k \in DOMAIN caches' : i < k /\ caches'[i].live => caches'[k].prev = k - 1
    <3> SUFFICES ASSUME NEW i \in DOMAIN caches', NEW k \in DOMAIN caches', i < k, caches'[i].live
                 PROVE  caches'[k].prev = k - 1
      OBVIOUS
    <3>1. i \in DOMAIN caches /\ caches'[i] = caches[i]
      BY <1>6
    <3>2. CASE k \in DOMAIN caches
      BY <1>4, <1>6, <3>1, <3>2 DEF Caches
    <3>3. CASE k = N + 1
      <4>1. lastCache = N
        BY <1>2, <1>4, <3>1 DEF Caches
      <4>2. caches'[k].prev = N /\ k - 1 = N
        BY <1>6, <1>8, <3>3, <4>1
      <4> QED  BY <4>2
    <3> QED  BY <1>7, <3>2, <3>3
  <2> QED  BY <1>6, <1>10, <2>1, <2>2, <2>3 DEF Caches
<1>12. Unheard(V[0].pos)'
  BY <1>4, <1>6, <1>7, <1>8 DEF Unheard
<1>13. Trace(V, L)'
  BY <1>3, <1>4, <1>6, TraceKept DEF KeepsOrders
<1>14. /\ q \in Seq({<<r>> : r \in Orders} \cup {CancelMessage})
       /\ p \in Seq({<<r>> : r \in Orders} \cup {CancelMessage})
       /\ DOMAIN q = 1..Len(q) /\ DOMAIN p = 1..(Len(q) + 1) /\ Len(q) \in Nat
       /\ \A k \in 1..Len(q) : p[k] = q[k]
       /\ p[Len(q) + 1] = <<o>>
  BY <1>2, <1>4 DEF Underway
<1>15. \A k \in DOMAIN p : k \in DOMAIN q \/ k = Len(q) + 1
  BY <1>14
<1>16. \A k \in DOMAIN q, i \in DOMAIN caches : Sent(q, k, i) <=> Sent(p, k, i)'
  BY <1>6, <1>14 DEF Sent
<1>17. \A k \in DOMAIN q : ~Sent(p, k, N + 1)'
  <2> SUFFICES ASSUME NEW k \in DOMAIN q, p[k] = <<caches'[N + 1].order>> PROVE FALSE
    BY DEF Sent
  <2>1. q[k] = <<o>>
    BY <1>6, <1>8, <1>14
  <2>2. <<o>> # CancelMessage
    BY DEF CancelMessage
  <2>3. PICK i \in DOMAIN caches : q[k] = <<caches[i].order>>
    BY <1>4, <2>1, <2>2 DEF Underway, Sent
  <2> QED  BY <1>9, <2>1, <2>3
<1>18. Sent(p, Len(q) + 1, N + 1)' /\ \A i \in DOMAIN caches : ~Sent(p, Len(q) + 1, i)'
  BY <1>6, <1>8, <1>9, <1>14 DEF Sent
<1>19. V[L].pos \in Nat /\ V[L].pos < N + 1
  BY <1>3, <1>4, <1>6 DEF Trace
<1>20. Underway(V[L].pos, p)'
  <2>1. \A k \in DOMAIN p : p[k] = CancelMessage \/
           \E i \in DOMAIN caches' : Sent(p, k, i)' /\ caches'[i].live /\ i > V[L].pos
    <3> SUFFICES ASSUME NEW k \in DOMAIN p, p[k] # CancelMessage
                 PROVE \E i \in DOMAIN caches' : Sent(p, k, i)' /\ caches'[i].live /\ i > V[L].pos
      OBVIOUS
    <3>1. CASE k \in DOMAIN q
      <4>1. PICK i \in DOMAIN caches : Sent(q, k, i) /\ caches[i].live /\ i > V[L].pos
        BY <1>4, <1>14, <3>1 DEF Underway
      <4> QED  BY <1>6, <1>9, <1>16, <3>1, <4>1
    <3>2. CASE k = Len(q) + 1
      <4>1. N + 1 \in DOMAIN caches' /\ N + 1 > V[L].pos /\ caches'[N + 1].live
        BY <1>6, <1>8, <1>19
      <4> QED  BY <1>18, <3>2, <4>1
    <3> QED  BY <1>15, <3>1, <3>2
  <2>2. \A k, l \in DOMAIN p, i, j \in DOMAIN caches' :
          k < l /\ Sent(p, k, i)' /\ Sent(p, l, j)' => i < j
    <3> SUFFICES ASSUME NEW k \in DOMAIN p, NEW l \in DOMAIN p,
                        NEW i \in DOMAIN caches', NEW j \in DOMAIN caches',
                        k < l, Sent(p, k, i)', Sent(p, l, j)'
                 PROVE  i < j
      OBVIOUS
    <3>1. k \in DOMAIN q
      BY <1>14
    <3>2. i \in DOMAIN caches
      BY <1>7, <1>17, <3>1
    <3>3. CASE l \in DOMAIN q
      <4>1. j \in DOMAIN caches
        BY <1>7, <1>17, <3>3
      <4> QED  BY <1>4, <1>16, <3>1, <3>2, <3>3, <4>1 DEF Underway
    <3>4. CASE l = Len(q) + 1
      BY <1>7, <1>9, <1>18, <3>2, <3>4
    <3> QED  BY <1>15, <3>3, <3>4
  <2> QED  BY <1>14, <2>1, <2>2 DEF Underway
<1>21. Refused(V, L, p)'
  <2> SUFFICES ASSUME NEW k \in 0..L, NEW e \in V[k].s.errors
               PROVE  \E j \in DOMAIN caches' :
                         /\ e = <<caches'[j].order.orderId, caches'[j].order.upd>> /\ j > V[k].pos
                         /\ \A i \in DOMAIN caches', l \in DOMAIN p : Sent(p, l, i)' => j < i
                         /\ \A l \in 0..L : V[l].pos # j
    BY DEF Refused
  <2>1. PICK j \in DOMAIN caches :
           /\ e = <<caches[j].order.orderId, caches[j].order.upd>> /\ j > V[k].pos
           /\ \A i \in DOMAIN caches, l \in DOMAIN q : Sent(q, l, i) => j < i
           /\ \A l \in 0..L : V[l].pos # j
    BY <1>4 DEF Refused
  <2>2. \A i \in DOMAIN caches', l \in DOMAIN p : Sent(p, l, i)' => j < i
    BY <1>7, <1>9, <1>15, <1>16, <1>17, <1>18, <2>1
  <2> QED  BY <1>6, <1>9, <2>1, <2>2
<1>22. Awaited(V, L, p)'
  <2> SUFFICES ASSUME NEW j \in DOMAIN caches', caches'[j].live
               PROVE  \/ \E k \in DOMAIN p : Sent(p, k, j)'
                      \/ \E k \in 0..L : V[k].pos = j
                      \/ \E k \in 1..L : Names(V[k].s, j)'
    BY DEF Awaited
  <2>1. CASE j = N + 1
    <3>1. Len(q) + 1 \in DOMAIN p
      BY <1>14
    <3> QED  BY <1>18, <2>1, <3>1
  <2>2. CASE j \in DOMAIN caches
    <3>1. caches'[j] = caches[j]
      BY <1>6, <2>2
    <3>2. \A k \in DOMAIN q : k \in DOMAIN p
      BY <1>14
    <3> QED  BY <1>4, <1>16, <2>2, <3>1, <3>2 DEF Awaited, Names
  <2> QED  BY <1>7, <2>1, <2>2
<1>23. Coming(V, L)'
  <2> SUFFICES ASSUME NEW k \in 0..L, V[k].pos > V[0].pos PROVE caches'[V[k].pos].live
    BY DEF Coming
  <2>1. V[k].pos \in DOMAIN caches
    BY <1>3, <1>4 DEF Trace
  <2> QED  BY <1>4, <1>6, <2>1 DEF Coming
<1>24. Heard(V[0])'
  <2>1. V[0].pos > 0 => V[0].pos \in DOMAIN caches
    BY <1>3, <1>4 DEF Trace
  <2>2. V[0].pos > 0 => caches'[V[0].pos] = caches[V[0].pos]
    BY <1>6, <2>1
  <2> QED  BY <1>4, <2>2 DEF Heard
<1>25. Carries(V, ss, p)'
  BY <1>1, <1>11, <1>12, <1>13, <1>20, <1>21, <1>22, <1>23, <1>24 DEF Carries, MasterInv
<1>26. ss = states' /\ p = orders' /\ V[Len(ss)].s = Snapshot'
  BY <1>1, <1>2 DEF AssignOrder, agvVars, Snapshot
<1> QED  BY <1>25, <1>26 DEF InSync

LEMMA FailStep ==
    ASSUME NEW m \in DOMAIN caches, PublishFails(m), InSync
    PROVE  InSync'
<1>1. PICK V, ss, q : /\ ss = states /\ q = orders /\ Carries(V, ss, q)
                      /\ V[Len(ss)].s = Snapshot
  BY DEF InSync
<1> DEFINE L == Len(ss)
<1>2. PICK p : p = Front(q)
  OBVIOUS
<1>3. MasterInv(V, L, q) /\ L \in Nat /\ ss \in Seq(Report) /\ 0 \in 0..L /\ L \in 0..L
  BY <1>1 DEF Carries
<1>4. /\ Caches /\ Unheard(V[0].pos) /\ Trace(V, L) /\ Underway(V[L].pos, q)
      /\ Refused(V, L, q) /\ Awaited(V, L, q) /\ Coming(V, L) /\ Heard(V[0])
  BY <1>3 DEF MasterInv
<1>5. PICK C : caches \in Seq(C)
  BY <1>4 DEF Caches
<1> DEFINE dead == [caches[m] EXCEPT !.live = FALSE]
<1>6. /\ Len(caches) \in Nat /\ DOMAIN caches = 1..Len(caches) /\ DOMAIN caches' = DOMAIN caches
      /\ \A i \in DOMAIN caches : i # m => caches'[i] = caches[i]
      /\ caches'[m] = dead
      /\ Len(caches') = Len(caches) /\ caches' \in Seq(C \cup {dead})
  <2>1. caches \in Seq(C \cup {dead}) /\ dead \in C \cup {dead}
    BY <1>5
  <2>2. caches' = [caches EXCEPT ![m] = dead]
    BY DEF PublishFails
  <2> HIDE DEF dead
  <2> QED  BY <1>5, <2>1, <2>2
<1>7. /\ {"order", "prev", "live", "invoked", "mapped", "seen"} \subseteq DOMAIN dead
      /\ dead.order = caches[m].order /\ dead.prev = caches[m].prev /\ dead.live = FALSE
      /\ dead.invoked = caches[m].invoked /\ dead.mapped = caches[m].mapped
      /\ dead.seen = caches[m].seen
  BY <1>4 DEF Caches
<1> HIDE DEF dead
<1>8. /\ \A i \in DOMAIN caches : /\ caches'[i].order = caches[i].order
                                  /\ caches'[i].prev = caches[i].prev
                                  /\ caches'[i].mapped = caches[i].mapped
                                  /\ caches'[i].seen = caches[i].seen
                                  /\ caches'[i].invoked = caches[i].invoked
                                  /\ caches'[i].live => i # m /\ caches[i].live
  BY <1>6, <1>7
<1>9. m = Len(caches) /\ caches[m].live /\ q # <<>> /\ Last(q) = <<caches[m].order>>
  BY <1>1 DEF PublishFails
<1>10. lastCache' = Remaining(caches') /\ lastCache = Len(caches)
  BY <1>4, <1>9 DEF PublishFails, Caches
<1>11. Caches'
  <2>1. \A i \in DOMAIN caches' :
          LET c == caches'[i] IN
          /\ {"order", "prev", "live", "invoked", "mapped", "seen"} \subseteq DOMAIN c
          /\ c.order \in Orders /\ c.live \in BOOLEAN /\ c.invoked \in BOOLEAN
          /\ c.prev \in Nat /\ c.prev < i
          /\ BaseActions(c.order) \subseteq c.mapped /\ c.mapped \subseteq ActionId
    BY <1>4, <1>6, <1>7 DEF Caches
  <2>2. \A i, j \in DOMAIN caches' : caches'[i].order = caches'[j].order => i = j
    <3>1. \A i, j \in DOMAIN caches : caches[i].order = caches[j].order => i = j
      BY <1>4 DEF Caches
    <3> QED  BY <1>6, <1>8, <3>1
  <2>3. \A i, k \in DOMAIN caches' : i < k /\ caches'[i].live => caches'[k].prev = k - 1
    BY <1>4, <1>6, <1>8 DEF Caches
  <2>4. /\ lastCache' \in Nat /\ lastCache' <= Len(caches')
        /\ (\E i \in DOMAIN caches' : caches'[i].live) => lastCache' = Len(caches')
    BY <1>6, <1>10 DEF Remaining
  <2> QED  BY <1>6, <2>1, <2>2, <2>3, <2>4 DEF Caches
<1>12. Unheard(V[0].pos)'
  BY <1>4, <1>6, <1>8 DEF Unheard
<1>13. Trace(V, L)'
  BY <1>3, <1>4, <1>6, <1>8, TraceKept DEF KeepsOrders
<1>14. /\ q \in Seq({<<r>> : r \in Orders} \cup {CancelMessage})
       /\ p \in Seq({<<r>> : r \in Orders} \cup {CancelMessage})
       /\ DOMAIN q = 1..Len(q) /\ DOMAIN p = 1..(Len(q) - 1) /\ Len(q) \in Nat
       /\ \A k \in 1..(Len(q) - 1) : p[k] = q[k]
       /\ q[Len(q)] = <<caches[m].order>> /\ Len(q) \in DOMAIN q
  <2>1. q \in Seq({<<r>> : r \in Orders} \cup {CancelMessage})
    BY <1>4 DEF Underway
  <2>2. Len(q) \in Nat /\ Len(q) # 0
    BY <1>9, <2>1
  <2> QED  BY <1>2, <1>9, <2>1, <2>2 DEF Front, Last
<1>15. \A k \in DOMAIN p : k \in DOMAIN q /\ p[k] = q[k] /\ k < Len(q)
  BY <1>14
<1>16. \A k \in DOMAIN q : k \in DOMAIN p \/ k = Len(q)
  BY <1>14
<1>17. \A k \in DOMAIN p, i \in DOMAIN caches : Sent(q, k, i) <=> Sent(p, k, i)'
  BY <1>6, <1>8, <1>15 DEF Sent
<1>18. Sent(q, Len(q), m) /\ \A k \in DOMAIN p, i \in DOMAIN caches : Sent(q, k, i) => i < m
  <2>1. Sent(q, Len(q), m)
    BY <1>14 DEF Sent
  <2> QED  BY <1>4, <1>14, <1>15, <2>1 DEF Underway
<1>19. m > V[L].pos /\ V[L].pos \in Nat
  <2>1. <<caches[m].order>> # CancelMessage
    BY DEF CancelMessage
  <2>2. PICK i \in DOMAIN caches : Sent(q, Len(q), i) /\ i > V[L].pos
    BY <1>4, <1>14, <2>1 DEF Underway
  <2>3. caches[i].order = caches[m].order
    BY <1>14, <2>2 DEF Sent
  <2>4. i = m
    BY <1>4, <2>3 DEF Caches
  <2> QED  BY <1>3, <1>4, <2>2, <2>4 DEF Trace
<1>20. \A k \in 0..L : V[k].pos # m /\ (V[k].pos > 0 => V[k].pos \in DOMAIN caches)
  <2> SUFFICES ASSUME NEW k \in 0..L
               PROVE  V[k].pos # m /\ (V[k].pos > 0 => V[k].pos \in DOMAIN caches)
    OBVIOUS
  <2>1. V[k].pos <= V[L].pos /\ V[k].pos \in Nat
    BY <1>3, <1>4 DEF Trace
  <2> QED  BY <1>4, <1>6, <1>19, <2>1 DEF Trace
<1>21. Underway(V[L].pos, p)'
  <2>1. \A k \in DOMAIN p : p[k] = CancelMessage \/
           \E i \in DOMAIN caches' : Sent(p, k, i)' /\ caches'[i].live /\ i > V[L].pos
    <3> SUFFICES ASSUME NEW k \in DOMAIN p, p[k] # CancelMessage
                 PROVE \E i \in DOMAIN caches' : Sent(p, k, i)' /\ caches'[i].live /\ i > V[L].pos
      OBVIOUS
    <3>1. PICK i \in DOMAIN caches : Sent(q, k, i) /\ caches[i].live /\ i > V[L].pos
      BY <1>4, <1>15 DEF Underway
    <3>2. i # m
      BY <1>6, <1>18, <3>1
    <3> QED  BY <1>6, <1>17, <3>1, <3>2
  <2>2. \A k, l \in DOMAIN p, i, j \in DOMAIN caches' :
          k < l /\ Sent(p, k, i)' /\ Sent(p, l, j)' => i < j
    BY <1>4, <1>6, <1>15, <1>17 DEF Underway
  <2> QED  BY <1>14, <2>1, <2>2 DEF Underway
<1>22. Refused(V, L, p)'
  <2> SUFFICES ASSUME NEW k \in 0..L, NEW e \in V[k].s.errors
               PROVE  \E j \in DOMAIN caches' :
                         /\ e = <<caches'[j].order.orderId, caches'[j].order.upd>> /\ j > V[k].pos
                         /\ \A i \in DOMAIN caches', l \in DOMAIN p : Sent(p, l, i)' => j < i
                         /\ \A l \in 0..L : V[l].pos # j
    BY DEF Refused
  <2>1. PICK j \in DOMAIN caches :
           /\ e = <<caches[j].order.orderId, caches[j].order.upd>> /\ j > V[k].pos
           /\ \A i \in DOMAIN caches, l \in DOMAIN q : Sent(q, l, i) => j < i
           /\ \A l \in 0..L : V[l].pos # j
    BY <1>4 DEF Refused
  <2>2. \A i \in DOMAIN caches', l \in DOMAIN p : Sent(p, l, i)' => j < i
    BY <1>6, <1>15, <1>17, <2>1
  <2> QED  BY <1>6, <1>8, <2>1, <2>2
<1>23. Awaited(V, L, p)'
  <2> SUFFICES ASSUME NEW j \in DOMAIN caches', caches'[j].live
               PROVE  \/ \E k \in DOMAIN p : Sent(p, k, j)'
                      \/ \E k \in 0..L : V[k].pos = j
                      \/ \E k \in 1..L : Names(V[k].s, j)'
    BY DEF Awaited
  <2>1. j \in DOMAIN caches /\ caches[j].live /\ j # m
    BY <1>6, <1>8
  <2>2. CASE \E k \in DOMAIN q : Sent(q, k, j)
    <3>1. PICK k \in DOMAIN q : Sent(q, k, j)
      BY <2>2
    <3>2. k # Len(q)
      <4>1. ASSUME k = Len(q) PROVE FALSE
        <5>1. caches[j].order = caches[m].order
          BY <1>14, <3>1, <4>1 DEF Sent
        <5> QED  BY <1>4, <2>1, <5>1 DEF Caches
      <4> QED  BY <4>1
    <3> QED  BY <1>16, <1>17, <2>1, <3>1, <3>2
  <2>3. CASE \E k \in 1..L : Names(V[k].s, j)
    BY <1>8, <2>1, <2>3 DEF Names
  <2> QED  BY <1>4, <2>1, <2>2, <2>3 DEF Awaited
<1>24. Coming(V, L)'
  <2> SUFFICES ASSUME NEW k \in 0..L, V[k].pos > V[0].pos PROVE caches'[V[k].pos].live
    BY DEF Coming
  <2>1. V[k].pos \in DOMAIN caches
    BY <1>3, <1>4 DEF Trace
  <2> QED  BY <1>4, <1>6, <1>20, <2>1 DEF Coming
<1>25. Heard(V[0])'
  <2>1. V[0].pos > 0 => V[0].pos \in DOMAIN caches /\ V[0].pos # m
    BY <1>3, <1>20
  <2>2. V[0].pos > 0 => caches'[V[0].pos] = caches[V[0].pos]
    BY <1>6, <2>1
  <2> QED  BY <1>4, <2>2 DEF Heard
<1>26. Carries(V, ss, p)'
  BY <1>1, <1>11, <1>12, <1>13, <1>21, <1>22, <1>23, <1>24, <1>25 DEF Carries, MasterInv
<1>27. ss = states' /\ p = orders' /\ V[Len(ss)].s = Snapshot'
  BY <1>1, <1>2 DEF PublishFails, agvVars, Snapshot
<1> QED  BY <1>26, <1>27 DEF InSync

LEMMA CancelStep ==
    ASSUME InitiateCancel, InSync
    PROVE  InSync'
<1>1. PICK V, ss, q : /\ ss = states /\ q = orders /\ Carries(V, ss, q)
                      /\ V[Len(ss)].s = Snapshot
  BY DEF InSync
<1> DEFINE L == Len(ss)
<1>2. PICK p : p = Append(q, CancelMessage)
  OBVIOUS
<1>3. MasterInv(V, L, q)
  BY <1>1 DEF Carries
<1>4. Underway(V[L].pos, q) /\ Refused(V, L, q) /\ Awaited(V, L, q)
  BY <1>3 DEF MasterInv
<1>5. /\ q \in Seq({<<r>> : r \in Orders} \cup {CancelMessage})
      /\ p \in Seq({<<r>> : r \in Orders} \cup {CancelMessage})
      /\ DOMAIN q = 1..Len(q) /\ DOMAIN p = 1..(Len(q) + 1) /\ Len(q) \in Nat
      /\ \A k \in 1..Len(q) : p[k] = q[k]
      /\ p[Len(q) + 1] = CancelMessage
  BY <1>2, <1>4 DEF Underway
<1>6. \A k \in DOMAIN q, i \in DOMAIN caches : Sent(q, k, i) <=> Sent(p, k, i)
  BY <1>5 DEF Sent
<1>7. \A k \in DOMAIN p : k \in DOMAIN q \/ k = Len(q) + 1
  BY <1>5
<1>8. \A i \in DOMAIN caches : ~Sent(p, Len(q) + 1, i)
  <2> SUFFICES ASSUME NEW i \in DOMAIN caches PROVE <<caches[i].order>> # CancelMessage
    BY <1>5 DEF Sent
  <2> QED  BY DEF CancelMessage
<1>9. Underway(V[L].pos, p)
  <2>1. \A k \in DOMAIN p : p[k] = CancelMessage \/
           \E i \in DOMAIN caches : Sent(p, k, i) /\ caches[i].live /\ i > V[L].pos
    BY <1>4, <1>5, <1>6, <1>7 DEF Underway
  <2>2. \A k, l \in DOMAIN p, i, j \in DOMAIN caches :
          k < l /\ Sent(p, k, i) /\ Sent(p, l, j) => i < j
    BY <1>4, <1>6, <1>7, <1>8 DEF Underway
  <2> QED  BY <1>5, <2>1, <2>2 DEF Underway
<1>10. Refused(V, L, p)
  BY <1>4, <1>6, <1>7, <1>8 DEF Refused
<1>11. Awaited(V, L, p)
  <2>1. \A k \in DOMAIN q : k \in DOMAIN p
    BY <1>5
  <2> QED  BY <1>4, <1>6, <2>1 DEF Awaited
<1>12. Carries(V, ss, p)
  BY <1>1, <1>3, <1>9, <1>10, <1>11 DEF Carries, MasterInv
<1>13. Carries(V, ss, p)'
  BY <1>12, CarriesUnchanged DEF InitiateCancel
<1>14. ss = states' /\ p = orders' /\ V[Len(ss)].s = Snapshot'
  BY <1>1, <1>2 DEF InitiateCancel, agvVars, Snapshot
<1> QED  BY <1>13, <1>14 DEF InSync

-----------------------------------------------------------------------------
(* Dispatching a report: what the operators of DispatchState do.           *)

LEMMA Least ==
    ASSUME NEW S, S \subseteq Nat, S # {}
    PROVE  \E x \in S : \A y \in S : x <= y
<1> DEFINE R == OpToRel(<, Nat)
<1>1. IsWellFoundedOn(R, Nat)
  BY NatLessThanWellFounded, Zenon
<1>2. \A x, y \in Nat : x < y => <<x, y>> \in R
  BY DEF OpToRel
<1> HIDE DEF R
<1>3. PICK x \in S : \A y \in S : <<y, x>> \notin R
  BY <1>1, WFMin
<1>4. \A y \in S : ~(y < x)
  BY <1>2, <1>3
<1> QED  BY <1>4

Closest(k, cs) == {j \in 1..k : cs[j].live /\ \A l \in (j + 1)..k : ~cs[l].live}

(* If each cache names its predecessor while there is one before it, the   *)
(* chain of predecessors leads to the live one closest before.             *)
LEMMA ClosestBefore ==
    ASSUME NEW cs, Len(cs) \in Nat,
           \A k \in 1..Len(cs) : cs[k].prev \in Nat /\ cs[k].prev < k,
           \A j, k \in 1..Len(cs) : j < k /\ cs[j].live => cs[k].prev = k - 1,
           NEW i \in 1..Len(cs)
    PROVE  LastActive(i, cs) = Closest(cs[i].prev, cs)
<1> DEFINE N == Len(cs)
           G == [k \in 0..N |-> Closest(k, cs)]
           Solves(g) == g = [k \in 0..N |-> IF k = 0 THEN {}
                                            ELSE IF cs[k].live THEN {k} ELSE g[cs[k].prev]]
           B == CHOOSE g : Solves(g)
<1> USE DEF Closest
<1>1. ASSUME NEW k \in 0..N, k # 0
      PROVE  Closest(k, cs) = IF cs[k].live THEN {k} ELSE Closest(cs[k].prev, cs)
  <2>1. k \in 1..N /\ cs[k].prev \in Nat /\ cs[k].prev < k
    BY <1>1
  <2>2. CASE cs[k].live
    <3>1. \A j \in 1..k : j = k \/ k \in (j + 1)..k
      BY <2>1
    <3>2. Closest(k, cs) = {k}
      BY <2>1, <2>2, <3>1
    <3> QED  BY <2>2, <3>2
  <2>3. CASE ~cs[k].live /\ \E j \in 1..(k - 1) : cs[j].live
    <3>1. cs[k].prev = k - 1
      BY <2>1, <2>3
    <3>2. \A j \in 1..k : j = k \/ j \in 1..(k - 1)
      BY <2>1
    <3>3. \A j \in 1..(k - 1) : \A l \in (j + 1)..k : l = k \/ l \in (j + 1)..(k - 1)
      BY <2>1
    <3>4. Closest(k, cs) = Closest(k - 1, cs)
      <4>1. \A j \in Closest(k, cs) : j \in Closest(k - 1, cs)
        BY <2>1, <2>3, <3>2
      <4>2. \A j \in Closest(k - 1, cs) : j \in Closest(k, cs)
        BY <2>1, <2>3, <3>3
      <4> QED  BY <4>1, <4>2
    <3> QED  BY <2>3, <3>1, <3>4
  <2>4. CASE ~cs[k].live /\ ~\E j \in 1..(k - 1) : cs[j].live
    <3>1. \A j \in 1..k : j = k \/ j \in 1..(k - 1)
      BY <2>1
    <3>2. \A j \in 1..cs[k].prev : j \in 1..(k - 1)
      BY <2>1
    <3> QED  BY <2>4, <3>1, <3>2
  <2> QED  BY <2>2, <2>3, <2>4
<1>2. Closest(0, cs) = {}
  OBVIOUS
<1>3. \A k \in 1..N : cs[k].prev \in 0..N
  OBVIOUS
<1> HIDE DEF Closest
<1>4. Solves(G)
  BY <1>1, <1>2, <1>3
<1>5. Solves(B)
  BY <1>4
<1> HIDE DEF B
<1>6. \A k \in 0..N : B[k] = IF k = 0 THEN {} ELSE IF cs[k].live THEN {k} ELSE B[cs[k].prev]
  BY <1>5
<1>7. \A k \in 0..N : B[k] = Closest(k, cs)
  <2> DEFINE D == {k \in 0..N : B[k] # Closest(k, cs)}
  <2> SUFFICES ASSUME D # {} PROVE FALSE
    OBVIOUS
  <2>1. D \subseteq Nat
    BY <1>3
  <2>2. PICK k \in D : \A y \in D : k <= y
    <3> HIDE DEF D
    <3> QED  BY <2>1, Least
  <2>3. k \in 0..N /\ k # 0 /\ ~cs[k].live
    BY <1>1, <1>2, <1>6, <2>2
  <2>4. cs[k].prev \in 0..N /\ cs[k].prev < k
    BY <2>3
  <2>5. cs[k].prev \notin D
    BY <2>2, <2>3, <2>4
  <2> QED  BY <1>1, <1>6, <2>2, <2>3, <2>4, <2>5
<1>8. LastActive(i, cs) = B[cs[i].prev]
  BY DEF LastActive, B
<1> QED  BY <1>3, <1>7, <1>8

(* The fields the invariant is about, and the callbacks it is not about.   *)
Fields == {"order", "prev", "live", "invoked", "mapped", "seen"}
Minor == {"action", "edgeTraversing", "edgeTraversed", "nodeTraversed"}

SameCache(c, d) ==
    /\ Fields \subseteq DOMAIN d
    /\ d.order = c.order /\ d.prev = c.prev /\ d.live = c.live /\ d.invoked = c.invoked
    /\ d.mapped = c.mapped

OnlyMinor(old, new) ==
    \A x \in new : x \in old \/ \E t \in Minor : \E y : x = <<t, y>>

LEMMA EdgeKeeps ==
    ASSUME NEW d, NEW s, Fields \subseteq DOMAIN d.cache
    PROVE  LET r == DispatchEdge(d, s)
           IN  /\ SameCache(d.cache, r.cache) /\ r.cache.seen = d.cache.seen
               /\ OnlyMinor(d.calls, r.calls)
<1> DEFINE c == d.cache
           edges == UNION {NextEdge(c, p) : p \in c.passed}
           first == EdgeStateChanges(c, edges)
           ended == {<<"edgeTraversed", e.seq>> : e \in edges}
           done == [c EXCEPT !.traversing = FALSE, !.edgeDone = {e.seq : e \in edges}]
           begun == [c EXCEPT !.traversing = TRUE]
           r == DispatchEdge(d, s)
<1>1. \A x \in first : \E y : x = <<"edgeTraversing", y>>
  <2>1. ASSUME NEW E, NEW x \in EdgeStateChanges(c, E)
        PROVE  \E y : x = <<"edgeTraversing", y>>
    BY <2>1 DEF EdgeStateChanges
  <2> QED  BY <2>1
<1>2. \A x \in ended : \E y : x = <<"edgeTraversed", y>>
  OBVIOUS
<1>3. \/ r = d
      \/ r = [cache |-> done, calls |-> d.calls \cup first \cup ended]
      \/ r = [cache |-> begun, calls |-> d.calls \cup first]
  BY Zenon DEF DispatchEdge
<1>4. SameCache(c, done) /\ done.seen = c.seen
  BY DEF SameCache, Fields
<1>5. SameCache(c, begun) /\ begun.seen = c.seen
  BY DEF SameCache, Fields
<1> HIDE DEF edges, first, ended, done, begun, r
<1>6. SameCache(c, r.cache) /\ r.cache.seen = c.seen
  <2>1. r.cache = c \/ r.cache = done \/ r.cache = begun
    BY <1>3
  <2>2. SameCache(c, c)
    BY DEF SameCache
  <2> QED  BY <1>4, <1>5, <2>1, <2>2
<1>7. OnlyMinor(d.calls, r.calls)
  BY <1>1, <1>2, <1>3 DEF OnlyMinor, Minor
<1> QED  BY <1>6, <1>7 DEF r

LEMMA NodeKeeps ==
    ASSUME NEW d, NEW s, Fields \subseteq DOMAIN d.cache
    PROVE  LET r == DispatchNode(d, s)
           IN  /\ SameCache(d.cache, r.cache) /\ r.cache.seen = d.cache.seen
               /\ OnlyMinor(d.calls, r.calls)
<1> DEFINE next == NextNode(d.cache, s)
           at == {Agv!Place(n) : n \in next}
           passed == {<<"nodeTraversed", n.seq>> : n \in next}
           e == [cache |-> [d.cache EXCEPT !.passed = at], calls |-> d.calls \cup passed]
           r == DispatchNode(d, s)
<1>1. r = d \/ r = DispatchEdge(e, s)
  BY Zenon DEF DispatchNode
<1>2. \A x \in passed : \E y : x = <<"nodeTraversed", y>>
  OBVIOUS
<1> HIDE DEF next, at, passed, r
<1>3. /\ e.cache.seen = d.cache.seen /\ e.calls = d.calls \cup passed
      /\ SameCache(d.cache, e.cache)
  BY DEF SameCache, Fields
<1> HIDE DEF e
<1>4. CASE r = d
  BY <1>4 DEF SameCache, OnlyMinor, r
<1>5. CASE r = DispatchEdge(e, s)
  <2>1. SameCache(e.cache, r.cache) /\ r.cache.seen = e.cache.seen /\ OnlyMinor(e.calls, r.calls)
    BY <1>3, <1>5, EdgeKeeps DEF SameCache
  <2>2. SameCache(d.cache, r.cache) /\ r.cache.seen = d.cache.seen
    BY <1>3, <2>1 DEF SameCache
  <2>3. OnlyMinor(d.calls, r.calls)
    BY <1>2, <1>3, <2>1 DEF OnlyMinor, Minor
  <2> QED  BY <2>2, <2>3 DEF r
<1> QED  BY <1>1, <1>4, <1>5

LEMMA ActionsKeep ==
    ASSUME NEW d, NEW s, Fields \subseteq DOMAIN d.cache
    PROVE  LET r == DispatchActions(d, s)
           IN  /\ SameCache(d.cache, r.cache)
               /\ \A a \in ActionId : r.cache.seen[a] =
                     IF a \in d.cache.mapped /\ s.acts[a] # "ABSENT" THEN s.acts[a]
                     ELSE d.cache.seen[a]
               /\ OnlyMinor(d.calls, r.calls)
<1> DEFINE changed == {a \in d.cache.mapped :
                          s.acts[a] # "ABSENT" /\ s.acts[a] # d.cache.seen[a]}
           r == DispatchActions(d, s)
<1>1. /\ r.cache = [d.cache EXCEPT !.seen =
                       [a \in ActionId |-> IF a \in changed THEN s.acts[a] ELSE @[a]]]
      /\ r.calls = d.calls \cup {<<"action", a>> : a \in changed}
  BY DEF DispatchActions
<1> HIDE DEF r
<1>2. r.cache.seen = [a \in ActionId |-> IF a \in changed THEN s.acts[a] ELSE d.cache.seen[a]]
  BY <1>1 DEF Fields
<1>3. SameCache(d.cache, r.cache)
  BY <1>1 DEF SameCache, Fields
<1>4. OnlyMinor(d.calls, r.calls)
  BY <1>1 DEF OnlyMinor, Minor
<1> QED  BY <1>2, <1>3, <1>4 DEF r

LEMMA StitchKeeps ==
    ASSUME NEW c, NEW last, Fields \subseteq DOMAIN c
    PROVE  LET r == Stitch(c, last)
           IN  /\ Fields \subseteq DOMAIN r
               /\ r.order = c.order /\ r.prev = c.prev /\ r.live = c.live /\ r.invoked = c.invoked
               /\ r.mapped = c.mapped \cup last.mapped /\ r.seen = last.seen
BY DEF Stitch, Fields

(* _isOrderProcessed *)
LEMMA Verdicts ==
    ASSUME NEW c, NEW s
    PROVE  LET p == OrderProcessed(c, s)
           IN  /\ p \in {"no", "over", "active"}
               /\ p # "no" => /\ \A a \in c.mapped : c.seen[a] = "ENDED"
                              /\ \A x \in s.nodes \cup s.edges : ~x.rel
               /\ p = "over" => s.nodes = {} /\ s.edges = {}
BY DEF OrderProcessed

LEMMA SameVerdict ==
    ASSUME NEW c, NEW d, NEW s, c.mapped = d.mapped, c.seen = d.seen
    PROVE  OrderProcessed(c, s) = OrderProcessed(d, s)
BY DEF OrderProcessed

LEMMA Dispatched ==
    ASSUME NEW c, NEW s, Fields \subseteq DOMAIN c
    PROVE  LET r == DispatchCache(c, s)
               p == OrderProcessed(r.cache, s)
           IN  /\ Fields \subseteq DOMAIN r.cache
               /\ r.cache.order = c.order /\ r.cache.mapped = c.mapped
               /\ \A a \in ActionId : r.cache.seen[a] =
                     IF a \in c.mapped /\ s.acts[a] # "ABSENT" THEN s.acts[a] ELSE c.seen[a]
               /\ IF p = "no" \/ c.invoked
                  THEN /\ r.cache.live = c.live /\ r.cache.prev = c.prev
                       /\ r.cache.invoked = c.invoked
                  ELSE /\ r.cache.live = (p = "active") /\ r.cache.invoked = TRUE
                       /\ r.cache.prev = IF p = "active" THEN c.prev ELSE 0
               /\ \A x \in r.calls :
                     \/ \E t \in Minor : \E y : x = <<t, y>>
                     \/ p # "no" /\ ~c.invoked /\ \E y : x = <<"processed", p, y>>
<1> DEFINE d0 == [cache |-> c, calls |-> {}]
           d1 == DispatchActions(d0, s)
           d2 == DispatchEdge(d1, s)
           d3 == DispatchNode(d2, s)
           r == DispatchCache(c, s)
           p == OrderProcessed(d3.cache, s)
           said == Canceling(s, {"FINISHED"})
<1>1. r = DispatchResult(d3, s)
  BY DEF DispatchCache
<1>2. d0.cache = c /\ d0.calls = {}
  OBVIOUS
<1> HIDE DEF d0
<1>3. /\ SameCache(c, d1.cache) /\ OnlyMinor({}, d1.calls)
      /\ \A a \in ActionId : d1.cache.seen[a] =
            IF a \in c.mapped /\ s.acts[a] # "ABSENT" THEN s.acts[a] ELSE c.seen[a]
  BY <1>2, ActionsKeep
<1> HIDE DEF d1
<1>4. SameCache(d1.cache, d2.cache) /\ d2.cache.seen = d1.cache.seen /\ OnlyMinor(d1.calls, d2.calls)
  BY <1>3, EdgeKeeps DEF SameCache
<1> HIDE DEF d2
<1>5. SameCache(d2.cache, d3.cache) /\ d3.cache.seen = d2.cache.seen /\ OnlyMinor(d2.calls, d3.calls)
  BY <1>4, NodeKeeps DEF SameCache
<1> HIDE DEF d3
<1>6. SameCache(c, d3.cache) /\ d3.cache.seen = d1.cache.seen
  BY <1>3, <1>4, <1>5 DEF SameCache
<1>7. \A x \in d3.calls : \E t \in Minor : \E y : x = <<t, y>>
  BY <1>3, <1>4, <1>5 DEF OnlyMinor
<1>8. IF p = "no" \/ c.invoked THEN r = d3
      ELSE r = [cache |-> [d3.cache EXCEPT !.invoked = TRUE, !.live = (p = "active"),
                                           !.prev = IF p = "active" THEN @ ELSE 0],
                calls |-> d3.calls \cup {<<"processed", p, said>>}]
  BY <1>1, <1>6, Zenon DEF DispatchResult, SameCache
<1> HIDE DEF r, p, said
<1>9. CASE p = "no" \/ c.invoked
  <2>1. r = d3
    BY <1>8, <1>9
  <2>2. OrderProcessed(r.cache, s) = p
    BY <2>1 DEF p
  <2> QED  BY <1>3, <1>6, <1>7, <1>9, <2>1, <2>2 DEF SameCache, r
<1>10. CASE p # "no" /\ ~c.invoked
  <2>1. /\ r.cache = [d3.cache EXCEPT !.invoked = TRUE, !.live = (p = "active"),
                                      !.prev = IF p = "active" THEN @ ELSE 0]
        /\ r.calls = d3.calls \cup {<<"processed", p, said>>}
    BY <1>8, <1>10
  <2>2. /\ Fields \subseteq DOMAIN r.cache
        /\ r.cache.order = c.order /\ r.cache.mapped = c.mapped /\ r.cache.seen = d1.cache.seen
        /\ r.cache.live = (p = "active") /\ r.cache.invoked = TRUE
        /\ r.cache.prev = IF p = "active" THEN c.prev ELSE 0
    BY <1>6, <2>1 DEF SameCache, Fields
  <2>3. OrderProcessed(r.cache, s) = p
    <3>1. r.cache.mapped = d3.cache.mapped /\ r.cache.seen = d3.cache.seen
      BY <1>6, <2>2 DEF SameCache
    <3> QED  BY <3>1, SameVerdict DEF p
  <2>4. \A x \in r.calls : (\E t \in Minor : \E y : x = <<t, y>>) \/ x = <<"processed", p, said>>
    BY <1>7, <2>1
  <2> QED  BY <1>3, <1>10, <2>2, <2>3, <2>4 DEF r
<1> QED  BY <1>9, <1>10

(* A cache is identified by the orderId and the orderUpdateId.             *)
LEMMA SameIdentity ==
    ASSUME Caches, NEW i \in DOMAIN caches, NEW j \in DOMAIN caches,
           caches[i].order.orderId = caches[j].order.orderId,
           caches[i].order.upd = caches[j].order.upd
    PROVE  i = j
<1>1. caches[i].order \in Orders /\ caches[j].order \in Orders
  BY DEF Caches
<1>2. caches[i].order = caches[j].order
  BY <1>1, AssignedOrders
<1> QED  BY <1>2 DEF Caches

LEMMA RejectedOnes ==
    ASSUME NEW V, NEW L \in Nat, NEW q, Caches, Refused(V, L, q),
           NEW j \in DOMAIN caches, NEW k \in 0..L, Names(V[k].s, j)
    PROVE  /\ j > V[k].pos
           /\ \A l \in 0..L : V[l].pos # j
           /\ \A i \in DOMAIN caches, l \in DOMAIN q : Sent(q, l, i) => j < i
<1>1. PICK i \in DOMAIN caches :
        /\ <<caches[j].order.orderId, caches[j].order.upd>>
             = <<caches[i].order.orderId, caches[i].order.upd>>
        /\ i > V[k].pos
        /\ \A g \in DOMAIN caches, l \in DOMAIN q : Sent(q, l, g) => i < g
        /\ \A l \in 0..L : V[l].pos # i
  BY DEF Refused, Names
<1>2. i = j
  BY <1>1, SameIdentity
<1> QED  BY <1>1, <1>2

(* Before the order that is reported next there is at most the cache of    *)
(* the one reported last.                                                  *)
LEMMA LiveFrom ==
    ASSUME NEW V, NEW L \in Nat, NEW q, L >= 1, MasterInv(V, L, q),
           NEW j \in DOMAIN caches, caches[j].live, j < V[1].pos
    PROVE  j = V[0].pos
<1>1. /\ Caches /\ Trace(V, L) /\ Underway(V[L].pos, q) /\ Refused(V, L, q) /\ Awaited(V, L, q)
  BY DEF MasterInv
<1>2. DOMAIN caches \subseteq Nat
  BY <1>1 DEF Caches
<1>3. \A k \in 1..L : V[k].pos \in Nat /\ V[1].pos \in Nat /\ V[1].pos <= V[k].pos
  <2>1. \A k \in 1..L : k \in 0..L /\ 1 \in 0..L
    OBVIOUS
  <2> QED  BY <1>1, <2>1 DEF Trace
<1>4. ASSUME NEW k \in DOMAIN q, Sent(q, k, j)
      PROVE  FALSE
  <2>1. q[k] # CancelMessage
    <3>1. <<caches[j].order>> # CancelMessage
      BY DEF CancelMessage
    <3> QED  BY <1>4, <3>1 DEF Sent
  <2>2. PICK i \in DOMAIN caches : Sent(q, k, i) /\ i > V[L].pos
    BY <1>1, <2>1 DEF Underway
  <2>3. i = j
    BY <1>1, <1>4, <2>2 DEF Sent, Caches
  <2> QED  BY <1>2, <1>3, <2>2, <2>3
<1>5. ASSUME NEW k \in 1..L, V[k].pos = j
      PROVE  FALSE
  BY <1>2, <1>3, <1>5
<1>6. ASSUME NEW k \in 1..L, Names(V[k].s, j)
      PROVE  FALSE
  <2>1. k \in 0..L
    OBVIOUS
  <2>2. j > V[k].pos
    BY <1>1, <1>6, <2>1, RejectedOnes
  <2> QED  BY <1>2, <1>3, <2>2
<1>7. \A k \in 0..L : k = 0 \/ k \in 1..L
  OBVIOUS
<1> QED  BY <1>1, <1>4, <1>5, <1>6, <1>7 DEF Awaited

LEMMA ErrorsOf ==
    ASSUME NEW s \in Report
    PROVE  UNION {Live(e[1], e[2]) : e \in s.errors}
             = {j \in DOMAIN caches : caches[j].live /\ Names(s, j)}
<1>1. \A e \in s.errors : e = <<e[1], e[2]>>
  BY DEF Report
<1> QED  BY <1>1 DEF Live, Names

LEMMA NowIs ==
    ASSUME Caches, NEW s, NEW m \in Nat,
           IF m = 0 THEN s.orderId = NoOrder
           ELSE m \in DOMAIN caches /\ Shows(s, caches[m].order)
    PROVE  Live(s.orderId, s.upd) = {j \in DOMAIN caches : j = m /\ caches[j].live}
<1>1. CASE m = 0
  <2>1. \A j \in DOMAIN caches : caches[j].order.orderId # NoOrder
    BY AssignedOrders DEF Caches
  <2>2. 0 \notin DOMAIN caches
    BY DEF Caches
  <2> QED  BY <1>1, <2>1, <2>2 DEF Live
<1>2. CASE m # 0
  <2>1. /\ m \in DOMAIN caches /\ s.orderId = caches[m].order.orderId
        /\ s.upd = caches[m].order.upd
    BY <1>2 DEF Shows
  <2>2. \A j \in DOMAIN caches :
          caches[j].order.orderId = s.orderId /\ caches[j].order.upd = s.upd <=> j = m
    BY <2>1, SameIdentity
  <2> QED  BY <2>2 DEF Live
<1> QED  BY <1>1, <1>2

Preceding(h, m) == {j \in DOMAIN caches : j = h /\ j < m /\ caches[j].live}

LEMMA OldIs ==
    ASSUME NEW V, NEW L \in Nat, NEW q, L >= 1, MasterInv(V, L, q),
           NEW m \in DOMAIN caches, m = V[1].pos,
           NEW kept, NEW Errs, \A j \in Errs : j > m,
           kept = [i \in DOMAIN caches |-> IF i \in Errs THEN [caches[i] EXCEPT !.live = FALSE]
                                           ELSE caches[i]]
    PROVE  LastActive(m, kept) = Preceding(V[0].pos, m)
<1>1. Caches
  BY DEF MasterInv
<1>2. PICK C : caches \in Seq(C)
  BY <1>1 DEF Caches
<1>3. DOMAIN caches = 1..Len(caches) /\ Len(caches) \in Nat
  BY <1>2
<1>4. \A i \in DOMAIN caches : {"prev", "live"} \subseteq DOMAIN caches[i]
  BY <1>1 DEF Caches
<1>5. /\ DOMAIN kept = DOMAIN caches
      /\ \A i \in DOMAIN caches : kept[i].prev = caches[i].prev
      /\ \A i \in DOMAIN caches : kept[i].live => caches[i].live
      /\ \A i \in DOMAIN caches : i <= m => kept[i] = caches[i]
  <2>1. ASSUME NEW i \in DOMAIN caches
        PROVE  /\ kept[i].prev = caches[i].prev
               /\ kept[i].live => caches[i].live
               /\ i <= m => kept[i] = caches[i]
    <3>1. CASE i \in Errs
      <4>1. kept[i] = [caches[i] EXCEPT !.live = FALSE] /\ i > m
        BY <3>1
      <4> QED  BY <1>3, <1>4, <4>1
    <3>2. CASE i \notin Errs
      BY <3>2
    <3> QED  BY <3>1, <3>2
  <2> QED  BY <2>1
<1>6. Len(kept) = Len(caches)
  <2>1. kept \in Seq({kept[i] : i \in DOMAIN caches})
    BY <1>3, <1>5
  <2> QED  BY <1>3, <1>5, <2>1
<1>7. \A k \in 1..Len(kept) : kept[k].prev \in Nat /\ kept[k].prev < k
  BY <1>1, <1>3, <1>5, <1>6 DEF Caches
<1>8. \A j, k \in 1..Len(kept) : j < k /\ kept[j].live => kept[k].prev = k - 1
  BY <1>1, <1>3, <1>5, <1>6 DEF Caches
<1>9. LastActive(m, kept) = Closest(kept[m].prev, kept)
  <2>1. m \in 1..Len(kept) /\ Len(kept) \in Nat
    BY <1>3, <1>6
  <2> QED  BY <1>7, <1>8, <2>1, ClosestBefore
<1>10. /\ kept[m].prev = caches[m].prev /\ caches[m].prev \in Nat /\ caches[m].prev < m
  BY <1>1, <1>5 DEF Caches
<1>11. \A j \in DOMAIN caches : j < m /\ caches[j].live => j = V[0].pos
  BY LiveFrom
<1>12. ASSUME NEW j \in 1..kept[m].prev, kept[j].live
       PROVE  j \in DOMAIN caches /\ j = V[0].pos /\ j < m /\ caches[j].live
  <2>1. j \in DOMAIN caches /\ j < m
    BY <1>3, <1>10
  <2> QED  BY <1>5, <1>11, <1>12, <2>1
<1>13. ASSUME NEW j \in DOMAIN caches, j = V[0].pos, j < m, caches[j].live
       PROVE  /\ j \in 1..kept[m].prev /\ kept[j].live
              /\ \A l \in (j + 1)..kept[m].prev : ~kept[l].live
  <2>1. caches[m].prev = m - 1
    BY <1>1, <1>13 DEF Caches
  <2>2. j \in 1..kept[m].prev
    BY <1>3, <1>10, <1>13, <2>1
  <2>3. kept[j].live
    BY <1>3, <1>5, <1>13
  <2>4. ASSUME NEW l \in (j + 1)..kept[m].prev, kept[l].live
        PROVE  FALSE
    <3>1. l \in 1..kept[m].prev /\ l # j
      BY <1>3, <1>10
    <3> QED  BY <1>12, <1>13, <2>4, <3>1
  <2> QED  BY <2>2, <2>3, <2>4
<1> QED  BY <1>9, <1>12, <1>13 DEF Closest, Preceding

(* The cache from which a report is dispatched: stitched onto the one of   *)
(* the order reported last, if there is that one still.                    *)
LEMMA StartsFrom ==
    ASSUME NEW V, NEW L \in Nat, NEW q, L >= 1, MasterInv(V, L, q),
           NEW m \in DOMAIN caches, m = V[1].pos, caches[m].live,
           NEW c, Fields \subseteq DOMAIN c,
           IF V[0].pos \in DOMAIN caches /\ V[0].pos < m /\ caches[V[0].pos].live
           THEN LET last == caches[V[0].pos]
                IN  c.mapped = caches[m].mapped \cup last.mapped /\ c.seen = last.seen
           ELSE c.mapped = caches[m].mapped /\ c.seen = caches[m].seen
    PROVE  /\ BaseActions(caches[m].order) \subseteq c.mapped /\ c.mapped \subseteq ActionId
           /\ Acting(V[1].s) \subseteq c.mapped
           /\ \A a \in c.mapped : V[1].s.acts[a] = "ABSENT" => c.seen[a] = "ENDED"
<1> DEFINE h == V[0].pos
           r == V[0].s
           s == V[1].s
<1>1. Caches /\ Unheard(h) /\ Trace(V, L) /\ Heard(V[0])
  BY DEF MasterInv
<1>2. 0 \in 0..L /\ 1 \in 0..L /\ 1 \in 1..L
  OBVIOUS
<1>3. /\ h \in Nat /\ m \in Nat /\ h <= m
      /\ h = m => Lessens(r, s)
      /\ h # 0 => h \in DOMAIN caches
      /\ h = 0 => Over(r)
      /\ m # 0 /\ Shows(s, caches[m].order)
  BY <1>1, <1>2 DEF Trace, Caches
<1>4. EndsFirst(r, s) /\ (h < m => Acting(s) \subseteq Acting(r) \cup BaseActions(caches[m].order))
  BY <1>1, <1>2 DEF Trace
<1>5. \A i \in DOMAIN caches : /\ caches[i].mapped \subseteq ActionId
                               /\ BaseActions(caches[i].order) \subseteq caches[i].mapped
  BY <1>1 DEF Caches
<1>6. h < m => caches[m].mapped = BaseActions(caches[m].order)
  BY <1>1, <1>3 DEF Unheard
<1> HIDE DEF h, r, s
<1>7. CASE h = m
  <2>1. c.mapped = caches[m].mapped /\ c.seen = caches[m].seen
    BY <1>3, <1>7 DEF h
  <2>2. /\ Acting(r) \subseteq c.mapped
        /\ \A a \in c.mapped :
              c.seen[a] = IF r.acts[a] = "ABSENT" THEN "ENDED" ELSE r.acts[a]
    BY <1>1, <1>3, <1>7, <2>1 DEF Heard, h, r
  <2>3. Acting(s) \subseteq c.mapped
    BY <1>3, <1>7, <2>2 DEF Lessens
  <2>4. ASSUME NEW a \in c.mapped, s.acts[a] = "ABSENT"
        PROVE  c.seen[a] = "ENDED"
    <3>1. r.acts[a] \in {"ABSENT", "ENDED"}
      BY <1>4, <1>5, <2>1, <2>4 DEF EndsFirst
    <3> QED  BY <2>2, <3>1
  <2> QED  BY <1>5, <2>1, <2>3, <2>4 DEF s
<1>8. CASE h < m /\ h # 0 /\ caches[h].live
  <2>1. /\ c.mapped = caches[m].mapped \cup caches[h].mapped /\ c.seen = caches[h].seen
        /\ h \in DOMAIN caches
    BY <1>3, <1>8 DEF h
  <2>2. /\ Acting(r) \subseteq caches[h].mapped
        /\ \A a \in caches[h].mapped :
              c.seen[a] = IF r.acts[a] = "ABSENT" THEN "ENDED" ELSE r.acts[a]
    BY <1>1, <1>3, <1>8, <2>1 DEF Heard, h, r
  <2>3. Acting(s) \subseteq c.mapped
    BY <1>4, <1>6, <1>8, <2>1, <2>2
  <2>4. ASSUME NEW a \in c.mapped, s.acts[a] = "ABSENT"
        PROVE  c.seen[a] = "ENDED"
    <3>1. a \notin caches[m].mapped
      BY <1>3, <1>6, <1>8, <2>4 DEF Shows
    <3>2. a \in caches[h].mapped /\ a \in ActionId
      BY <1>5, <2>1, <2>4, <3>1
    <3>3. r.acts[a] \in {"ABSENT", "ENDED"}
      BY <1>4, <2>4, <3>2 DEF EndsFirst
    <3> QED  BY <2>2, <3>2, <3>3
  <2> QED  BY <1>5, <2>1, <2>3, <2>4 DEF s
<1>9. CASE h < m /\ (h = 0 \/ ~caches[h].live)
  <2>1. c.mapped = caches[m].mapped
    <3>1. 0 \notin DOMAIN caches
      BY <1>1 DEF Caches
    <3> QED  BY <1>9, <3>1 DEF h
  <2>2. Over(r)
    BY <1>1, <1>3, <1>9 DEF Heard, h, r
  <2>3. Acting(s) \subseteq c.mapped
    BY <1>4, <1>6, <1>9, <2>1, <2>2 DEF Over
  <2>4. ASSUME NEW a \in c.mapped, s.acts[a] = "ABSENT"
        PROVE  FALSE
    BY <1>3, <1>6, <1>9, <2>1, <2>4 DEF Shows
  <2> QED  BY <1>5, <2>1, <2>3, <2>4 DEF s
<1> QED  BY <1>3, <1>7, <1>8, <1>9

(* What a dispatch leaves behind, with h and m the orders reported last    *)
(* and next, and s the report.                                             *)
Dispatches(h, m, s) ==
    /\ DOMAIN caches' = DOMAIN caches
    /\ \E C : caches' \in Seq(C)
    /\ lastCache' = Remaining(caches')
    /\ \A i \in DOMAIN caches :
          /\ Fields \subseteq DOMAIN caches'[i]
          /\ caches'[i].order = caches[i].order
          /\ caches'[i].live \in BOOLEAN /\ caches'[i].invoked \in BOOLEAN
          /\ caches'[i].prev \in {caches[i].prev, 0}
          /\ caches[i].mapped \subseteq caches'[i].mapped /\ caches'[i].mapped \subseteq ActionId
          /\ caches'[i].live => caches[i].live /\ ~Names(s, i) /\ i >= m
    /\ \A i \in DOMAIN caches : i # h /\ i # m =>
          /\ caches'[i].prev = caches[i].prev /\ caches'[i].mapped = caches[i].mapped
          /\ caches'[i].seen = caches[i].seen /\ caches'[i].invoked = caches[i].invoked
          /\ caches'[i].live = (caches[i].live /\ ~Names(s, i))

(* The callbacks: an order that is rejected, or the order reported next,   *)
(* which is processed only if it is.                                       *)
Invokes(m, s) ==
    \A c \in calls' :
        \/ c[1] \in DOMAIN caches /\ c[2] = "rejected" /\ Names(s, c[1])
        \/ /\ c[1] = m /\ m \in DOMAIN caches
           /\ \/ c[2] \in Minor
              \/ /\ c[2] # "rejected"
                 /\ Acting(s) = {} /\ \A x \in s.nodes \cup s.edges : ~x.rel

(* What the dispatch r of the report s has derived for the order of m.     *)
Derives(r, m, s) ==
    LET d == r.cache
    IN  /\ Fields \subseteq DOMAIN d /\ d.order = caches[m].order
        /\ d.live \in BOOLEAN /\ d.invoked \in BOOLEAN
        /\ d.prev \in {caches[m].prev, 0}
        /\ caches[m].mapped \subseteq d.mapped /\ d.mapped \subseteq ActionId
        /\ IF d.live
           THEN /\ Acting(s) \subseteq d.mapped
                /\ \A a \in d.mapped :
                      d.seen[a] = IF s.acts[a] = "ABSENT" THEN "ENDED" ELSE s.acts[a]
                /\ ~d.invoked => OrderProcessed(d, s) = "no"
           ELSE Over(s)
        /\ \A x \in r.calls :
              \E t, y : /\ x = <<t, y>> \/ \E z : x = <<t, y, z>>
                        /\ \/ t \in Minor
                           \/ /\ t # "rejected"
                              /\ Acting(s) = {}
                              /\ \A e \in s.nodes \cup s.edges : ~e.rel

LEMMA DispatchLive ==
    ASSUME NEW V, NEW L \in Nat, NEW q, L >= 1, MasterInv(V, L, q),
           NEW m \in DOMAIN caches, m = V[1].pos, caches[m].live,
           NEW c, Fields \subseteq DOMAIN c,
           c.order = caches[m].order, c.prev = caches[m].prev, c.live = caches[m].live,
           c.invoked = caches[m].invoked,
           IF V[0].pos \in DOMAIN caches /\ V[0].pos < m /\ caches[V[0].pos].live
           THEN LET last == caches[V[0].pos]
                IN  c.mapped = caches[m].mapped \cup last.mapped /\ c.seen = last.seen
           ELSE c.mapped = caches[m].mapped /\ c.seen = caches[m].seen
    PROVE  Derives(DispatchCache(c, V[1].s), m, V[1].s)
<1> DEFINE s == V[1].s
           r == DispatchCache(c, s)
           d == r.cache
           p == OrderProcessed(d, s)
<1>1. /\ c.mapped \subseteq ActionId /\ caches[m].mapped \subseteq c.mapped
      /\ Acting(s) \subseteq c.mapped
      /\ \A a \in c.mapped : s.acts[a] = "ABSENT" => c.seen[a] = "ENDED"
  BY StartsFrom
<1>2. caches[m].invoked \in BOOLEAN
  BY DEF MasterInv, Caches
<1>3. /\ Fields \subseteq DOMAIN d
      /\ d.order = c.order /\ d.mapped = c.mapped
      /\ \A a \in ActionId : d.seen[a] =
            IF a \in c.mapped /\ s.acts[a] # "ABSENT" THEN s.acts[a] ELSE c.seen[a]
      /\ IF p = "no" \/ c.invoked
         THEN d.live = c.live /\ d.prev = c.prev /\ d.invoked = c.invoked
         ELSE /\ d.live = (p = "active") /\ d.invoked = TRUE
              /\ d.prev = IF p = "active" THEN c.prev ELSE 0
      /\ \A x \in r.calls :
            \/ \E t \in Minor : \E y : x = <<t, y>>
            \/ p # "no" /\ ~c.invoked /\ \E y : x = <<"processed", p, y>>
  BY Dispatched
<1>4. /\ p \in {"no", "over", "active"}
      /\ p # "no" => /\ \A a \in d.mapped : d.seen[a] = "ENDED"
                     /\ \A x \in s.nodes \cup s.edges : ~x.rel
      /\ p = "over" => s.nodes = {} /\ s.edges = {}
  BY Verdicts
<1> HIDE DEF s, p, d, r
<1>5. \A a \in d.mapped : d.seen[a] = IF s.acts[a] = "ABSENT" THEN "ENDED" ELSE s.acts[a]
  BY <1>1, <1>3
<1>6. p # "no" => Acting(s) = {}
  BY <1>1, <1>3, <1>4, <1>5 DEF Acting
<1>7. ~d.live => Over(s)
  BY <1>3, <1>4, <1>6 DEF Over
<1>8. ~d.invoked => p = "no"
  BY <1>3
<1>9. \A x \in r.calls :
        \E t, y : /\ x = <<t, y>> \/ \E z : x = <<t, y, z>>
                  /\ \/ t \in Minor
                     \/ /\ t # "rejected"
                        /\ Acting(s) = {} /\ \A e \in s.nodes \cup s.edges : ~e.rel
  <2> SUFFICES ASSUME NEW x \in r.calls
               PROVE  \E t, y : /\ x = <<t, y>> \/ \E z : x = <<t, y, z>>
                                /\ \/ t \in Minor
                                   \/ /\ t # "rejected"
                                      /\ Acting(s) = {}
                                      /\ \A e \in s.nodes \cup s.edges : ~e.rel
    OBVIOUS
  <2>1. CASE \E t \in Minor : \E y : x = <<t, y>>
    BY <2>1, Zenon
  <2>2. ASSUME NEW y, x = <<"processed", p, y>>, p # "no"
        PROVE  \E t, z : /\ x = <<t, z>> \/ \E w : x = <<t, z, w>>
                         /\ \/ t \in Minor
                            \/ /\ t # "rejected"
                               /\ Acting(s) = {}
                               /\ \A e \in s.nodes \cup s.edges : ~e.rel
    <3>1. "processed" # "rejected" /\ Acting(s) = {} /\ \A e \in s.nodes \cup s.edges : ~e.rel
      BY <1>4, <1>6, <2>2
    <3> QED  BY <2>2, <3>1, Zenon
  <2> QED  BY <1>3, <2>1, <2>2
<1>10. d.live \in BOOLEAN /\ d.invoked \in BOOLEAN /\ d.prev \in {caches[m].prev, 0}
  BY <1>2, <1>3
<1>11. Derives(r, m, s)
  BY <1>1, <1>3, <1>5, <1>7, <1>8, <1>9, <1>10 DEF Derives, d, p
<1> QED  BY <1>11 DEF s, r

(* DispatchState, by the names of its LET. *)
Rejects(s) == UNION {Live(e[1], e[2]) : e \in s.errors}
Kept(s) == [i \in DOMAIN caches |-> IF i \in Rejects(s) THEN [caches[i] EXCEPT !.live = FALSE]
                                    ELSE caches[i]]
Now(s) == Live(s.orderId, s.upd) \ Rejects(s)
Old(s) == UNION {LastActive(i, Kept(s)) : i \in Now(s)}
From(s, i) == IF Old(s) = {} THEN Kept(s)[i]
              ELSE Stitch(Kept(s)[i], Kept(s)[CHOOSE j \in Old(s) : TRUE])
Done(s, i) == DispatchCache(From(s, i), s)
After(s, i) == IF i \in Now(s) THEN Done(s, i).cache
               ELSE IF i \in Old(s) THEN [Kept(s)[i] EXCEPT !.live = FALSE, !.prev = 0]
               ELSE Kept(s)[i]
Said(s, i) == {<<i>> \o c : c \in Done(s, i).calls}
Dispatching(s) ==
    /\ caches' = [i \in DOMAIN caches |-> After(s, i)]
    /\ calls' = {<<i, "rejected">> : i \in Rejects(s)}
                   \cup UNION {Said(s, i) : i \in Now(s)}
    /\ lastCache' = Remaining(caches')

LEMMA DispatchingHead ==
    ASSUME DispatchState
    PROVE  Dispatching(Head(states))
BY Zenon DEF DispatchState, Dispatching, Rejects, Kept, Now, Old, From, Done, After, Said

LEMMA DispatchEffect ==
    ASSUME NEW V, NEW L \in Nat, NEW q, L >= 1, MasterInv(V, L, q),
           NEW h, h = V[0].pos, NEW m, m = V[1].pos, NEW s, s = V[1].s, Dispatching(s)
    PROVE  Dispatches(h, m, s) /\ Invokes(m, s) /\ Heard(V[1])'
<1>1. /\ DOMAIN caches' = DOMAIN caches
      /\ \A i \in DOMAIN caches : caches'[i] = After(s, i)
      /\ lastCache' = Remaining(caches')
      /\ caches' = [i \in DOMAIN caches |-> caches'[i]]
  BY DEF Dispatching
<1>2. Caches /\ Unheard(h) /\ Trace(V, L) /\ Refused(V, L, q) /\ Coming(V, L) /\ Heard(V[0])
  BY DEF MasterInv
<1>3. 0 \in 0..L /\ 1 \in 0..L
  OBVIOUS
<1>4. /\ s \in Report /\ m \in Nat /\ h \in Nat /\ h <= m
      /\ IF m = 0 THEN s.orderId = NoOrder
         ELSE m \in DOMAIN caches /\ Shows(s, caches[m].order)
      /\ h = m => Lessens(V[0].s, s)
      /\ h # 0 => h \in DOMAIN caches
  BY <1>2, <1>3 DEF Trace
<1>5. Rejects(s) = {j \in DOMAIN caches : caches[j].live /\ Names(s, j)}
  BY <1>4, ErrorsOf DEF Rejects
<1>6. \A j \in DOMAIN caches : Names(s, j) => j > m
  BY <1>2, <1>3, RejectedOnes
<1>7. DOMAIN caches \subseteq Nat \ {0}
  BY <1>2 DEF Caches
<1>8. Now(s) = {j \in DOMAIN caches : j = m /\ caches[j].live}
  <2>1. Live(s.orderId, s.upd) = {j \in DOMAIN caches : j = m /\ caches[j].live}
    BY <1>2, <1>4, NowIs
  <2> QED  BY <1>4, <1>5, <1>6, <2>1 DEF Now
<1>9. /\ DOMAIN Kept(s) = DOMAIN caches
      /\ \A i \in DOMAIN caches :
            Kept(s)[i] = IF i \in Rejects(s) THEN [caches[i] EXCEPT !.live = FALSE] ELSE caches[i]
  BY DEF Kept
<1>10. \A i \in DOMAIN caches :
          /\ Fields \subseteq DOMAIN caches[i]
          /\ caches[i].live \in BOOLEAN /\ caches[i].invoked \in BOOLEAN
          /\ caches[i].mapped \subseteq ActionId
  BY <1>2 DEF Caches, Fields
<1>11. ASSUME m \in DOMAIN caches, caches[m].live
       PROVE  Old(s) = {j \in DOMAIN caches : j = h /\ j < m /\ caches[j].live}
  <2>1. Now(s) = {m}
    BY <1>8, <1>11
  <2>2. Old(s) = LastActive(m, Kept(s))
    BY <2>1 DEF Old
  <2>3. \A j \in Rejects(s) : j > m
    BY <1>5, <1>6
  <2>4. PICK kept, Errs : kept = Kept(s) /\ Errs = Rejects(s)
    OBVIOUS
  <2>5. kept = [i \in DOMAIN caches |->
                  IF i \in Errs THEN [caches[i] EXCEPT !.live = FALSE] ELSE caches[i]]
    BY <2>4, Zenon DEF Kept
  <2>6. LastActive(m, kept) = Preceding(V[0].pos, m)
    BY <1>11, <2>3, <2>4, <2>5, OldIs
  <2> QED  BY <2>2, <2>4, <2>6 DEF Preceding
<1>12. ASSUME ~(m \in DOMAIN caches /\ caches[m].live)
       PROVE  Old(s) = {} /\ Now(s) = {}
  BY <1>8, <1>12 DEF Old
<1>13. Old(s) \subseteq {j \in DOMAIN caches : j = h /\ j < m}
  BY <1>11, <1>12
<1>14. ASSUME NEW i \in DOMAIN caches, i \in Rejects(s)
       PROVE  caches'[i] = [caches[i] EXCEPT !.live = FALSE]
  <2>1. i > m /\ i # m /\ i # h
    BY <1>4, <1>5, <1>6, <1>7, <1>14
  <2>2. i \notin Now(s) /\ i \notin Old(s)
    BY <1>8, <1>13, <2>1
  <2>3. After(s, i) = Kept(s)[i]
    BY <2>2, Zenon DEF After
  <2>4. Kept(s)[i] = [caches[i] EXCEPT !.live = FALSE]
    BY <1>9, <1>14
  <2> QED  BY <1>1, <2>3, <2>4
<1>15. ASSUME NEW i \in DOMAIN caches, i \notin Rejects(s)
       PROVE  Kept(s)[i] = caches[i]
  BY <1>9, <1>15
<1>16. ASSUME NEW i \in Old(s)
       PROVE  /\ i \in DOMAIN caches /\ i = h /\ h < m
              /\ caches'[i] = [caches[i] EXCEPT !.live = FALSE, !.prev = 0]
  <2>1. i \in DOMAIN caches /\ i = h /\ i < m
    BY <1>13, <1>16
  <2>2. i \notin Now(s)
    BY <1>4, <1>8, <2>1
  <2>3. i \notin Rejects(s)
    BY <1>4, <1>5, <1>6, <2>1
  <2>4. Kept(s)[i] = caches[i]
    BY <1>15, <2>1, <2>3
  <2>5. After(s, i) = [Kept(s)[i] EXCEPT !.live = FALSE, !.prev = 0]
    BY <1>16, <2>2, Zenon DEF After
  <2> QED  BY <1>1, <2>1, <2>4, <2>5
<1>17. ASSUME NEW i \in DOMAIN caches, i \notin Rejects(s), i \notin Now(s), i \notin Old(s)
       PROVE  caches'[i] = caches[i]
  <2>1. After(s, i) = Kept(s)[i]
    BY <1>17, Zenon DEF After
  <2> QED  BY <1>1, <1>15, <1>17, <2>1
<1>18. ASSUME m \in Now(s)
       PROVE  caches'[m] = Done(s, m).cache /\ m \in DOMAIN caches /\ Derives(Done(s, m), m, s)
  <2>1. m \in DOMAIN caches /\ caches[m].live
    BY <1>8, <1>18
  <2>2. m \notin Rejects(s)
    BY <1>4, <1>5, <1>6
  <2>3. Kept(s)[m] = caches[m]
    BY <1>15, <2>1, <2>2
  <2>4. caches'[m] = Done(s, m).cache
    <3>1. After(s, m) = Done(s, m).cache
      BY <1>18, Zenon DEF After
    <3> QED  BY <1>1, <2>1, <3>1
  <2>5. /\ Fields \subseteq DOMAIN From(s, m)
        /\ From(s, m).order = caches[m].order /\ From(s, m).prev = caches[m].prev
        /\ From(s, m).live = caches[m].live /\ From(s, m).invoked = caches[m].invoked
        /\ IF h \in DOMAIN caches /\ h < m /\ caches[h].live
           THEN /\ From(s, m).mapped = caches[m].mapped \cup caches[h].mapped
                /\ From(s, m).seen = caches[h].seen
           ELSE From(s, m).mapped = caches[m].mapped /\ From(s, m).seen = caches[m].seen
    <3>1. CASE Old(s) = {}
      <4>1. ~(h \in DOMAIN caches /\ h < m /\ caches[h].live)
        BY <1>11, <2>1, <3>1
      <4>2. From(s, m) = caches[m]
        BY <2>3, <3>1 DEF From
      <4> QED  BY <1>10, <2>1, <4>1, <4>2
    <3>2. CASE Old(s) # {}
      <4>1. Old(s) = {h} /\ h \in DOMAIN caches /\ h < m /\ caches[h].live
        BY <1>11, <2>1, <3>2
      <4>2. (CHOOSE j \in Old(s) : TRUE) = h
        BY <4>1
      <4>3. Kept(s)[h] = caches[h]
        <5>1. h \notin Rejects(s)
          BY <1>4, <1>5, <1>6, <4>1
        <5> QED  BY <1>15, <4>1, <5>1
      <4>4. From(s, m) = Stitch(caches[m], caches[h])
        BY <2>3, <3>2, <4>2, <4>3 DEF From
      <4>5. /\ Fields \subseteq DOMAIN Stitch(caches[m], caches[h])
            /\ Stitch(caches[m], caches[h]).order = caches[m].order
            /\ Stitch(caches[m], caches[h]).prev = caches[m].prev
            /\ Stitch(caches[m], caches[h]).live = caches[m].live
            /\ Stitch(caches[m], caches[h]).invoked = caches[m].invoked
            /\ Stitch(caches[m], caches[h]).mapped = caches[m].mapped \cup caches[h].mapped
            /\ Stitch(caches[m], caches[h]).seen = caches[h].seen
        <5>1. PICK x, y : x = caches[m] /\ y = caches[h]
          OBVIOUS
        <5>2. Fields \subseteq DOMAIN x
          BY <1>10, <2>1, <5>1
        <5>3. /\ Fields \subseteq DOMAIN Stitch(x, y) /\ Stitch(x, y).order = x.order
              /\ Stitch(x, y).prev = x.prev /\ Stitch(x, y).live = x.live
              /\ Stitch(x, y).invoked = x.invoked
              /\ Stitch(x, y).mapped = x.mapped \cup y.mapped /\ Stitch(x, y).seen = y.seen
          BY <5>2, StitchKeeps
        <5> QED  BY <5>1, <5>3
      <4> QED  BY <4>1, <4>4, <4>5
    <3> QED  BY <3>1, <3>2
  <2>6. PICK c : c = From(s, m)
    OBVIOUS
  <2>7. /\ Fields \subseteq DOMAIN c
        /\ c.order = caches[m].order /\ c.prev = caches[m].prev /\ c.live = caches[m].live
        /\ c.invoked = caches[m].invoked
        /\ IF V[0].pos \in DOMAIN caches /\ V[0].pos < m /\ caches[V[0].pos].live
           THEN LET last == caches[V[0].pos]
                IN  c.mapped = caches[m].mapped \cup last.mapped /\ c.seen = last.seen
           ELSE c.mapped = caches[m].mapped /\ c.seen = caches[m].seen
    BY <2>5, <2>6
  <2>8. Derives(DispatchCache(c, V[1].s), m, V[1].s)
    BY <2>1, <2>7, DispatchLive
  <2>9. Done(s, m) = DispatchCache(c, s)
    BY <2>6 DEF Done
  <2> QED  BY <2>1, <2>4, <2>8, <2>9
<1>19. Dispatches(h, m, s)
  <2>2. \E C : caches' \in Seq(C)
    <3>1. PICK B : caches \in Seq(B)
      BY <1>2 DEF Caches
    <3>2. DOMAIN caches = 1..Len(caches) /\ Len(caches) \in Nat
      BY <3>1
    <3>3. PICK f : f = caches'
      OBVIOUS
    <3>4. f = [i \in 1..Len(caches) |-> f[i]]
      BY <1>1, <3>2, <3>3
    <3>5. f \in Seq({f[i] : i \in 1..Len(caches)})
      BY <3>2, <3>4
    <3> QED  BY <3>3, <3>5
  <2>3. ASSUME NEW i \in DOMAIN caches
        PROVE  /\ Fields \subseteq DOMAIN caches'[i]
               /\ caches'[i].order = caches[i].order
               /\ caches'[i].live \in BOOLEAN /\ caches'[i].invoked \in BOOLEAN
               /\ caches'[i].prev \in {caches[i].prev, 0}
               /\ caches[i].mapped \subseteq caches'[i].mapped /\ caches'[i].mapped \subseteq ActionId
               /\ caches'[i].live => caches[i].live /\ ~Names(s, i) /\ i >= m
               /\ i # h /\ i # m =>
                     /\ caches'[i].prev = caches[i].prev /\ caches'[i].mapped = caches[i].mapped
                     /\ caches'[i].seen = caches[i].seen /\ caches'[i].invoked = caches[i].invoked
                     /\ caches'[i].live = (caches[i].live /\ ~Names(s, i))
    <3>1. CASE i \in Rejects(s)
      <4>1. caches'[i] = [caches[i] EXCEPT !.live = FALSE] /\ caches[i].live /\ Names(s, i)
        BY <1>5, <1>14, <3>1
      <4> QED  BY <1>10, <4>1 DEF Fields
    <3>2. CASE i \in Old(s)
      <4>1. caches'[i] = [caches[i] EXCEPT !.live = FALSE, !.prev = 0] /\ i = h
        BY <1>16, <3>2, Zenon
      <4> QED  BY <1>10, <4>1 DEF Fields
    <3>3. CASE i \in Now(s)
      <4>1. i = m /\ caches[m].live /\ ~Names(s, m)
        BY <1>4, <1>6, <1>8, <3>3
      <4>2. m >= m
        BY <1>4
      <4> QED  BY <1>18, <3>3, <4>1, <4>2 DEF Derives
    <3>4. CASE i \notin Rejects(s) /\ i \notin Old(s) /\ i \notin Now(s)
      <4>1. caches'[i] = caches[i]
        BY <1>17, <3>4
      <4>2. caches[i].live => ~Names(s, i)
        BY <1>5, <3>4
      <4>3. ASSUME caches[i].live PROVE i >= m
        <5>1. CASE i < m
          <6>1. i = h
            BY <4>3, <5>1, LiveFrom
          <6>2. h < m /\ m \in DOMAIN caches
            BY <1>4, <1>7, <5>1, <6>1
          <6>3. caches[m].live
            BY <1>2, <1>3, <1>4, <6>2 DEF Coming
          <6> QED  BY <1>11, <3>4, <4>3, <6>1, <6>2, <6>3
        <5> QED  BY <1>4, <1>7, <5>1
      <4> QED  BY <1>10, <4>1, <4>2, <4>3
    <3> QED  BY <3>1, <3>2, <3>3, <3>4
  <2> QED  BY <1>1, <2>2, <2>3 DEF Dispatches
<1>20. Invokes(m, s)
  <2> SUFFICES ASSUME NEW c \in calls'
               PROVE  \/ c[1] \in DOMAIN caches /\ c[2] = "rejected" /\ Names(s, c[1])
                      \/ /\ c[1] = m /\ m \in DOMAIN caches
                         /\ \/ c[2] \in Minor
                            \/ /\ c[2] # "rejected"
                               /\ Acting(s) = {} /\ \A x \in s.nodes \cup s.edges : ~x.rel
    BY DEF Invokes
  <2>1. ASSUME NEW i \in Rejects(s), c = <<i, "rejected">>
        PROVE  c[1] \in DOMAIN caches /\ c[2] = "rejected" /\ Names(s, c[1])
    BY <1>5, <2>1
  <2>2. ASSUME NEW i \in Now(s), NEW x \in Done(s, i).calls, c = <<i>> \o x
        PROVE  /\ c[1] = m /\ m \in DOMAIN caches
               /\ \/ c[2] \in Minor
                  \/ /\ c[2] # "rejected"
                     /\ Acting(s) = {} /\ \A e \in s.nodes \cup s.edges : ~e.rel
    <3>1. i = m
      BY <1>8
    <3>2. PICK t, y : /\ x = <<t, y>> \/ \E z : x = <<t, y, z>>
                      /\ \/ t \in Minor
                         \/ /\ t # "rejected"
                            /\ Acting(s) = {} /\ \A e \in s.nodes \cup s.edges : ~e.rel
      BY <1>18, <2>2, <3>1 DEF Derives
    <3>3. c[1] = i /\ c[2] = t
      BY <2>2, <3>2
    <3> QED  BY <1>18, <3>1, <3>2, <3>3
  <2>3. (\E i \in Rejects(s) : c = <<i, "rejected">>) \/ \E i \in Now(s) : c \in Said(s, i)
    BY DEF Dispatching
  <2>4. \A i : c \in Said(s, i) => \E x \in Done(s, i).calls : c = <<i>> \o x
    BY DEF Said
  <2> QED  BY <2>1, <2>2, <2>3, <2>4
<1>21. Heard(V[1])'
  <2>1. CASE m = 0
    BY <2>1 DEF Heard
  <2>2. CASE m # 0 /\ m \in Now(s)
    <3>1. \A e : OrderProcessed(e, s)' = OrderProcessed(e, s)
      BY DEF OrderProcessed
    <3> QED  BY <1>18, <2>2, <3>1 DEF Heard, Derives
  <2>3. CASE m # 0 /\ m \notin Now(s)
    <3>1. m \in DOMAIN caches /\ ~caches[m].live
      BY <1>4, <1>8, <2>3
    <3>2. h = m
      BY <1>2, <1>3, <1>4, <3>1 DEF Coming
    <3>3. Over(V[0].s)
      BY <1>2, <1>4, <2>3, <3>1, <3>2 DEF Heard
    <3>4. Over(s)
      BY <1>4, <3>2, <3>3 DEF Over, Lessens
    <3>5. ~caches'[m].live
      <4>1. caches'[m].live => caches[m].live
        BY <1>19, <3>1 DEF Dispatches
      <4> QED  BY <3>1, <4>1
    <3> QED  BY <3>4, <3>5 DEF Heard
  <2> QED  BY <2>1, <2>2, <2>3
<1> QED  BY <1>19, <1>20, <1>21

LEMMA DispatchTakes ==
    ASSUME DispatchState
    PROVE  states # <<>> /\ states' = Tail(states) /\ UNCHANGED <<agvVars, cancelState, orders, lost>>
BY Zenon DEF DispatchState

LEMMA DispatchStep ==
    ASSUME DispatchState, InSync
    PROVE  InSync'
<1>1. PICK V, ss, q : /\ ss = states /\ q = orders /\ Carries(V, ss, q)
                      /\ V[Len(ss)].s = Snapshot
  BY DEF InSync
<1>2. PICK L, h, m, s : L = Len(ss) /\ h = V[0].pos /\ m = V[1].pos /\ s = V[1].s
  BY Zenon
<1>3. /\ ss \in Seq(Report) /\ ss # <<>> /\ L \in Nat /\ L >= 1
      /\ MasterInv(V, L, q) /\ \A k \in 1..L : V[k].s = ss[k]
  <2>1. ss # <<>>
    BY <1>1, DispatchTakes
  <2>2. ss \in Seq(Report) /\ MasterInv(V, L, q) /\ \A k \in 1..L : V[k].s = ss[k]
    BY <1>1, <1>2 DEF Carries
  <2>3. L \in Nat /\ L >= 1
    BY <1>2, <2>1, <2>2
  <2> QED  BY <2>1, <2>2, <2>3
<1>4. s = Head(states)
  BY <1>1, <1>2, <1>3
<1>5. Dispatches(h, m, s) /\ Heard(V[1])'
  <2>1. Dispatching(Head(states))
    BY DispatchingHead
  <2>2. Dispatching(s)
    BY <1>4, <2>1
  <2> QED  BY <1>2, <1>3, <2>2, DispatchEffect
<1> DEFINE W == [k \in 0..(L - 1) |-> V[k + 1]]
<1>6. /\ Caches /\ Unheard(h) /\ Trace(V, L) /\ Underway(V[L].pos, q)
      /\ Refused(V, L, q) /\ Awaited(V, L, q) /\ Coming(V, L)
  BY <1>2, <1>3 DEF MasterInv
<1>7. V \in [0..L -> [pos : Nat, s : Report]]
  BY <1>6 DEF Trace
<1>8. /\ \A k \in 0..(L - 1) : W[k] = V[k + 1] /\ k + 1 \in 1..L /\ k + 1 \in 0..L
      /\ L - 1 \in 0..(L - 1) /\ L - 1 \in Nat /\ 0 \in 0..(L - 1) /\ W[0] = V[1]
      /\ W[L - 1] = V[L]
  BY <1>3
<1>9. \A k \in 1..L : k - 1 \in 0..(L - 1) /\ W[k - 1] = V[k] /\ k \in 0..L
  BY <1>3
<1>10. W \in [0..(L - 1) -> [pos : Nat, s : Report]]
  BY <1>7, <1>8
<1> HIDE DEF W
<1>11. DOMAIN caches \subseteq Nat \ {0}
  BY <1>6 DEF Caches
<1>12. /\ h \in Nat /\ m \in Nat /\ h <= m
       /\ \A k \in 1..L : V[k].pos \in Nat /\ m <= V[k].pos
       /\ m # 0 => m \in DOMAIN caches
       /\ h < m => caches[m].live
  <2>1. 0 \in 0..L /\ 1 \in 0..L
    BY <1>3
  <2>2. h \in Nat /\ m \in Nat
    BY <1>2, <1>7, <2>1
  <2>3. h <= m
    BY <1>2, <1>3, <1>6, <2>1 DEF Trace
  <2>4. \A k \in 1..L : V[k].pos \in Nat /\ m <= V[k].pos
    <3> SUFFICES ASSUME NEW k \in 1..L PROVE V[k].pos \in Nat /\ m <= V[k].pos
      OBVIOUS
    <3>1. 1 <= k /\ k \in 0..L
      BY <1>3
    <3> QED  BY <1>2, <1>6, <1>7, <2>1, <3>1 DEF Trace
  <2>5. m # 0 => m \in DOMAIN caches
    BY <1>2, <1>6, <2>1 DEF Trace
  <2>6. h < m => caches[m].live
    BY <1>2, <1>6, <2>1, <2>2 DEF Coming
  <2> QED  BY <2>2, <2>3, <2>4, <2>5, <2>6
<1>13. /\ DOMAIN caches' = DOMAIN caches
       /\ \A i \in DOMAIN caches : /\ caches'[i].order = caches[i].order
                                   /\ caches'[i].live => caches[i].live /\ ~Names(s, i) /\ i >= m
       /\ \A i \in DOMAIN caches : i > m =>
             /\ caches'[i].prev = caches[i].prev /\ caches'[i].mapped = caches[i].mapped
             /\ caches'[i].seen = caches[i].seen /\ caches'[i].invoked = caches[i].invoked
             /\ caches'[i].live = (caches[i].live /\ ~Names(s, i))
  <2>1. \A i \in DOMAIN caches : i > m => i # m /\ i # h
    BY <1>11, <1>12
  <2> QED  BY <1>5, <2>1 DEF Dispatches
<1>14. \A j \in DOMAIN caches : Names(s, j) =>
          /\ \A l \in 0..L : V[l].pos # j
          /\ \A i \in DOMAIN caches, l \in DOMAIN q : Sent(q, l, i) => j < i
  <2>1. 1 \in 0..L
    BY <1>3
  <2> QED  BY <1>2, <1>3, <1>6, <2>1, RejectedOnes
<1>15. \A k, i : Sent(q, k, i)' <=> q[k] = <<caches'[i].order>>
  BY DEF Sent
<1>16. \A k : \A i \in DOMAIN caches : Sent(q, k, i)' <=> Sent(q, k, i)
  BY <1>13, <1>15 DEF Sent
<1>17. \A r : \A i \in DOMAIN caches : Names(r, i)' <=> Names(r, i)
  BY <1>13 DEF Names
<1>18. Caches'
  <2>1. \E C : caches' \in Seq(C)
    BY <1>5 DEF Dispatches
  <2>2. /\ lastCache' \in Nat /\ lastCache' <= Len(caches')
        /\ (\E i \in DOMAIN caches' : caches'[i].live) => lastCache' = Len(caches')
    <3>1. PICK C, n : caches \in Seq(C) /\ n = Len(caches)
      BY <1>6 DEF Caches
    <3>2. n \in Nat /\ DOMAIN caches = 1..n
      BY <3>1
    <3>3. Len(caches') = n
      BY <1>13, <2>1, <3>2
    <3>4. lastCache' = IF \E i \in DOMAIN caches' : caches'[i].live THEN lastCache ELSE 0
      BY <1>5 DEF Dispatches, Remaining
    <3>5. (\E i \in DOMAIN caches' : caches'[i].live) => lastCache = n
      BY <1>6, <1>13, <3>1 DEF Caches
    <3> QED  BY <3>2, <3>3, <3>4, <3>5
  <2>3. ASSUME NEW i \in DOMAIN caches'
        PROVE  LET c == caches'[i] IN
               /\ {"order", "prev", "live", "invoked", "mapped", "seen"} \subseteq DOMAIN c
               /\ c.order \in Orders /\ c.live \in BOOLEAN /\ c.invoked \in BOOLEAN
               /\ c.prev \in Nat /\ c.prev < i
               /\ BaseActions(c.order) \subseteq c.mapped /\ c.mapped \subseteq ActionId
    <3>1. i \in DOMAIN caches /\ i \in Nat \ {0}
      BY <1>11, <1>13
    <3>2. /\ caches[i].order \in Orders /\ caches[i].prev \in Nat /\ caches[i].prev < i
          /\ BaseActions(caches[i].order) \subseteq caches[i].mapped
      BY <1>6, <3>1 DEF Caches
    <3>3. /\ {"order", "prev", "live", "invoked", "mapped", "seen"} \subseteq DOMAIN caches'[i]
          /\ caches'[i].order = caches[i].order
          /\ caches'[i].live \in BOOLEAN /\ caches'[i].invoked \in BOOLEAN
          /\ caches'[i].prev \in {caches[i].prev, 0}
          /\ caches[i].mapped \subseteq caches'[i].mapped /\ caches'[i].mapped \subseteq ActionId
      BY <1>5, <3>1 DEF Dispatches, Fields
    <3> QED  BY <3>1, <3>2, <3>3
  <2>4. \A i, j \in DOMAIN caches' : caches'[i].order = caches'[j].order => i = j
    BY <1>6, <1>13 DEF Caches
  <2>5. \A i, k \in DOMAIN caches' : i < k /\ caches'[i].live => caches'[k].prev = k - 1
    <3> SUFFICES ASSUME NEW i \in DOMAIN caches, NEW k \in DOMAIN caches, i < k, caches'[i].live
                 PROVE  caches'[k].prev = k - 1
      BY <1>13
    <3>1. caches[k].prev = k - 1
      BY <1>6, <1>13 DEF Caches
    <3>2. k > m
      BY <1>11, <1>12, <1>13
    <3> QED  BY <1>13, <3>1, <3>2
  <2> QED  BY <2>1, <2>2, <2>3, <2>4, <2>5 DEF Caches
<1>19. Unheard(W[0].pos)'
  <2> SUFFICES ASSUME NEW i \in DOMAIN caches, i > m
               PROVE  /\ caches'[i].mapped = BaseActions(caches'[i].order) /\ ~caches'[i].invoked
                      /\ \A a \in ActionId : caches'[i].seen[a] = "ABSENT"
    BY <1>2, <1>8, <1>13 DEF Unheard
  <2>1. i > h
    BY <1>11, <1>12
  <2> QED  BY <1>6, <1>13, <2>1 DEF Unheard
<1>20. Trace(W, L - 1)'
  <2>1. Trace(W, L - 1)
    <3>1. \A k \in 0..(L - 1) :
             IF W[k].pos = 0 THEN W[k].s.orderId = NoOrder /\ Over(W[k].s)
             ELSE W[k].pos \in DOMAIN caches /\ Shows(W[k].s, caches[W[k].pos].order)
      BY <1>6, <1>8 DEF Trace
    <3>2. \A k, l \in 0..(L - 1) : k <= l =>
             W[k].pos <= W[l].pos /\ (W[k].pos = W[l].pos => Lessens(W[k].s, W[l].s))
      <4> SUFFICES ASSUME NEW k \in 0..(L - 1), NEW l \in 0..(L - 1), k <= l
                   PROVE  W[k].pos <= W[l].pos /\ (W[k].pos = W[l].pos => Lessens(W[k].s, W[l].s))
        OBVIOUS
      <4>1. k + 1 <= l + 1
        OBVIOUS
      <4> QED  BY <1>6, <1>8, <4>1 DEF Trace
    <3>3. \A k \in 1..(L - 1) :
             /\ EndsFirst(W[k - 1].s, W[k].s)
             /\ W[k - 1].pos < W[k].pos =>
                   Acting(W[k].s) \subseteq Acting(W[k - 1].s)
                                               \cup BaseActions(caches[W[k].pos].order)
      <4> SUFFICES ASSUME NEW k \in 1..(L - 1)
                   PROVE  /\ EndsFirst(W[k - 1].s, W[k].s)
                          /\ W[k - 1].pos < W[k].pos =>
                                Acting(W[k].s) \subseteq Acting(W[k - 1].s)
                                                   \cup BaseActions(caches[W[k].pos].order)
        OBVIOUS
      <4>1. k \in 1..L /\ k \in 0..(L - 1) /\ k + 1 \in 1..L /\ (k + 1) - 1 = k
        BY <1>3
      <4>2. W[k - 1] = V[k] /\ W[k] = V[k + 1]
        BY <1>8, <1>9, <4>1
      <4>3. /\ EndsFirst(V[(k + 1) - 1].s, V[k + 1].s)
            /\ V[(k + 1) - 1].pos < V[k + 1].pos =>
                  Acting(V[k + 1].s) \subseteq Acting(V[(k + 1) - 1].s)
                                              \cup BaseActions(caches[V[k + 1].pos].order)
        BY <1>6, <4>1 DEF Trace
      <4> QED  BY <4>1, <4>2, <4>3
    <3> QED  BY <1>10, <3>1, <3>2, <3>3 DEF Trace
  <2>2. KeepsOrders
    BY <1>13 DEF KeepsOrders
  <2>3. PICK X, N : X = W /\ N = L - 1
    OBVIOUS
  <2>4. Trace(X, N)'
    BY <1>8, <2>1, <2>2, <2>3, TraceKept
  <2> QED  BY <2>3, <2>4
<1>21. Underway(W[L - 1].pos, q)'
  <2>1. PICK n : n = V[L].pos
    OBVIOUS
  <2>2. n \in Nat /\ m <= n
    BY <1>3, <1>12, <2>1
  <2>3. ASSUME NEW k \in DOMAIN q, q[k] # CancelMessage
        PROVE  \E i \in DOMAIN caches' : q[k] = <<caches'[i].order>> /\ caches'[i].live /\ i > n
    <3>1. PICK i \in DOMAIN caches : Sent(q, k, i) /\ caches[i].live /\ i > n
      BY <1>6, <2>1, <2>3 DEF Underway
    <3>2. i > m
      BY <1>11, <1>12, <2>2, <3>1
    <3>3. ~Names(s, i)
      BY <1>11, <1>14, <3>1
    <3>4. caches'[i].live
      BY <1>13, <3>1, <3>2, <3>3
    <3> QED  BY <1>13, <3>1, <3>4 DEF Sent
  <2>4. \A k, l \in DOMAIN q : \A i, j \in DOMAIN caches' :
          k < l /\ q[k] = <<caches'[i].order>> /\ q[l] = <<caches'[j].order>> => i < j
    BY <1>6, <1>13 DEF Underway, Sent
  <2>5. q \in Seq({<<o>> : o \in Orders} \cup {CancelMessage})
    BY <1>6 DEF Underway
  <2>6. Underway(n, q)'
    BY <2>3, <2>4, <2>5 DEF Underway, Sent
  <2> QED  BY <1>8, <2>1, <2>6
<1>22. Refused(W, L - 1, q)'
  <2> SUFFICES ASSUME NEW k \in 0..(L - 1), NEW e \in W[k].s.errors
               PROVE  \E j \in DOMAIN caches' :
                        /\ e = <<caches'[j].order.orderId, caches'[j].order.upd>> /\ j > W[k].pos
                        /\ \A i \in DOMAIN caches', l \in DOMAIN q :
                              q[l] = <<caches'[i].order>> => j < i
                        /\ \A l \in 0..(L - 1) : W[l].pos # j
    BY DEF Refused, Sent
  <2>1. PICK j \in DOMAIN caches :
           /\ e = <<caches[j].order.orderId, caches[j].order.upd>> /\ j > V[k + 1].pos
           /\ \A i \in DOMAIN caches, l \in DOMAIN q : Sent(q, l, i) => j < i
           /\ \A l \in 0..L : V[l].pos # j
    BY <1>6, <1>8 DEF Refused
  <2>2. \A i \in DOMAIN caches', l \in DOMAIN q : q[l] = <<caches'[i].order>> => j < i
    BY <1>13, <2>1 DEF Sent
  <2>3. \A l \in 0..(L - 1) : W[l].pos # j
    BY <1>8, <2>1
  <2> QED  BY <1>8, <1>13, <2>1, <2>2, <2>3
<1>23. Awaited(W, L - 1, q)'
  <2> SUFFICES ASSUME NEW j \in DOMAIN caches', caches'[j].live
               PROVE  \/ \E k \in DOMAIN q : Sent(q, k, j)'
                      \/ \E k \in 0..(L - 1) : W[k].pos = j
                      \/ \E k \in 1..(L - 1) : Names(W[k].s, j)'
    BY DEF Awaited
  <2> j \in DOMAIN caches
    BY <1>13
  <2>1. caches[j].live /\ ~Names(s, j) /\ j >= m
    BY <1>13
  <2>2. CASE \E k \in DOMAIN q : Sent(q, k, j)
    BY <1>16, <2>2
  <2>3. CASE \E k \in 0..L : V[k].pos = j
    <3>1. PICK k \in 0..L : V[k].pos = j
      BY <2>3
    <3>2. CASE k = 0
      <4>1. j = h /\ h = m
        BY <1>2, <1>11, <1>12, <2>1, <3>1, <3>2
      <4>2. W[0].pos = j
        BY <1>2, <1>8, <4>1
      <4> QED  BY <1>8, <4>2
    <3>3. CASE k \in 1..L
      BY <1>9, <3>1, <3>3
    <3> QED  BY <3>2, <3>3
  <2>4. CASE \E k \in 1..L : Names(V[k].s, j)
    <3>1. PICK k \in 1..L : Names(V[k].s, j)
      BY <2>4
    <3>2. k # 1
      BY <1>2, <2>1, <3>1
    <3>3. k - 1 \in 1..(L - 1) /\ W[k - 1] = V[k]
      BY <1>3, <1>9, <3>2
    <3> QED  BY <1>17, <3>1, <3>3
  <2> QED  BY <1>6, <2>1, <2>2, <2>3, <2>4 DEF Awaited
<1>24. Coming(W, L - 1)'
  <2> SUFFICES ASSUME NEW k \in 0..(L - 1), W[k].pos > W[0].pos
               PROVE  caches'[W[k].pos].live
    BY DEF Coming
  <2>1. PICK i : i = V[k + 1].pos
    OBVIOUS
  <2>2. i \in Nat /\ i > m /\ i > h /\ W[k].pos = i
    BY <1>2, <1>7, <1>8, <1>12, <2>1
  <2>3. i \in DOMAIN caches /\ caches[i].live
    BY <1>2, <1>6, <1>8, <2>1, <2>2 DEF Trace, Coming
  <2>4. ~Names(s, i)
    BY <1>8, <1>14, <2>1, <2>3
  <2> QED  BY <1>13, <2>2, <2>3, <2>4
<1>25. Heard(W[0])'
  BY <1>5, <1>8
<1>26. MasterInv(W, L - 1, q)'
  BY <1>18, <1>19, <1>20, <1>21, <1>22, <1>23, <1>24, <1>25 DEF MasterInv
<1>27. PICK ts : ts = Tail(ss)
  OBVIOUS
<1>28. /\ ts \in Seq(Report) /\ Len(ts) = L - 1
       /\ \A k \in 1..(L - 1) : ts[k] = ss[k + 1]
  BY <1>2, <1>3, <1>27
<1>29. \A k \in 1..(L - 1) : W[k].s = ts[k]
  <2> SUFFICES ASSUME NEW k \in 1..(L - 1) PROVE W[k].s = ts[k]
    OBVIOUS
  <2>1. k \in 0..(L - 1) /\ k + 1 \in 1..L
    BY <1>3
  <2> QED  BY <1>3, <1>8, <1>28, <2>1
<1>30. Carries(W, ts, q)'
  BY <1>26, <1>28, <1>29 DEF Carries
<1>31. ts = states' /\ q = orders' /\ W[Len(ts)].s = Snapshot'
  <2>1. Snapshot' = Snapshot /\ states' = Tail(states) /\ orders' = orders
    BY DispatchTakes DEF agvVars, Snapshot
  <2> QED  BY <1>1, <1>2, <1>8, <1>27, <1>28, <2>1
<1> QED  BY <1>30, <1>31 DEF InSync

-----------------------------------------------------------------------------
(* The invariant holds.                                                    *)

LEMMA MasterActs ==
    ASSUME IndInv, AgvP!LoneNoneOrder, AgvP!LoneNoneOrder',
           UNCHANGED <<agvVars, cancelState>>, lost' \in Nat,
           orders' \in Seq({<<o>> : o \in Orders} \cup {CancelMessage}),
           lost' = 0 => lost = 0 /\ (InSync => InSync')
    PROVE  IndInv'
<1>1. [AgvP!Next]_(AgvP!vars)
  BY DEF agvVars, AgvP!vars, AgvP!reported, AgvP!dispatched, AgvP!stopping
<1>2. VehicleInv'
  BY <1>1, VehicleStep DEF IndInv
<1>3. Known'
  BY DEF IndInv, Known
<1> QED  BY <1>2, <1>3 DEF IndInv

LEMMA IndStep ==
    ASSUME IndInv, [Next]_vars, AgvP!LoneNoneOrder, AgvP!LoneNoneOrder'
    PROVE  IndInv'
<1> DEFINE Message == {<<o>> : o \in Orders} \cup {CancelMessage}
<1>1. orders \in Seq(Message) /\ lost \in Nat
  BY DEF IndInv
<1> HIDE DEF Message
<1>2. ASSUME NEW o \in Orders, AssignOrder(o) PROVE IndInv'
  <2>1. <<o>> \in Message
    BY DEF Message
  <2>2. /\ UNCHANGED <<agvVars, cancelState>> /\ lost' = lost
        /\ orders' = Append(orders, <<o>>)
    BY <1>2 DEF AssignOrder
  <2>3. orders' \in Seq(Message)
    BY <1>1, <2>1, <2>2
  <2>4. InSync => InSync'
    BY <1>2, AssignStep
  <2> QED  BY <1>1, <2>2, <2>3, <2>4, MasterActs DEF Message
<1>3. ASSUME NEW i \in DOMAIN caches, PublishFails(i) PROVE IndInv'
  <2>1. /\ UNCHANGED <<agvVars, cancelState>> /\ lost' = lost
        /\ orders # <<>> /\ orders' = Front(orders)
    BY <1>3 DEF PublishFails
  <2>2. orders' \in Seq(Message)
    BY <1>1, <2>1 DEF Front
  <2>3. InSync => InSync'
    BY <1>3, FailStep
  <2> QED  BY <1>1, <2>1, <2>2, <2>3, MasterActs DEF Message
<1>4. CASE InitiateCancel
  <2>1. CancelMessage \in Message
    BY DEF Message
  <2>2. /\ UNCHANGED <<agvVars, cancelState>> /\ lost' = lost
        /\ orders' = Append(orders, CancelMessage)
    BY <1>4 DEF InitiateCancel
  <2>3. orders' \in Seq(Message)
    BY <1>1, <2>1, <2>2
  <2>4. InSync => InSync'
    BY <1>4, CancelStep
  <2> QED  BY <1>1, <2>2, <2>3, <2>4, MasterActs DEF Message
<1>5. CASE DispatchState
  <2>1. UNCHANGED <<agvVars, cancelState, orders, lost>>
    BY <1>5, DispatchTakes
  <2>2. InSync => InSync'
    BY <1>5, DispatchStep
  <2> QED  BY <1>1, <2>1, <2>2, MasterActs DEF Message
<1>6. CASE LoseState
  <2>1. UNCHANGED <<agvVars, cancelState, orders>> /\ lost' = lost + 1
    BY <1>6 DEF LoseState
  <2> QED  BY <1>1, <2>1, MasterActs DEF Message
<1>7. CASE VehicleActs
  BY <1>7, VehicleActsStep
<1>8. CASE UNCHANGED vars
  <2>1. UNCHANGED <<agvVars, cancelState, orders, lost>> /\ UNCHANGED <<caches, lastCache, states>>
    BY <1>8 DEF vars, masterVars
  <2>2. InSync => InSync'
    <3> SUFFICES ASSUME InSync PROVE InSync'
      OBVIOUS
    <3>1. PICK V, ss, q : /\ ss = states /\ q = orders /\ Carries(V, ss, q)
                          /\ V[Len(ss)].s = Snapshot
      BY DEF InSync
    <3>2. Carries(V, ss, q)'
      BY <2>1, <3>1, CarriesUnchanged
    <3>3. Snapshot' = Snapshot
      BY <2>1 DEF agvVars, Snapshot
    <3> QED  BY <2>1, <3>1, <3>2, <3>3 DEF InSync
  <2> QED  BY <1>1, <2>1, <2>2, MasterActs DEF Message
<1> QED  BY <1>2, <1>3, <1>4, <1>5, <1>6, <1>7, <1>8 DEF Next, VehicleActs

LEMMA InitInd == Init => IndInv
<1> SUFFICES ASSUME Init PROVE IndInv
  OBVIOUS
<1>1. AgvP!Init
  BY DEF Init, Agv!Init, AgvP!Init
<1>2. VehicleInv
  BY <1>1, AgvAssumptions, AgvP!InitIInv, AgvP!InitProgress, AgvP!InitReported DEF VehicleInv
<1>3. Known
  BY DEF Init, Known, CancelState
<1>4. orders \in Seq({<<o>> : o \in Orders} \cup {CancelMessage}) /\ orders = <<>>
  BY DEF Init
<1>5. InSync
  <2>1. PICK s : s = Snapshot
    OBVIOUS
  <2>2. s \in Report
    BY <1>2, <1>3, <2>1, SnapshotType
  <2>3. s.orderId = NoOrder /\ Over(s) /\ s.errors = {}
    BY <2>1 DEF Init, Agv!Init, Over, Acting, Snapshot
  <2>4. PICK V : V = [k \in {0} |-> [pos |-> 0, s |-> s]]
    OBVIOUS
  <2>5. /\ V \in [0..0 -> [pos : Nat, s : Report]] /\ V[0].pos = 0 /\ V[0].s = s
        /\ \A k \in 0..0 : k = 0
    BY <2>2, <2>4
  <2>6. caches = <<>> /\ DOMAIN caches = {} /\ lastCache = 0
    BY DEF Init
  <2>7. Caches
    BY <2>6 DEF Caches
  <2>8. Trace(V, 0)
    BY <2>3, <2>5 DEF Trace, Lessens
  <2>9. Underway(V[0].pos, orders)
    BY <1>4 DEF Underway
  <2>10. Refused(V, 0, orders)
    BY <2>3, <2>5 DEF Refused
  <2>11. Unheard(V[0].pos) /\ Awaited(V, 0, orders) /\ Coming(V, 0) /\ Heard(V[0])
    BY <2>5, <2>6 DEF Unheard, Awaited, Coming, Heard
  <2>12. MasterInv(V, 0, orders)
    BY <2>7, <2>8, <2>9, <2>10, <2>11 DEF MasterInv
  <2>13. states = <<>> /\ Len(states) = 0 /\ states \in Seq(Report)
    BY DEF Init
  <2>14. Carries(V, states, orders)
    BY <2>12, <2>13 DEF Carries
  <2> QED  BY <2>1, <2>5, <2>13, <2>14 DEF InSync
<1> QED  BY <1>2, <1>3, <1>4, <1>5 DEF Init, IndInv

(* In every reachable state what the vehicle has reported and not yet been *)
(* dispatched, the messages on their way and the caches fit together, as   *)
(* long as no state message has been lost.                                 *)
THEOREM MasterInvariance == Spec /\ []AgvP!LoneNoneOrder => []IndInv
<1>1. Init => IndInv
  BY InitInd
<1>2. IndInv /\ AgvP!LoneNoneOrder /\ AgvP!LoneNoneOrder' /\ [Next]_vars => IndInv'
  BY IndStep
<1> QED  BY <1>1, <1>2, PTL DEF Spec

-----------------------------------------------------------------------------
(* What follows from it.                                                   *)

(* The order of a cache is the one the vehicle has reported last.          *)
LEMMA ReportedLast ==
    ASSUME NEW V, NEW L \in Nat, Caches, Trace(V, L), V[L].s = Snapshot,
           NEW i \in DOMAIN caches,
           caches[i].order.orderId = order.orderId, caches[i].order.upd = order.upd
    PROVE  V[L].pos = i
<1>1. L \in 0..L
  OBVIOUS
<1>2. Snapshot.orderId = order.orderId /\ Snapshot.upd = order.upd
  BY DEF Snapshot
<1>3. CASE V[L].pos = 0
  <2>1. order.orderId = NoOrder /\ caches[i].order \in Orders
    BY <1>1, <1>2, <1>3 DEF Trace, Caches
  <2> QED  BY <2>1, AssignedOrders
<1>4. CASE V[L].pos # 0
  <2>1. V[L].pos \in DOMAIN caches /\ Shows(Snapshot, caches[V[L].pos].order)
    BY <1>1, <1>4 DEF Trace
  <2> QED  BY <1>2, <2>1, SameIdentity DEF Shows
<1> QED  BY <1>3, <1>4

LEMMA CachedWhileActive == InSync => ActiveOrderCached
<1> SUFFICES ASSUME InSync, Agv!HasActiveOrder
             PROVE  Live(order.orderId, order.upd) # {}
  BY DEF ActiveOrderCached
<1>1. PICK V, ss, q : Carries(V, ss, q) /\ V[Len(ss)].s = Snapshot
  BY DEF InSync
<1>2. PICK L, n : L = Len(ss) /\ n = V[L].pos
  BY Zenon
<1>3. L \in Nat /\ MasterInv(V, L, q) /\ V[L].s = Snapshot /\ 0 \in 0..L /\ L \in 0..L
  BY <1>1, <1>2 DEF Carries
<1>4. Caches /\ Trace(V, L) /\ Coming(V, L) /\ Heard(V[0])
  BY <1>3 DEF MasterInv
<1>5. ~Over(Snapshot)
  BY DEF Over, Acting, Snapshot, Agv!HasActiveOrder, Agv!Active
<1>6. n # 0 /\ n \in DOMAIN caches /\ Shows(Snapshot, caches[n].order)
  BY <1>2, <1>3, <1>4, <1>5 DEF Trace
<1>7. V[0].pos \in Nat /\ n \in Nat /\ V[0].pos <= n
  BY <1>2, <1>3, <1>4 DEF Trace
<1>8. caches[n].live
  <2>1. CASE n > V[0].pos
    BY <1>2, <1>3, <1>4, <2>1 DEF Coming
  <2>2. CASE n = V[0].pos
    <3>1. 0 <= L
      BY <1>3
    <3>2. Lessens(V[0].s, V[L].s)
      BY <1>2, <1>3, <1>4, <2>2, <3>1 DEF Trace
    <3>3. ~Over(V[0].s)
      BY <1>3, <1>5, <3>2 DEF Over, Lessens
    <3> QED  BY <1>4, <1>6, <1>7, <2>2, <3>3 DEF Heard
  <2> QED  BY <1>7, <2>1, <2>2
<1>9. n \in Live(order.orderId, order.upd)
  BY <1>6, <1>8 DEF Live, Shows, Snapshot
<1> QED  BY <1>9

(* If there is no more to report of an order its cache is gone or has been *)
(* reported processed.                                                     *)
LEMMA NothingLeft == IndInv => NoOrderForgotten
<1> SUFFICES ASSUME IndInv, lost = 0, orders = <<>>, states = <<>>,
                    Agv!HasActiveOrder => Agv!AtHorizon /\ exec = {} /\ ~canceling,
                    NEW i \in DOMAIN caches, caches[i].live, ~caches[i].invoked
             PROVE  FALSE
  BY DEF NoOrderForgotten, IndInv, InSync, Carries, MasterInv, Caches
<1>1. PICK V, ss, q : ss = states /\ q = orders /\ Carries(V, ss, q) /\ V[Len(ss)].s = Snapshot
  BY DEF IndInv, InSync
<1>2. Len(ss) = 0 /\ DOMAIN q = {} /\ MasterInv(V, 0, q) /\ V[0].s = Snapshot
  BY <1>1 DEF Carries
<1>3. Caches /\ Trace(V, 0) /\ Awaited(V, 0, q) /\ Heard(V[0])
  BY <1>2 DEF MasterInv
<1>4. V[0].pos = i
  BY <1>2, <1>3 DEF Awaited
<1>5. i \in Nat /\ i > 0
  BY <1>3 DEF Caches
<1> DEFINE c == caches[i]
<1>6. /\ \A a \in c.mapped :
             c.seen[a] = IF actionStatus[a] = "ABSENT" THEN "ENDED" ELSE actionStatus[a]
      /\ OrderProcessed(c, Snapshot) = "no"
  BY <1>2, <1>3, <1>4, <1>5 DEF Heard, Snapshot
<1>7. VehicleInv /\ AgvP!IInv
  BY DEF IndInv, VehicleInv
<1>8. /\ \A a \in ActionId : actionStatus[a] \in {"ABSENT", "ENDED"}
      /\ \A x \in nodeStates \cup edgeStates : ~x.rel
  <2>1. CASE Agv!HasActiveOrder
    <3>1. Agv!AtHorizon /\ ~canceling
      BY <2>1
    <3>2. pausedNode = {}
      BY <1>7, MasterAssumption DEF AgvP!IInv, AgvP!Limits
    <3>3. \A e \in edgeStates : ~e.rel
      BY <1>7, <3>1, <3>2, AgvAssumptions, AgvP!HorizonEdges DEF Agv!AtHorizon, AgvP!AtHorizon
    <3> QED  BY <3>1, <3>3 DEF Agv!AtHorizon
  <2>2. CASE ~Agv!HasActiveOrder
    <3>1. actionStatus \in [ActionId -> {"ABSENT", "WAITING", "RUNNING", "ENDED"}]
      BY <1>7 DEF AgvP!IInv, AgvP!TypeOK, AgvP!Status
    <3> QED  BY <2>2, <3>1 DEF Agv!HasActiveOrder, Agv!Active
  <2> QED  BY <2>1, <2>2
<1>9. c.mapped \subseteq ActionId
  BY <1>3 DEF Caches
<1>10. \A a \in c.mapped : c.seen[a] = "ENDED"
  BY <1>6, <1>8, <1>9
<1>11. Snapshot.nodes = nodeStates /\ Snapshot.edges = edgeStates
  BY DEF Snapshot
<1> HIDE DEF c
<1> QED  BY <1>6, <1>8, <1>10, <1>11 DEF OrderProcessed

LEMMA SaysRight ==
    ASSUME IndInv, lost = 0, DispatchState, NEW c \in calls',
           caches[c[1]].order.orderId = order.orderId, caches[c[1]].order.upd = order.upd
    PROVE  /\ c[2] = "processed" => Agv!todo = {} /\ exec = {}
           /\ c[2] # "rejected"
<1>1. PICK V, ss, q : ss = states /\ q = orders /\ Carries(V, ss, q) /\ V[Len(ss)].s = Snapshot
  BY DEF IndInv, InSync
<1>2. PICK L, m, s : L = Len(ss) /\ m = V[1].pos /\ s = V[1].s
  BY Zenon
<1>3. /\ L \in Nat /\ L >= 1 /\ MasterInv(V, L, q) /\ V[L].s = Snapshot /\ s = Head(states)
  <2>1. ss # <<>>
    BY <1>1, DispatchTakes
  <2>2. ss \in Seq(Report) /\ MasterInv(V, L, q) /\ \A k \in 1..L : V[k].s = ss[k]
    BY <1>1, <1>2 DEF Carries
  <2>3. L \in Nat /\ L >= 1
    BY <1>2, <2>1, <2>2
  <2> QED  BY <1>1, <1>2, <2>1, <2>2, <2>3
<1>4. Caches /\ Trace(V, L) /\ Refused(V, L, q)
  BY <1>3 DEF MasterInv
<1>5. Invokes(m, s)
  <2>1. Dispatching(Head(states))
    BY DispatchingHead
  <2>2. Dispatching(s)
    BY <1>3, <2>1
  <2>3. PICK h : h = V[0].pos
    OBVIOUS
  <2> QED  BY <1>2, <1>3, <2>2, <2>3, DispatchEffect
<1>6. 1 \in 0..L /\ L \in 0..L /\ 1 <= L
  BY <1>3
<1>7. CASE c[1] \in DOMAIN caches /\ c[2] = "rejected" /\ Names(s, c[1])
  <2>1. V[L].pos # c[1]
    BY <1>2, <1>3, <1>4, <1>6, <1>7, RejectedOnes
  <2> QED  BY <1>3, <1>4, <1>7, <2>1, ReportedLast
<1>8. CASE /\ c[1] = m /\ m \in DOMAIN caches
           /\ \/ c[2] \in Minor
              \/ /\ c[2] # "rejected"
                 /\ Acting(s) = {} /\ \A x \in s.nodes \cup s.edges : ~x.rel
  <2>1. V[L].pos = m
    BY <1>3, <1>4, <1>8, ReportedLast
  <2>2. Lessens(s, Snapshot)
    BY <1>2, <1>3, <1>4, <1>6, <2>1 DEF Trace
  <2>3. c[2] # "rejected"
    BY <1>8 DEF Minor
  <2>4. ASSUME c[2] = "processed"
        PROVE  Agv!todo = {} /\ exec = {}
    <3>1. Acting(s) = {} /\ \A x \in s.nodes : ~x.rel
      BY <1>8, <2>4 DEF Minor
    <3>2. Acting(Snapshot) = {} /\ \A x \in nodeStates : ~x.rel
      BY <2>2, <3>1 DEF Lessens, Snapshot
    <3>3. Agv!todo = {}
      BY <3>2 DEF Agv!todo
    <3>4. exec = {}
      <4> SUFFICES ASSUME NEW x \in exec PROVE FALSE
        OBVIOUS
      <4>1. AgvP!IInv
        BY DEF IndInv, VehicleInv
      <4>2. x.act \in ActionId /\ actionStatus[x.act] = "RUNNING"
        BY <4>1, AgvAssumptions, AgvP!ExecutedRuns
      <4> QED  BY <3>2, <4>2 DEF Acting, Snapshot
    <3> QED  BY <3>3, <3>4
  <2> QED  BY <2>3, <2>4
<1> QED  BY <1>5, <1>7, <1>8 DEF Invokes

(* As long as no state message has been lost the master controller has a   *)
(* cache for the order the vehicle executes: whatever the vehicle reports  *)
(* of it reaches the callbacks of its application.                         *)
THEOREM ActiveCached ==
    Spec /\ []AgvP!LoneNoneOrder => [](lost = 0 => ActiveOrderCached)
<1>1. IndInv => (lost = 0 => ActiveOrderCached)
  BY CachedWhileActive DEF IndInv
<1> QED  BY <1>1, MasterInvariance, PTL

(* No order is forgotten: when all messages have arrived, none of them has *)
(* been lost and the vehicle has come to the end, _dispatchOrderState has  *)
(* invoked the callback of every order or stitched another one to it.      *)
THEOREM NoneForgotten ==
    Spec /\ []AgvP!LoneNoneOrder => []NoOrderForgotten
<1>1. IndInv => NoOrderForgotten
  BY NothingLeft
<1> QED  BY <1>1, MasterInvariance, PTL

(* onOrderProcessed is invoked with an order that has been processed, and  *)
(* with an error only for one that is not executed, if no state message    *)
(* has been lost.                                                          *)
THEOREM ProcessedOnlyWhenDone ==
    Spec /\ []AgvP!LoneNoneOrder /\ [](lost = 0) => ProcessedRight
<1> DEFINE Right == \A c \in calls' :
                       LET o == caches[c[1]].order IN
                       (o.orderId = order.orderId /\ o.upd = order.upd) =>
                           /\ c[2] = "processed" => Agv!todo = {} /\ exec = {}
                           /\ c[2] # "rejected"
<1>1. IndInv /\ lost = 0 /\ [Next]_vars => [Right]_vars
  <2> SUFFICES ASSUME IndInv, lost = 0, Next PROVE Right
    OBVIOUS
  <2>1. CASE DispatchState
    BY <2>1, SaysRight
  <2>2. CASE calls' = {}
    BY <2>2
  <2>3. DispatchState \/ calls' = {}
    BY DEF Next, AssignOrder, PublishFails, InitiateCancel, ReceiveOrder, ReceiveCancel,
           Execute, Stopped, PublishCurrentState, LoseState, AgvStep
  <2> QED  BY <2>1, <2>2, <2>3
<1>2. ProcessedRight <=> [][Right]_vars
  BY DEF ProcessedRight
<1> HIDE DEF Right
<1> QED  BY <1>1, <1>2, MasterInvariance, PTL DEF Spec
=============================================================================
