------------------------- MODULE AgvOrderInvariant -------------------------
(***************************************************************************)
(* The inductive invariant behind the safety properties of AgvOrder, and   *)
(* the conditions under which it holds: an adapter without the traits that *)
(* break the properties, and orders whose NONE actions run alone when no   *)
(* HARD action follows them.  Then the two invariants that follow from it  *)
(* about the statuses of actions: what comes later has not begun, and,     *)
(* unless actions are appended where the vehicle has come already, what    *)
(* comes before has ended.                                                 *)
(***************************************************************************)
EXTENDS AgvOrder

(* Pause mode and order cancelation each work, but not both together: the  *)
(* suspended node outlives the cancelation of its order.                   *)
Obedient ==
    \/ Adapter = {} /\ "pause" \notin Instants
    \/ Adapter \subseteq {"button"} /\ "cancelOrder" \notin Instants

(* A NONE action that no HARD action follows has no action in parallel.    *)
LoneNone(acts) ==
    \A i \in DOMAIN acts :
        acts[i].blk = "NONE" /\ (\A j \in DOMAIN acts : j > i => acts[j].blk # "HARD")
        => Group(acts, i) = {i}

LoneNoneOrder == \A x \in Released(order) : LoneNone(x.acts)

-----------------------------------------------------------------------------
(* The order as validation and stitching shape it. *)
OrderShape(o) ==
    /\ \A m, n \in o.nodes : m.seq = n.seq => m = n
    /\ \A m, n \in o.nodes : m.seq < n.seq => m.seq + 2 <= n.seq
    /\ \A m, n \in o.nodes : n.rel /\ m.seq < n.seq => m.rel
    /\ \A e, f \in o.edges : e.seq = f.seq => e = f
    /\ \A e \in o.edges : \E m, n \in o.nodes :
           e.from = m.id /\ e.seq = m.seq + 1 /\ Leads(e, n) /\ e.rel = n.rel

(* A context belongs to the last node reached or the edge that follows it. *)
InFront(o, c, p) ==
    /\ c \in Context
    /\ c.at.rel
    /\ c.act \in ActionIdsOf(c.at)
    /\ c.scope = "node" => c.at \in o.nodes /\ Place(c.at) = p
    /\ c.scope = "edge" => c.at \in o.edges /\ c.at.from = p.id /\ c.at.seq = p.seq + 1

(* Two contexts held at the same time execute in parallel. *)
Parallel(c, d) ==
    /\ c.scope = d.scope /\ c.at = d.at
    /\ c = d \/ Position(c.at.acts, d.act) \in Group(c.at.acts, Position(c.at.acts, c.act))

(* c is a NONE action that no HARD action follows. *)
Trailing(c) ==
    LET acts == c.at.acts  k == Position(acts, c.act)
    IN  acts[k].blk = "NONE" /\ \A j \in DOMAIN acts : j > k => acts[j].blk # "HARD"

InFrontEdge(o, t, p) ==
    /\ t \in [edge : Edge, to : Node]
    /\ t.edge \in o.edges /\ t.to \in o.nodes
    /\ t.edge.rel /\ Leads(t.edge, t.to)
    /\ t.edge.from = p.id /\ t.edge.seq = p.seq + 1

(* What the adapter has to do, xs and ts, while p is the last node: to     *)
(* execute one group of actions, or to traverse one edge.                  *)
Front(o, xs, ts, p) ==
    /\ \A c \in xs : InFront(o, c, p)
    /\ \A c, d \in xs : Parallel(c, d)
    /\ \A c, d \in xs : Trailing(c) => c = d
    /\ ts = <<>> \/ (xs = {} /\ ts = <<ts[1]>> /\ InFrontEdge(o, ts[1], p))

(* An action is RUNNING as long as the adapter has its context. *)
RunningExecutes ==
    \A a \in ActionId : actionStatus[a] = "RUNNING" <=> \E c \in exec : c.act = a

(* An active order has reached one of its nodes, and the rest is reported. *)
Underway ==
    /\ \E n \in order.nodes : n.rel /\ Place(n) = lastNode
    /\ nodeStates = {NodeState(n) : n \in {m \in order.nodes : m.seq > lastNode.seq}}
    /\ edgeStates = {EdgeState(e) : e \in {f \in order.edges : f.seq > lastNode.seq}}

(* An order accepted in pause mode has not begun. *)
Suspended ==
    /\ \E n \in order.nodes : n.rel /\ IsFirst(order, n) /\ pausedNode = {n}
    /\ nodeStates = {NodeState(n) : n \in order.nodes}
    /\ edgeStates = {EdgeState(e) : e \in order.edges}
    /\ exec = {} /\ trav = <<>> /\ ~canceling /\ stops = 0

Canceling ==
    /\ canceling => \A a \in ActionId : actionStatus[a] # "WAITING"
    /\ stops <= 1
    /\ stops > 0 => canceling /\ exec = {}
    /\ pausedNode # {} => Suspended

Limits ==
    /\ "pause" \notin Instants /\ "button" \notin Adapter => ~paused /\ pausedNode = {}
    /\ "cancelOrder" \notin Instants => ~canceling /\ stops = 0

IInv ==
    /\ TypeOK
    /\ OrderShape(order)
    /\ UniqueActions(order)
    /\ Front(order, exec, trav, lastNode)
    /\ RunningExecutes
    /\ CancelFindsActions
    /\ HasActiveOrder /\ ~canceling /\ pausedNode = {} => Underway
    /\ trav # <<>> => HasActiveOrder \/ canceling
    /\ Canceling
    /\ Limits

-----------------------------------------------------------------------------
(* How far an order has come: with the contexts xs, the traversals ts and  *)
(* the last node p, the adapter is at the node or edge of sequence id      *)
(* Stage.                                                                  *)
Stage(xs, ts, p) == IF ts # <<>> \/ \E c \in xs : c.scope = "edge" THEN p.seq + 1 ELSE p.seq

All(x, status, st) == \A a \in ActionIdsOf(x) : st[a] = status

(* What comes later has not begun: the actions of nodes and edges ahead,   *)
(* and those after the group that is being executed.  All actions of the   *)
(* group of an edge have been dispatched; to the group of a node others    *)
(* may have been appended since.                                           *)
Ahead(o, xs, ts, p, st) ==
    /\ \A x \in Released(o) : x.seq > Stage(xs, ts, p) => All(x, "WAITING", st)
    /\ \A c \in xs :
           LET acts == c.at.acts  k == Position(acts, c.act)
           IN  \A i \in DOMAIN acts :
                   /\ i > k /\ i \notin Group(acts, k) => st[acts[i].id] = "WAITING"
                   /\ i \in Group(acts, k) /\ c.scope = "edge"
                          => st[acts[i].id] \in {"RUNNING", "ENDED"}

(* What comes before has ended: the actions of nodes and edges passed, and *)
(* those before the group that is being executed, all of which has been    *)
(* dispatched.  If the adapter has nothing left to do, the base has been   *)
(* traversed.                                                              *)
Behind(o, xs, ts, p, st) ==
    /\ \A x \in Released(o) :
           x.seq < Stage(xs, ts, p) \/ (xs = {} /\ x.seq = Stage(xs, ts, p)) => All(x, "ENDED", st)
    /\ \A c \in xs :
           LET acts == c.at.acts  k == Position(acts, c.act)
           IN  \A i \in DOMAIN acts :
                   /\ i < k /\ i \notin Group(acts, k) => st[acts[i].id] = "ENDED"
                   /\ i \in Group(acts, k) => st[acts[i].id] \in {"RUNNING", "ENDED"}
    /\ xs = {} /\ ts = <<>> => \A x \in Released(o) : x.seq # p.seq + 1

Proceeding == HasActiveOrder /\ ~canceling /\ pausedNode = {}

AheadWaits ==
    /\ Proceeding => Ahead(order, exec, trav, lastNode, actionStatus)
    /\ pausedNode # {} => \A x \in Released(order) : All(x, "WAITING", actionStatus)

(* An edge leads to each node of the order but the first. *)
Connected(o) == \A n \in o.nodes : IsFirst(o, n) \/ \E e \in o.edges : Leads(e, n)

BehindEnded ==
    /\ Connected(order)
    /\ \A a \in BaseActions(order) : actionStatus[a] # "ABSENT"
    /\ Proceeding => Behind(order, exec, trav, lastNode, actionStatus)
    /\ canceling /\ stops = 0 => exec # {}

(* The actions of the base are all reported. *)
Reported == \A a \in BaseActions(order) : actionStatus[a] # "ABSENT"

(* A step that stitches an order brings actions for its first node only as *)
(* long as the vehicle has not reached that node.                          *)
AppendsAhead ==
    \A o \in Orders : StitchOrder(o) =>
        \A first \in o.nodes : IsFirst(o, first) =>
            first.acts = <<>> \/ \E s \in nodeStates : Place(s) = Place(first)
=============================================================================
