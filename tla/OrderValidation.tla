--------------------------- MODULE OrderValidation ---------------------------
(***************************************************************************)
(* AgvController._validateOrderConstraints                                 *)
(* (src/controller/agv-controller.ts): the two loops over the nodes and    *)
(* the edges of a received order.  One step is one iteration; the message  *)
(* is fixed, and what the loops leave behind is a verdict.  Array indices  *)
(* start at 1.                                                             *)
(***************************************************************************)
EXTENDS OrderMessages

CONSTANT Messages     \* the nodes and edges of the orders that may be received

ASSUME MessagesAssumption ==
    Messages \subseteq [nodes : Seq(Node), edges : Seq(Edge)]

VARIABLES
    msg,       \* the order being checked
    phase,     \* which loop runs, or the verdict
    i,         \* the loop's index
    isBase,    \* have only base nodes (edges) been met so far?
    horizon    \* firstHorizonIndex, 0 if there is none

vars == <<msg, phase, i, isBase, horizon>>

nodes == msg.nodes
edges == msg.edges

TypeOK ==
    /\ msg \in [nodes : Seq(Node), edges : Seq(Edge)]
    /\ phase \in {"start", "nodes", "edges", "accepted", "rejected"}
    /\ i \in Nat \ {0}
    /\ isBase \in BOOLEAN
    /\ horizon \in 0..Len(nodes)

Reject == phase' = "rejected" /\ UNCHANGED <<msg, i, isBase, horizon>>

CheckFirstNode ==
    /\ phase = "start"
    /\ IF nodes = <<>> \/ ~nodes[1].rel THEN Reject
       ELSE phase' = "nodes" /\ UNCHANGED <<msg, i, isBase, horizon>>

BadSequenceId ==
    \/ i = 1 /\ nodes[i].seq % 2 # 0
    \/ i > 1 /\ nodes[i].seq # nodes[i - 1].seq + 2

FirstHorizon == IF isBase /\ ~nodes[i].rel THEN i ELSE horizon

CheckNode ==
    /\ phase = "nodes" /\ i <= Len(nodes)
    /\ IF BadSequenceId \/ (~isBase /\ nodes[i].rel) THEN Reject
       ELSE /\ i' = i + 1
            /\ isBase' = (isBase /\ nodes[i].rel)
            /\ horizon' = FirstHorizon
            /\ UNCHANGED <<msg, phase>>

CheckLengths ==
    /\ phase = "nodes" /\ i > Len(nodes)
    /\ IF Len(edges) + 1 # Len(nodes) THEN Reject
       ELSE phase' = "edges" /\ i' = 1 /\ isBase' = TRUE /\ UNCHANGED <<msg, horizon>>

WrongBadRelease == edges[i].rel /\ ~isBase

(* Is the i-th edge released after one of the horizon, or the first one    *)
(* that is not, without leading to the first horizon node?                 *)
BadRelease == IF isBase THEN ~edges[i].rel /\ horizon # i + 1 ELSE edges[i].rel

CheckEdge ==
    /\ phase = "edges" /\ i <= Len(edges)
    /\ IF \/ edges[i].seq # nodes[i].seq + 1
          \/ BadRelease
          \/ edges[i].from # nodes[i].id \/ edges[i].to # nodes[i + 1].id
       THEN Reject
       ELSE /\ i' = i + 1
            /\ isBase' = (isBase /\ edges[i].rel)
            /\ UNCHANGED <<msg, phase, horizon>>

Accept ==
    /\ phase = "edges" /\ i > Len(edges)
    /\ phase' = "accepted"
    /\ UNCHANGED <<msg, i, isBase, horizon>>

Init ==
    /\ msg \in Messages
    /\ phase = "start" /\ i = 1 /\ isBase = TRUE /\ horizon = 0

Next == CheckFirstNode \/ CheckNode \/ CheckLengths \/ CheckEdge \/ Accept

Spec == Init /\ [][Next]_vars
-----------------------------------------------------------------------------
(* The demands on an order, without loops. *)

Ascending(m) ==
    /\ m.nodes # <<>> /\ m.nodes[1].seq % 2 = 0
    /\ \A j \in DOMAIN m.nodes : m.nodes[j].seq = m.nodes[1].seq + 2 * (j - 1)

BaseFirst(m) ==
    /\ m.nodes # <<>> /\ m.nodes[1].rel
    /\ \A j, k \in DOMAIN m.nodes : j < k /\ m.nodes[k].rel => m.nodes[j].rel

Connected(m) ==
    /\ Len(m.edges) + 1 = Len(m.nodes)
    /\ \A j \in DOMAIN m.edges :
           /\ m.edges[j].seq = m.nodes[j].seq + 1
           /\ m.edges[j].from = m.nodes[j].id /\ m.edges[j].to = m.nodes[j + 1].id

(* Base edges lead to base nodes, and the others to those of the horizon.  *)
HorizonsAgree(m) == \A j \in DOMAIN m.edges : m.edges[j].rel = m.nodes[j + 1].rel

Consistent(m) == Ascending(m) /\ BaseFirst(m) /\ Connected(m) /\ HorizonsAgree(m)

(* _validateOrderConstraints: "Check if all base edges are specified       *)
(* before horizon edges and match the given nodes order."  An order that   *)
(* is accepted is consistent.  The code violates it: released edges are    *)
(* not compared with the horizon of the nodes.                             *)
AcceptedConsistent == phase = "accepted" => Consistent(msg)

(* What the code does not check: that no base edge leads into the horizon. *)
BaseEndsAtNode == \A j \in DOMAIN edges : edges[j].rel => nodes[j + 1].rel

(* No consistent order is refused, and the loops accept an order that is   *)
(* not consistent only if its base ends in an edge.                        *)
VerdictRight ==
    /\ phase = "accepted" /\ BaseEndsAtNode => Consistent(msg)
    /\ phase = "rejected" => ~Consistent(msg)

(* The order as module AgvOrder sees it. *)
AsSets == [nodes |-> {nodes[j] : j \in DOMAIN nodes}, edges |-> {edges[j] : j \in DOMAIN edges}]

(* An accepted order whose base does not end in an edge is one that module *)
(* AgvOrder assumes: _processNode, _processEdge and _acceptOrder rely on   *)
(* the order of nodes and edges without looking at it again.               *)
AcceptedWellFormed == phase = "accepted" /\ BaseEndsAtNode => WellFormed(AsSets)

=============================================================================
