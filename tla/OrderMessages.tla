---------------------------- MODULE OrderMessages ----------------------------
(***************************************************************************)
(* Order messages (interfaces Order, Node, Edge and Action of              *)
(* src/common/vda-5050-types.ts) as class AgvController uses them.         *)
(* The arrays of nodes and edges are sets: validated orders list them by   *)
(* ascending sequenceId.                                                   *)
(***************************************************************************)
EXTENDS Naturals, Sequences

CONSTANTS
    NodeId, ActionId, OrderId,
    NoOrder           \* orderId before any order has been accepted

Action == [id : ActionId, blk : {"NONE", "SOFT", "HARD"}]
Node == [id : NodeId, seq : Nat, rel : BOOLEAN, acts : Seq(Action)]
Edge == [from : NodeId, to : NodeId, seq : Nat, rel : BOOLEAN, acts : Seq(Action)]
Order == [orderId : OrderId \cup {NoOrder}, upd : Nat,
          nodes : SUBSET Node, edges : SUBSET Edge]

Base(o) == {n \in o.nodes : n.rel}
IsFirst(o, n) == n \in o.nodes /\ \A m \in o.nodes : n.seq <= m.seq
IsBaseEnd(o, n) == n \in Base(o) /\ \A m \in Base(o) : m.seq <= n.seq
Leads(e, n) == e.to = n.id /\ n.seq = e.seq + 1

(* What the controller relies on in the orders it executes: the base comes *)
(* before the horizon, and each edge leads from a node to the next one     *)
(* and is released if and only if that node is.  Module OrderValidation    *)
(* shows which of it _validateOrderConstraints establishes.                *)
WellFormed(o) ==
    /\ \E n \in o.nodes : IsFirst(o, n) /\ n.rel
    /\ \A m, n \in o.nodes : m.seq = n.seq => m = n
    /\ \A m, n \in o.nodes : m.seq < n.seq => m.seq + 2 <= n.seq
    /\ \A m, n \in o.nodes : n.rel /\ m.seq < n.seq => m.rel
    /\ \A e, f \in o.edges : e.seq = f.seq => e = f
    /\ \A e \in o.edges : \E m, n \in o.nodes :
           e.from = m.id /\ e.seq = m.seq + 1 /\ Leads(e, n) /\ e.rel = n.rel
    /\ \A n \in o.nodes : IsFirst(o, n) \/ \E e \in o.edges : Leads(e, n)

ActionIdsOf(x) == {x.acts[i].id : i \in DOMAIN x.acts}

(* Released nodes and edges, and their actions: those that are reported.   *)
Released(o) == {x \in o.nodes \cup o.edges : x.rel}
BaseActions(o) == UNION {ActionIdsOf(x) : x \in Released(o)}

(* The master control gives each action an id of its own. *)
UniqueActions(o) ==
    /\ \A x, y \in Released(o) : ActionIdsOf(x) \cap ActionIdsOf(y) # {} => x = y
    /\ \A x \in Released(o) : \A i, j \in DOMAIN x.acts :
           x.acts[i].id = x.acts[j].id => i = j
=============================================================================
