--------------------------- MODULE OrderLifecycle ---------------------------
(***************************************************************************)
(* What an AGV promises about the execution of orders, without actions,    *)
(* edges, pause mode and adapter: a vehicle works on one order at a time,  *)
(* visits the released nodes in the order of their sequence ids without    *)
(* leaving one out, and once an order is over it stays over until another  *)
(* one is accepted.  AgvOrder implements this specification.               *)
(***************************************************************************)
EXTENDS Naturals

VARIABLES
    phase,   \* "idle", "active" or "canceling"
    todo     \* sequence ids of the released nodes not yet visited

vars == <<phase, todo>>

Init == phase = "idle" /\ todo = {}

(* An order is accepted; its first node may be visited at once. *)
Accept ==
    /\ phase = "idle" /\ phase' = "active"
    /\ todo' \subseteq Nat

(* The base is extended beyond the nodes it has. *)
Extend ==
    /\ phase = "active" /\ phase' = "active"
    /\ todo \subseteq todo'
    /\ todo' \subseteq Nat
    /\ \A s \in todo, t \in todo' \ todo : s < t

(* The next node is visited.  It may be the last thing to be done. *)
Visit ==
    /\ phase = "active"
    /\ \E s \in todo : (\A t \in todo : s <= t) /\ todo' = todo \ {s}
    /\ phase' = "active" \/ (phase' = "idle" /\ todo' = {})

Complete ==
    /\ phase = "active" /\ todo = {}
    /\ phase' = "idle" /\ UNCHANGED todo

Cancel ==
    /\ phase = "active" /\ phase' = "canceling"
    /\ UNCHANGED todo

(* Only the node the vehicle is driving to is left. *)
Shorten ==
    /\ phase = "canceling" /\ phase' = "canceling"
    /\ todo' \subseteq todo
    /\ \A s, t \in todo' : s = t

Canceled ==
    /\ phase = "canceling" /\ phase' = "idle"
    /\ todo' = {}

Next == Accept \/ Extend \/ Visit \/ Complete \/ Cancel \/ Shorten \/ Canceled

Spec == Init /\ [][Next]_vars

(* A cancelation comes to its end; an order need not: it may have a horizon. *)
FairSpec == Spec /\ WF_vars(Canceled)
=============================================================================
