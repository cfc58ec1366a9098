----------------------------- MODULE MCAgvOrder -----------------------------
(* Instances of AgvOrder for TLC: the order messages of each run. *)
EXTENDS AgvOrderInvariant

(* An order over the nodes ids, of which the first base are released, with *)
(* sequence ids from start; nacts and eacts give the actions of the nodes  *)
(* and edges that have some, by index.                                     *)
Route(orderId, upd, start, ids, base, nacts, eacts) ==
    LET Acts(f, i) == IF i \in DOMAIN f THEN f[i] ELSE <<>>
    IN  [orderId |-> orderId, upd |-> upd,
         nodes |-> {[seq |-> start + 2 * (i - 1), id |-> ids[i], rel |-> i <= base,
                     acts |-> Acts(nacts, i)] : i \in 1..Len(ids)},
         edges |-> {[seq |-> start + 2 * i - 1, rel |-> i + 1 <= base,
                     acts |-> Acts(eacts, i), from |-> ids[i], to |-> ids[i + 1]]
                       : i \in 1..(Len(ids) - 1)}]

Do(id, blk) == [id |-> id, blk |-> blk]

At(i, acts) == [j \in {i} |-> acts]
None == [j \in {} |-> <<>>]

(* A transport with parallel and HARD actions on a node, extended over its *)
(* horizon by a stitching order with an edge action and by an update after *)
(* completion; another order that may be stitched to it or start anew.     *)
FlowOrders == {
    Route("A", 0, 0, <<"n1", "n2", "n3">>, 2,
          At(2, <<Do("a1", "SOFT"), Do("a2", "NONE"), Do("a3", "HARD"), Do("a4", "SOFT")>>), None),
    Route("A", 1, 2, <<"n2", "n3">>, 2, At(2, <<Do("a6", "NONE")>>), At(1, <<Do("a5", "HARD")>>)),
    Route("A", 2, 4, <<"n3", "n1">>, 2, None, At(1, <<Do("a7", "SOFT")>>)),
    Route("B", 0, 2, <<"n2", "n1">>, 2, At(2, <<Do("a8", "HARD")>>), None)}

(* A base extended by an order with an action on its first node. *)
AppendOrders == {
    Route("A", 0, 0, <<"n1", "n2">>, 1, None, None),
    Route("A", 1, 0, <<"n1", "n2">>, 2, At(1, <<Do("a1", "SOFT")>>), None)}

=============================================================================
