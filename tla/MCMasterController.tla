------------------------- MODULE MCMasterController -------------------------
(* Instances of MasterController for TLC: the order messages of each run.   *)
EXTENDS MasterController

(* An order over the nodes ids, of which the first base are released, with *)
(* sequence ids from start; nacts and eacts give the actions of the nodes  *)
(* and edges that have some, by index.                                     *)
Route(orderId, upd, start, ids, base, nacts, eacts) ==
    LET Acts(f, i) == IF i \in DOMAIN f THEN f[i] ELSE <<>>
    IN  [orderId |-> orderId, upd |-> upd,
         nodes |-> {[seq |-> start + 2 * (i - 1), id |-> ids[i], rel |-> i <= base,
                     acts |-> Acts(nacts, i)] : i \in 1..Len(ids)},
         edges |-> {[seq |-> start + 2 * i - 1, rel |-> i + 1 <= base,
                     acts |-> Acts(eacts, i), from |-> ids[i], to |-> ids[i + 1]]
                       : i \in 1..(Len(ids) - 1)}]

Do(id, blk) == [id |-> id, blk |-> blk]

At(i, acts) == [j \in {i} |-> acts]
None == [j \in {} |-> <<>>]

(* An order with a horizon, its extension to another horizon and the       *)
(* extension of that; and another order that may follow them.              *)
MasterOrders == {
    Route("A", 0, 0, <<"n1", "n2", "n3">>, 2, At(2, <<Do("a1", "SOFT")>>), None),
    Route("A", 1, 2, <<"n2", "n3", "n1">>, 2, At(2, <<Do("a3", "NONE")>>), At(1, <<Do("a2", "HARD")>>)),
    Route("A", 2, 4, <<"n3", "n1">>, 2, At(2, <<Do("a4", "SOFT")>>), None),
    Route("B", 0, 4, <<"n3", "n2">>, 2, None, None)}
=============================================================================
