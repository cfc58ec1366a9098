-------------------------- MODULE MCOrderValidation --------------------------
(* Orders for TLC: up to three nodes with all sequence ids up to 5 that    *)
(* are near the right ones, every choice of what is released, and edges    *)
(* that do or do not connect the nodes.                                    *)
EXTENDS OrderValidation

Ids == <<"n1", "n2", "n1">>

NodesOf(k) ==
    {f \in [1..k -> [id : {"n1", "n2"}, seq : 0..5, rel : BOOLEAN, acts : {<<>>}]] :
        \A j \in 1..k : f[j].id = Ids[j] /\ f[j].seq \in {2 * j - 2, 2 * j - 1, 2 * j}}

EdgesOf(k) ==
    {f \in [1..k -> [from : {"n1", "n2"}, to : {"n1", "n2"}, seq : 1..4, rel : BOOLEAN,
                     acts : {<<>>}]] :
        \A j \in 1..k : f[j].from = Ids[j] /\ f[j].seq \in {2 * j - 1, 2 * j}}

Candidates ==
    {[nodes |-> ns, edges |-> es] : ns \in NodesOf(0), es \in EdgesOf(0)}
        \cup {[nodes |-> ns, edges |-> es] : ns \in NodesOf(2), es \in EdgesOf(0) \cup EdgesOf(1)}
        \cup {[nodes |-> ns, edges |-> es] : ns \in NodesOf(3), es \in EdgesOf(2)}
=============================================================================
