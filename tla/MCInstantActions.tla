-------------------------- MODULE MCInstantActions --------------------------
(* Instances of InstantActions for TLC: the messages of each run. *)
EXTENDS InstantActions

Do(id, blk, type) == [id |-> id, blk |-> blk, type |-> type]

(* A cancelation request next to another action; the pause actions; a HARD *)
(* action before another; and actions of all blocking types in a message.  *)
FlowMessages == {
    <<Do("p1", "NONE", "startPause")>>,
    <<Do("p2", "NONE", "stopPause")>>,
    <<Do("c1", "SOFT", "cancelOrder"), Do("n3", "SOFT", "other")>>,
    <<Do("h2", "HARD", "other"), Do("r1", "HARD", "stateRequest")>>,
    <<Do("n1", "NONE", "other"), Do("h1", "HARD", "other"), Do("n2", "NONE", "other")>>}

(* A state request that has to wait, followed by another action. *)
RequestMessages == {
    <<Do("h1", "HARD", "other")>>,
    <<Do("r1", "NONE", "stateRequest")>>,
    <<Do("n1", "NONE", "other")>>}
=============================================================================
