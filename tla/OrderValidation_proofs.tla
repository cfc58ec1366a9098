----------------------- MODULE OrderValidation_proofs -----------------------
(***************************************************************************)
(* What the loops of _validateOrderConstraints compute, for every order.   *)
(* The loop invariants state each array element in closed form, in terms   *)
(* of the first node's sequence id and of firstHorizonIndex, so that no    *)
(* induction over the arrays is needed.                                    *)
(***************************************************************************)
EXTENDS OrderValidation, TLAPS

(* The first k nodes have passed. *)
NodesChecked(k) ==
    /\ nodes # <<>> /\ nodes[1].rel
    /\ k > 0 => nodes[1].seq % 2 = 0
    /\ \A j \in 1..k : nodes[j].seq = nodes[1].seq + 2 * (j - 1)
    /\ \A j \in 1..k : nodes[j].rel <=> (horizon = 0 \/ j < horizon)
    /\ horizon <= k

(* The first k edges have passed. *)
EdgesChecked(k) ==
    /\ Len(edges) + 1 = Len(nodes)
    /\ \A j \in 1..k : /\ edges[j].seq = nodes[j].seq + 1
                       /\ edges[j].from = nodes[j].id /\ edges[j].to = nodes[j + 1].id
    /\ isBase => \A j \in 1..k : edges[j].rel
    /\ ~isBase => /\ horizon \in 2..(k + 1)
                  /\ \A j \in 1..k : edges[j].rel <=> j + 1 < horizon

LoopInv ==
    /\ TypeOK
    /\ phase = "start" => i = 1 /\ isBase /\ horizon = 0
    /\ phase = "nodes" => /\ i <= Len(nodes) + 1 /\ NodesChecked(i - 1)
                          /\ isBase <=> horizon = 0
    /\ phase = "edges" => /\ NodesChecked(Len(nodes))
                          /\ i <= Len(edges) + 1 /\ EdgesChecked(i - 1)
    /\ phase = "accepted" => NodesChecked(Len(nodes)) /\ EdgesChecked(Len(edges))
    /\ phase = "rejected" => ~Consistent(msg)

(* The loop invariant holds before the first check.                        *)
LEMMA InitLoopInv == Init => LoopInv
  BY MessagesAssumption DEF Init, LoopInv, TypeOK, nodes

(* The arrays and their elements are well-typed. *)
LEMMA ArrayTypes ==
  ASSUME LoopInv
  PROVE  /\ nodes \in Seq(Node) /\ edges \in Seq(Edge)
         /\ Len(nodes) \in Nat /\ DOMAIN nodes = 1..Len(nodes)
         /\ Len(edges) \in Nat /\ DOMAIN edges = 1..Len(edges)
         /\ i \in Nat /\ i # 0 /\ isBase \in BOOLEAN /\ horizon \in Nat
         /\ \A j \in 1..Len(nodes) : nodes[j].seq \in Nat /\ nodes[j].rel \in BOOLEAN
         /\ \A j \in 1..Len(edges) : edges[j].seq \in Nat /\ edges[j].rel \in BOOLEAN
<1>1. nodes \in Seq(Node) /\ edges \in Seq(Edge) /\ horizon \in 0..Len(nodes)
  BY DEF LoopInv, TypeOK, nodes, edges
<1>2. i \in Nat /\ i # 0 /\ isBase \in BOOLEAN
  BY DEF LoopInv, TypeOK
<1>3. /\ Len(nodes) \in Nat /\ DOMAIN nodes = 1..Len(nodes)
      /\ Len(edges) \in Nat /\ DOMAIN edges = 1..Len(edges)
  BY <1>1
<1>4. \A j \in 1..Len(nodes) : nodes[j] \in Node
  BY <1>1, <1>3
<1>5. \A j \in 1..Len(edges) : edges[j] \in Edge
  BY <1>1, <1>3
<1>6. \A j \in 1..Len(nodes) : nodes[j].seq \in Nat /\ nodes[j].rel \in BOOLEAN
  BY <1>4 DEF Node
<1>7. \A j \in 1..Len(edges) : edges[j].seq \in Nat /\ edges[j].rel \in BOOLEAN
  BY <1>5 DEF Edge
<1> QED  BY <1>1, <1>2, <1>3, <1>6, <1>7

(* Rejection of an order that is not consistent preserves the invariant.   *)
LEMMA RejectStep == ASSUME LoopInv, Reject, ~Consistent(msg) PROVE LoopInv'
<1>1. phase' = "rejected" /\ ~Consistent(msg')
  BY DEF Reject
<1>2. TypeOK'
  BY DEF LoopInv, TypeOK, Reject, nodes
<1> QED  BY <1>1, <1>2 DEF LoopInv

(* The check of the first node establishes the loop of the nodes.          *)
LEMMA FirstNodeStep == LoopInv /\ CheckFirstNode => LoopInv'
<1> SUFFICES ASSUME LoopInv, CheckFirstNode PROVE LoopInv'
  OBVIOUS
<1>1. TypeOK'
  BY DEF LoopInv, TypeOK, CheckFirstNode, Reject, nodes
<1>2. CASE nodes = <<>> \/ ~nodes[1].rel
  <2>1. ~Consistent(msg)
    BY <1>2 DEF Consistent, BaseFirst, nodes
  <2> QED  BY <1>2, <2>1, RejectStep DEF CheckFirstNode
<1>3. CASE ~(nodes = <<>> \/ ~nodes[1].rel)
  <2>1. phase' = "nodes" /\ UNCHANGED <<msg, i, isBase, horizon>>
    BY <1>3 DEF CheckFirstNode
  <2>2. i = 1 /\ isBase /\ horizon = 0 /\ Len(nodes) \in Nat
    BY DEF LoopInv, CheckFirstNode, TypeOK, nodes
  <2>3. NodesChecked(i - 1)'
    BY <1>3, <2>1, <2>2 DEF NodesChecked, nodes
  <2> QED  BY <1>1, <2>1, <2>2, <2>3 DEF LoopInv, nodes
<1> QED  BY <1>2, <1>3

(* An iteration over the nodes preserves the loop invariant.               *)
LEMMA NodeStep == LoopInv /\ CheckNode => LoopInv'
<1> SUFFICES ASSUME LoopInv, CheckNode PROVE LoopInv'
  OBVIOUS
<1>1. /\ i \in Nat /\ i # 0 /\ i <= Len(nodes) /\ Len(nodes) \in Nat
      /\ isBase \in BOOLEAN /\ horizon \in Nat /\ (isBase <=> horizon = 0)
      /\ NodesChecked(i - 1)
  BY ArrayTypes DEF LoopInv, CheckNode
<1>2. \A j \in 1..i : j \in DOMAIN nodes /\ nodes[j].seq \in Nat /\ nodes[j].rel \in BOOLEAN
  BY <1>1, ArrayTypes
<1>3. CASE BadSequenceId
  <2>1. ~Ascending(msg)
    <3>1. CASE i = 1 /\ nodes[i].seq % 2 # 0
      BY <3>1 DEF Ascending, nodes
    <3>2. CASE i > 1 /\ nodes[i].seq # nodes[i - 1].seq + 2
      <4>1. i - 1 \in 1..(i - 1) /\ nodes[i - 1].seq \in Nat /\ nodes[i].seq \in Nat
            /\ nodes[1].seq \in Nat
        BY <1>1, <1>2, <3>2
      <4>2. nodes[i - 1].seq = nodes[1].seq + 2 * ((i - 1) - 1)
        BY <1>1, <4>1 DEF NodesChecked
      <4>3. nodes[i].seq # nodes[1].seq + 2 * (i - 1)
        BY <1>1, <3>2, <4>1, <4>2
      <4>4. i \in DOMAIN msg.nodes /\ msg.nodes[i].seq # msg.nodes[1].seq + 2 * (i - 1)
        BY <1>1, <1>2, <4>3 DEF nodes
      <4> QED  BY <4>4 DEF Ascending
    <3> QED  BY <1>3, <3>1, <3>2 DEF BadSequenceId
  <2> QED  BY <1>3, <2>1, RejectStep DEF CheckNode, Consistent
<1>4. CASE ~isBase /\ nodes[i].rel
  <2>1. ~BaseFirst(msg)
    <3>1. horizon \in 1..(i - 1) /\ horizon \in DOMAIN nodes /\ i \in DOMAIN nodes
      BY <1>1, <1>2, <1>4 DEF NodesChecked
    <3>2. ~nodes[horizon].rel /\ horizon < i
      BY <1>1, <3>1 DEF NodesChecked
    <3> QED  BY <1>4, <3>1, <3>2 DEF BaseFirst, nodes
  <2> QED  BY <1>4, <2>1, RejectStep DEF CheckNode, Consistent
<1>5. CASE ~BadSequenceId /\ ~(~isBase /\ nodes[i].rel)
  <2>1. /\ i' = i + 1 /\ (isBase' = (isBase /\ nodes[i].rel)) /\ horizon' = FirstHorizon
        /\ msg' = msg /\ phase' = "nodes" /\ nodes' = nodes
    BY <1>5 DEF CheckNode, nodes
  <2>2. nodes[i].seq = nodes[1].seq + 2 * (i - 1)
    BY <1>1, <1>2, <1>5 DEF BadSequenceId, NodesChecked
  <2>3. nodes[1].seq % 2 = 0
    BY <1>1, <1>5 DEF BadSequenceId, NodesChecked
  <2>4. horizon' \in Nat /\ horizon' <= i /\ (isBase' <=> horizon' = 0) /\ isBase' \in BOOLEAN
    BY <1>1, <1>2, <2>1 DEF FirstHorizon, NodesChecked
  <2>5. \A j \in 1..i : nodes[j].rel <=> (horizon' = 0 \/ j < horizon')
    BY <1>1, <1>2, <1>5, <2>1 DEF FirstHorizon, NodesChecked
  <2>6. \A j \in 1..i : nodes[j].seq = nodes[1].seq + 2 * (j - 1)
    BY <1>1, <2>2 DEF NodesChecked
  <2>7. NodesChecked(i - 1)'
    BY <1>1, <2>1, <2>3, <2>4, <2>5, <2>6 DEF NodesChecked
  <2>8. TypeOK'
    BY <1>1, <2>1, <2>4 DEF LoopInv, TypeOK
  <2> QED  BY <1>1, <2>1, <2>4, <2>7, <2>8 DEF LoopInv
<1> QED  BY <1>3, <1>4, <1>5

(* The check of the lengths establishes the loop of the edges.             *)
LEMMA LengthsStep == LoopInv /\ CheckLengths => LoopInv'
<1> SUFFICES ASSUME LoopInv, CheckLengths PROVE LoopInv'
  OBVIOUS
<1>1. /\ i = Len(nodes) + 1 /\ Len(nodes) \in Nat /\ Len(edges) \in Nat
      /\ NodesChecked(Len(nodes))
  <2>1. i = Len(nodes) + 1 /\ Len(nodes) \in Nat /\ i - 1 = Len(nodes)
    BY ArrayTypes DEF LoopInv, CheckLengths
  <2> QED  BY ArrayTypes, <2>1 DEF LoopInv, CheckLengths
<1>2. CASE Len(edges) + 1 # Len(nodes)
  <2>1. ~Connected(msg)
    BY <1>2 DEF Connected, nodes, edges
  <2> QED  BY <1>2, <2>1, RejectStep DEF CheckLengths, Consistent
<1>3. CASE Len(edges) + 1 = Len(nodes)
  <2>1. /\ phase' = "edges" /\ i' = 1 /\ isBase' = TRUE /\ msg' = msg /\ horizon' = horizon
        /\ nodes' = nodes /\ edges' = edges
    BY <1>3 DEF CheckLengths, nodes, edges
  <2>2. NodesChecked(Len(nodes))'
    BY <1>1, <2>1 DEF NodesChecked
  <2>3. EdgesChecked(i - 1)'
    BY <1>1, <1>3, <2>1 DEF EdgesChecked
  <2>4. TypeOK'
    BY <2>1 DEF LoopInv, TypeOK
  <2> QED  BY <1>1, <2>1, <2>2, <2>3, <2>4 DEF LoopInv
<1> QED  BY <1>2, <1>3

(* An iteration over the edges preserves the loop invariant.               *)
LEMMA EdgeStep == LoopInv /\ CheckEdge => LoopInv'
<1> SUFFICES ASSUME LoopInv, CheckEdge PROVE LoopInv'
  OBVIOUS
<1>0. EdgesChecked(i - 1) /\ NodesChecked(Len(nodes)) /\ i <= Len(edges)
  BY DEF LoopInv, CheckEdge
<1>1. /\ i \in Nat /\ i # 0 /\ i <= Len(edges)
      /\ Len(nodes) \in Nat /\ Len(edges) \in Nat /\ isBase \in BOOLEAN /\ horizon \in Nat
      /\ NodesChecked(Len(nodes)) /\ EdgesChecked(i - 1) /\ Len(edges) + 1 = Len(nodes)
      /\ DOMAIN edges = 1..Len(edges) /\ DOMAIN nodes = 1..Len(nodes)
  <2>1. Len(edges) + 1 = Len(nodes)
    BY <1>0 DEF EdgesChecked
  <2> QED  BY <1>0, <2>1, ArrayTypes
<1>2. \A j \in 1..i : /\ j \in DOMAIN edges /\ edges[j].rel \in BOOLEAN
                     /\ j \in DOMAIN nodes /\ j + 1 \in DOMAIN nodes
                     /\ nodes[j].rel \in BOOLEAN /\ nodes[j + 1].rel \in BOOLEAN
  BY <1>1, ArrayTypes
<1>3. CASE \/ edges[i].seq # nodes[i].seq + 1
           \/ edges[i].from # nodes[i].id \/ edges[i].to # nodes[i + 1].id
  <2>1. i \in DOMAIN msg.edges
    <3>1. i \in DOMAIN edges
      BY <1>2, <1>1
    <3> QED  BY <3>1 DEF edges
  <2>2. ~Connected(msg)
    BY <1>3, <2>1 DEF Connected, nodes, edges
  <2> QED  BY <1>3, <2>2, RejectStep DEF CheckEdge, Consistent
<1>4. CASE BadRelease
  <2>1. CASE isBase
    <3>1. ~edges[i].rel /\ horizon # i + 1 /\ \A j \in 1..(i - 1) : edges[j].rel
      BY <1>1, <1>4, <2>1 DEF BadRelease, EdgesChecked
    <3>2. ASSUME \A j \in DOMAIN edges : edges[j].rel = nodes[j + 1].rel PROVE FALSE
      <4>1. ~nodes[i + 1].rel
        BY <1>1, <1>2, <3>1, <3>2
      <4>2. horizon # 0 /\ horizon <= i /\ horizon > 1
        <5>1. 1 \in 1..Len(nodes) /\ i + 1 \in 1..Len(nodes)
          BY <1>1
        <5>2. horizon = 0 \/ 1 < horizon
          BY <1>1, <5>1 DEF NodesChecked
        <5>3. ~(horizon = 0 \/ i + 1 < horizon)
          BY <1>1, <4>1, <5>1 DEF NodesChecked
        <5> QED  BY <1>1, <3>1, <5>2, <5>3
      <4>3. horizon - 1 \in 1..(i - 1) /\ (horizon - 1) + 1 = horizon
        BY <1>1, <4>2
      <4>4. edges[horizon - 1].rel /\ nodes[horizon].rel
        <5>1. edges[horizon - 1].rel /\ horizon - 1 \in DOMAIN edges
          BY <1>1, <3>1, <4>3
        <5>2. edges[horizon - 1].rel = nodes[(horizon - 1) + 1].rel
          BY <3>2, <5>1
        <5> QED  BY <4>3, <5>1, <5>2
      <4>5. ~nodes[horizon].rel
        BY <1>1, <4>2 DEF NodesChecked
      <4> QED  BY <4>4, <4>5
    <3>3. ~HorizonsAgree(msg)
      BY <3>2 DEF HorizonsAgree, nodes, edges
    <3> QED  BY <1>4, <3>3, RejectStep DEF CheckEdge, Consistent
  <2>2. CASE ~isBase
    <3>1. edges[i].rel /\ horizon \in 2..i
      BY <1>1, <1>4, <2>2 DEF BadRelease, EdgesChecked
    <3>2. ~nodes[i + 1].rel
      BY <1>1, <3>1 DEF NodesChecked
    <3>3. ~\A j \in DOMAIN edges : edges[j].rel = nodes[j + 1].rel
      BY <1>1, <1>2, <3>1, <3>2
    <3>4. ~HorizonsAgree(msg)
      BY <3>3 DEF HorizonsAgree, nodes, edges
    <3> QED  BY <1>4, <3>4, RejectStep DEF CheckEdge, Consistent
  <2> QED  BY <1>1, <2>1, <2>2
<1>5. CASE /\ edges[i].seq = nodes[i].seq + 1 /\ ~BadRelease
           /\ edges[i].from = nodes[i].id /\ edges[i].to = nodes[i + 1].id
  <2>1. /\ i' = i + 1 /\ (isBase' = (isBase /\ edges[i].rel))
        /\ msg' = msg /\ phase' = "edges" /\ horizon' = horizon
        /\ nodes' = nodes /\ edges' = edges
    BY <1>5 DEF CheckEdge, nodes, edges
  <2>2. NodesChecked(Len(nodes))'
    BY <1>1, <2>1 DEF NodesChecked
  <2>3. isBase' => \A j \in 1..i : edges[j].rel
    <3>1. isBase' => edges[i].rel /\ \A j \in 1..(i - 1) : edges[j].rel
      BY <1>1, <2>1 DEF EdgesChecked
    <3>2. \A j \in 1..i : j = i \/ j \in 1..(i - 1)
      BY <1>1
    <3> QED  BY <3>1, <3>2
  <2>4. ~isBase' => horizon \in 2..(i + 1) /\ \A j \in 1..i : edges[j].rel <=> j + 1 < horizon
    BY <1>1, <1>2, <1>5, <2>1 DEF EdgesChecked, BadRelease
  <2>5. \A j \in 1..i : /\ edges[j].seq = nodes[j].seq + 1
                       /\ edges[j].from = nodes[j].id /\ edges[j].to = nodes[j + 1].id
    BY <1>1, <1>5 DEF EdgesChecked
  <2>6. EdgesChecked(i - 1)'
    <3>1. (i + 1) - 1 = i
      BY <1>1
    <3> QED  BY <1>1, <2>1, <2>3, <2>4, <2>5, <3>1 DEF EdgesChecked
  <2>7. TypeOK'
    BY <1>1, <1>2, <2>1 DEF LoopInv, TypeOK
  <2> QED  BY <1>1, <2>1, <2>2, <2>6, <2>7 DEF LoopInv
<1> QED  BY <1>3, <1>4, <1>5

(* Acceptance preserves the loop invariant.                                *)
LEMMA AcceptStep == LoopInv /\ Accept => LoopInv'
<1> SUFFICES ASSUME LoopInv, Accept PROVE LoopInv'
  OBVIOUS
<1>1. /\ UNCHANGED <<msg, i, isBase, horizon>> /\ phase' = "accepted"
      /\ nodes' = nodes /\ edges' = edges
  BY DEF Accept, nodes, edges
<1>2. i - 1 = Len(edges) /\ NodesChecked(Len(nodes)) /\ EdgesChecked(i - 1)
  BY DEF LoopInv, Accept, TypeOK, edges
<1>3. NodesChecked(Len(nodes))' /\ EdgesChecked(Len(edges))'
  BY <1>1, <1>2 DEF NodesChecked, EdgesChecked
<1>4. TypeOK'
  BY <1>1 DEF LoopInv, TypeOK
<1> QED  BY <1>1, <1>3, <1>4 DEF LoopInv

(* The loop invariant holds throughout validation.                         *)
LEMMA LoopInvariance == Spec => []LoopInv
<1>1. ASSUME LoopInv, UNCHANGED vars PROVE LoopInv'
  <2>1. /\ msg' = msg /\ phase' = phase /\ i' = i /\ isBase' = isBase /\ horizon' = horizon
        /\ nodes' = nodes /\ edges' = edges
    BY <1>1 DEF vars, nodes, edges
  <2>2. TypeOK'
    BY <1>1, <2>1 DEF LoopInv, TypeOK
  <2>3. \A k : NodesChecked(k) => NodesChecked(k)'
    BY <2>1 DEF NodesChecked
  <2>4. \A k : EdgesChecked(k) => EdgesChecked(k)'
    BY <2>1 DEF EdgesChecked
  <2> QED
    BY <1>1, <2>1, <2>2, <2>3, <2>4 DEF LoopInv
<1>2. LoopInv /\ [Next]_vars => LoopInv'
  BY <1>1, FirstNodeStep, NodeStep, LengthsStep, EdgeStep, AcceptStep DEF Next
<1> QED  BY InitLoopInv, <1>2, PTL DEF Spec

(* At the end of both loops the order is known to be consistent, if no     *)
(* base edge leads into the horizon.                                       *)
LEMMA ConsistentAtEnd == LoopInv /\ phase = "accepted" /\ BaseEndsAtNode => Consistent(msg)
<1> SUFFICES ASSUME LoopInv, phase = "accepted", BaseEndsAtNode PROVE Consistent(msg)
  OBVIOUS
<1>0. NodesChecked(Len(nodes)) /\ EdgesChecked(Len(edges))
  BY DEF LoopInv
<1>1. /\ Len(nodes) \in Nat /\ Len(edges) \in Nat /\ horizon \in Nat
      /\ NodesChecked(Len(nodes)) /\ EdgesChecked(Len(edges))
      /\ Len(edges) + 1 = Len(nodes) /\ Len(nodes) > 0
      /\ DOMAIN edges = 1..Len(edges) /\ DOMAIN nodes = 1..Len(nodes)
  <2>1. Len(edges) + 1 = Len(nodes)
    BY <1>0 DEF EdgesChecked
  <2> QED  BY <1>0, <2>1, ArrayTypes
<1>2. Ascending(msg)
  <2>1. /\ nodes # <<>> /\ nodes[1].seq % 2 = 0
        /\ \A j \in DOMAIN nodes : nodes[j].seq = nodes[1].seq + 2 * (j - 1)
    BY <1>1 DEF NodesChecked
  <2> QED  BY <2>1 DEF Ascending, nodes
<1>3. BaseFirst(msg)
  <2>1. /\ nodes # <<>> /\ nodes[1].rel
        /\ \A j, k \in DOMAIN nodes : j < k /\ nodes[k].rel => nodes[j].rel
    BY <1>1 DEF NodesChecked
  <2> QED  BY <2>1 DEF BaseFirst, nodes
<1>4. Connected(msg)
  <2>1. \A j \in DOMAIN edges : /\ edges[j].seq = nodes[j].seq + 1
                               /\ edges[j].from = nodes[j].id /\ edges[j].to = nodes[j + 1].id
    BY <1>1 DEF EdgesChecked
  <2> QED  BY <1>1, <2>1 DEF Connected, nodes, edges
<1>5. HorizonsAgree(msg)
  <2>1. CASE isBase
    <3> SUFFICES \A j \in DOMAIN edges : edges[j].rel = nodes[j + 1].rel
      BY DEF HorizonsAgree, nodes, edges
    <3> TAKE j \in DOMAIN edges
    <3>1. j \in 1..Len(edges) /\ j + 1 \in 1..Len(nodes)
      BY <1>1
    <3>2. edges[j].rel \in BOOLEAN /\ nodes[j + 1].rel \in BOOLEAN
      BY <3>1, ArrayTypes
    <3>3. edges[j].rel /\ nodes[j + 1].rel
      BY <1>1, <2>1, <3>1 DEF EdgesChecked, BaseEndsAtNode
    <3> QED  BY <3>2, <3>3
  <2>2. CASE ~isBase
    <3> SUFFICES \A j \in DOMAIN edges : edges[j].rel = nodes[j + 1].rel
      BY DEF HorizonsAgree, nodes, edges
    <3> TAKE j \in DOMAIN edges
    <3>1. j \in 1..Len(edges) /\ j + 1 \in 1..Len(nodes) /\ horizon # 0
      BY <1>1, <2>2 DEF EdgesChecked
    <3>2. edges[j].rel \in BOOLEAN /\ nodes[j + 1].rel \in BOOLEAN
      BY <1>1, <3>1, ArrayTypes
    <3>3. edges[j].rel <=> nodes[j + 1].rel
      BY <1>1, <2>2, <3>1 DEF EdgesChecked, NodesChecked
    <3> QED  BY <3>2, <3>3
  <2> QED  BY <2>1, <2>2
<1> QED  BY <1>2, <1>3, <1>4, <1>5 DEF Consistent

(* The loops stay within the arrays and their variables keep their types.  *)
THEOREM TypeCorrectness == Spec => []TypeOK
<1>1. LoopInv => TypeOK
  BY DEF LoopInv
<1> QED  BY LoopInvariance, <1>1, PTL

(* _validateOrderConstraints refuses no consistent order, and accepts no   *)
(* other one but those whose base ends in an edge, however many nodes the  *)
(* order has.                                                              *)
THEOREM ValidationCorrect == Spec => []VerdictRight
<1>1. LoopInv => VerdictRight
  BY ConsistentAtEnd DEF LoopInv, VerdictRight
<1> QED  BY LoopInvariance, <1>1, PTL

(* What the controller executes: an accepted order whose base does not end *)
(* in an edge, taken as sets, satisfies the assumption of module AgvOrder. *)
THEOREM ValidatedOrders == Spec => []AcceptedWellFormed
<1>1. LoopInv => AcceptedWellFormed
  <2> SUFFICES ASSUME LoopInv, phase = "accepted", BaseEndsAtNode
               PROVE  WellFormed(AsSets)
    BY DEF AcceptedWellFormed
  <2>1. Consistent(msg)
    BY ConsistentAtEnd
  <2>2. /\ Len(nodes) \in Nat /\ DOMAIN nodes = 1..Len(nodes) /\ nodes # <<>>
        /\ Len(edges) \in Nat /\ DOMAIN edges = 1..Len(edges) /\ Len(edges) + 1 = Len(nodes)
        /\ nodes[1].seq \in Nat /\ nodes[1].rel /\ Len(nodes) > 0
    BY <2>1, ArrayTypes DEF Consistent, Connected, BaseFirst, nodes, edges
  <2>3. \A j \in 1..Len(nodes) : nodes[j].seq = nodes[1].seq + 2 * (j - 1)
    BY <2>1, <2>2 DEF Consistent, Ascending, nodes
  <2>4. \A j, k \in 1..Len(nodes) : j < k /\ nodes[k].rel => nodes[j].rel
    BY <2>1, <2>2 DEF Consistent, BaseFirst, nodes
  <2>5. \A j \in 1..Len(edges) :
            /\ edges[j].seq = nodes[j].seq + 1
            /\ edges[j].from = nodes[j].id /\ edges[j].to = nodes[j + 1].id
    BY <2>1, <2>2 DEF Consistent, Connected, nodes, edges
  <2>6. \A j \in 1..Len(edges) : edges[j].rel = nodes[j + 1].rel
    BY <2>1, <2>2 DEF Consistent, HorizonsAgree, nodes, edges
  <2> DEFINE o == AsSets
  <2>7. o.nodes = {nodes[j] : j \in 1..Len(nodes)} /\ o.edges = {edges[j] : j \in 1..Len(edges)}
    BY <2>2 DEF AsSets
  <2>8. \A j, k \in 1..Len(nodes) : nodes[j].seq < nodes[k].seq <=> j < k
    BY <2>2, <2>3
  <2>9. \A j, k \in 1..Len(nodes) : nodes[j].seq = nodes[k].seq => j = k
    BY <2>2, <2>3
  <2>10. IsFirst(o, nodes[1]) /\ nodes[1] \in o.nodes
    <3>1. 1 \in 1..Len(nodes) /\ \A k \in 1..Len(nodes) : nodes[1].seq <= nodes[k].seq
      BY <2>2, <2>3
    <3> QED  BY <2>7, <3>1 DEF IsFirst
  <2>11. \A m, n \in o.nodes : m.seq = n.seq => m = n
    BY <2>7, <2>9
  <2>12. \A m, n \in o.nodes : m.seq < n.seq => m.seq + 2 <= n.seq
    <3>1. \A j, k \in 1..Len(nodes) : nodes[j].seq < nodes[k].seq => nodes[j].seq + 2 <= nodes[k].seq
      <4> SUFFICES ASSUME NEW j \in 1..Len(nodes), NEW k \in 1..Len(nodes),
                          nodes[j].seq < nodes[k].seq
                   PROVE  nodes[j].seq + 2 <= nodes[k].seq
        OBVIOUS
      <4>1. j < k
        BY <2>8
      <4>2. /\ nodes[j].seq = nodes[1].seq + 2 * (j - 1)
            /\ nodes[k].seq = nodes[1].seq + 2 * (k - 1)
        BY <2>3
      <4> QED  BY <2>2, <4>1, <4>2
    <3> QED  BY <2>7, <3>1
  <2>13. \A m, n \in o.nodes : n.rel /\ m.seq < n.seq => m.rel
    BY <2>4, <2>7, <2>8
  <2>14. \A e, f \in o.edges : e.seq = f.seq => e = f
    <3>1. \A j, k \in 1..Len(edges) : edges[j].seq = edges[k].seq => j = k
      <4>1. \A j \in 1..Len(edges) : j \in 1..Len(nodes)
        BY <2>2
      <4>2. \A j \in 1..Len(edges) : edges[j].seq = nodes[1].seq + 2 * (j - 1) + 1
        BY <2>3, <2>5, <4>1
      <4> QED  BY <2>2, <4>2
    <3> QED  BY <2>7, <3>1
  <2>15. \A j \in 1..Len(edges) :
             /\ nodes[j] \in o.nodes /\ nodes[j + 1] \in o.nodes
             /\ nodes[j + 1].seq = edges[j].seq + 1
    <3> SUFFICES ASSUME NEW j \in 1..Len(edges)
                 PROVE  /\ nodes[j] \in o.nodes /\ nodes[j + 1] \in o.nodes
                        /\ nodes[j + 1].seq = edges[j].seq + 1
      OBVIOUS
    <3>1. j \in 1..Len(nodes) /\ j + 1 \in 1..Len(nodes)
      BY <2>2
    <3>2. nodes[j].seq = nodes[1].seq + 2 * (j - 1) /\ nodes[j + 1].seq = nodes[1].seq + 2 * ((j + 1) - 1)
      BY <2>3, <3>1
    <3>3. edges[j].seq = nodes[j].seq + 1
      BY <2>5
    <3>4. nodes[j + 1].seq = edges[j].seq + 1
      BY <2>2, <3>2, <3>3
    <3>5. nodes[j] \in o.nodes /\ nodes[j + 1] \in o.nodes
      BY <2>7, <3>1
    <3> QED  BY <3>4, <3>5
  <2>16. \A e \in o.edges : \E m, n \in o.nodes :
             e.from = m.id /\ e.seq = m.seq + 1 /\ Leads(e, n) /\ e.rel = n.rel
    <3> SUFFICES ASSUME NEW e \in o.edges
                 PROVE  \E m, n \in o.nodes : /\ e.from = m.id /\ e.seq = m.seq + 1
                                             /\ Leads(e, n) /\ e.rel = n.rel
      OBVIOUS
    <3>1. PICK j \in 1..Len(edges) : e = edges[j]
      BY <2>7
    <3>2. /\ nodes[j] \in o.nodes /\ nodes[j + 1] \in o.nodes
          /\ e.from = nodes[j].id /\ e.seq = nodes[j].seq + 1
          /\ Leads(e, nodes[j + 1]) /\ e.rel = nodes[j + 1].rel
      BY <2>5, <2>6, <2>15, <3>1 DEF Leads
    <3> QED  BY <3>2
  <2>17. \A n \in o.nodes : IsFirst(o, n) \/ \E e \in o.edges : Leads(e, n)
    <3> SUFFICES ASSUME NEW k \in 1..Len(nodes), k # 1
                 PROVE  \E e \in o.edges : Leads(e, nodes[k])
      BY <2>7, <2>10
    <3>1. k - 1 \in 1..Len(edges) /\ (k - 1) + 1 = k
      BY <2>2
    <3>2. Leads(edges[k - 1], nodes[k])
      BY <2>5, <2>15, <3>1 DEF Leads
    <3> QED  BY <2>7, <3>1, <3>2
  <2> QED  BY <2>2, <2>10, <2>11, <2>12, <2>13, <2>14, <2>16, <2>17 DEF WellFormed
<1> QED  BY LoopInvariance, <1>1, PTL
=============================================================================
