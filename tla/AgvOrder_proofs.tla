-------------------------- MODULE AgvOrder_proofs --------------------------
(***************************************************************************)
(* Proofs about AgvOrder: the invariant IInv of AgvOrderInvariant is       *)
(* inductive, and implies the safety properties of order execution.  Then  *)
(* proofs about its steps: the vehicle is never reported at a node it has  *)
(* not been led to, statuses only move forward, AgvOrder implements        *)
(* OrderLifecycle, and an order to which no actions are appended while it  *)
(* is executed never hangs.  Last, what a report tells of the next one,    *)
(* which module MasterController relies on.                                *)
(***************************************************************************)
EXTENDS AgvOrderInvariant, TLAPS, WellFoundedInduction

Traversal == [edge : Edge, to : Node]

(* A node or an edge whose actions may be executed while p is the last     *)
(* node reached.                                                           *)
Site(o, scope, x, p) ==
    \/ scope = "node" /\ x \in Node /\ x.rel /\ x \in o.nodes /\ Place(x) = p
    \/ /\ scope = "edge" /\ x \in Edge /\ x.rel /\ x \in o.edges
       /\ x.from = p.id /\ x.seq = p.seq + 1

UniqueIds(acts) == \A i, j \in DOMAIN acts : acts[i].id = acts[j].id => i = j

(* A set of actions executed together: in parallel, or one HARD action.    *)
Together(acts, I) ==
    /\ I \subseteq DOMAIN acts
    /\ \A i, j \in I : i = j \/ j \in Group(acts, i)
    /\ \A i \in I : acts[i].blk = "NONE" /\ (\A j \in DOMAIN acts : j > i => acts[j].blk # "HARD")
                        => I = {i}

-----------------------------------------------------------------------------
(* Lemmas about the operators of AgvOrder. *)

(* An action of a list is found at its own position. *)
LEMMA PositionOfAction ==
    ASSUME NEW acts \in Seq(Action), UniqueIds(acts), NEW i \in DOMAIN acts
    PROVE  Position(acts, acts[i].id) = i
<1>1. acts[i].id = acts[i].id /\ \A j \in 1..(i - 1) : acts[j].id # acts[i].id
  BY DEF UniqueIds
<1>2. \A k \in DOMAIN acts : acts[k].id = acts[i].id => k = i
  BY DEF UniqueIds
<1> QED
  BY <1>1, <1>2 DEF Position

(* An action that is in a list has a position there. *)
LEMMA PositionExists ==
    ASSUME NEW acts \in Seq(Action), UniqueIds(acts), NEW a,
           \E i \in DOMAIN acts : acts[i].id = a
    PROVE  Position(acts, a) \in DOMAIN acts /\ acts[Position(acts, a)].id = a
<1>1. PICK i \in DOMAIN acts : acts[i].id = a
  OBVIOUS
<1> QED
  BY <1>1, PositionOfAction

(* The actions executed next form a group, or are one HARD action. *)
LEMMA ChunkTogether ==
    ASSUME NEW acts \in Seq(Action), NEW k \in 0..Len(acts), LoneNone(acts)
    PROVE  Together(acts, Chunk(acts, k))
<1>1. CASE k < Len(acts) /\ acts[k + 1].blk = "HARD"
  <2>1. Chunk(acts, k) = {k + 1} /\ k + 1 \in DOMAIN acts
    BY <1>1 DEF Chunk
  <2> QED
    BY <1>1, <2>1 DEF Together
<1>2. CASE ~(k < Len(acts) /\ acts[k + 1].blk = "HARD")
  <2> DEFINE I == {i \in (k + 1)..Len(acts) : \A j \in (k + 1)..i : acts[j].blk # "HARD"}
  <2>1. Chunk(acts, k) = I
    BY <1>2 DEF Chunk
  <2>2. I \subseteq DOMAIN acts
    OBVIOUS
  <2>3. \A i, j \in I : j \in Group(acts, i)
    BY <2>2 DEF Group
  <2>4. ASSUME NEW i \in I, acts[i].blk = "NONE",
               \A j \in DOMAIN acts : j > i => acts[j].blk # "HARD"
        PROVE  I = {i}
    BY <2>2, <2>3, <2>4 DEF LoneNone
  <2> QED
    BY <2>1, <2>2, <2>3, <2>4 DEF Together
<1> QED
  BY <1>1, <1>2

(* Contexts for actions that execute together are in front. *)
LEMMA ContextsInFront ==
    ASSUME NEW o, NEW scope, NEW x, NEW p, NEW I,
           Site(o, scope, x, p), UniqueIds(x.acts), Together(x.acts, I)
    PROVE  Front(o, Contexts(scope, x, I), <<>>, p)
<1> DEFINE acts == x.acts
           X == Contexts(scope, x, I)
<1>1. acts \in Seq(Action) /\ x.rel
  BY DEF Site, Node, Edge
<1>2. \A c \in X : \E i \in I : c = [act |-> acts[i].id, scope |-> scope, at |-> x]
  BY DEF Contexts
<1>3. \A i \in I : i \in DOMAIN acts /\ acts[i] \in Action /\ acts[i].id \in ActionId
                      /\ Position(acts, acts[i].id) = i
  <2> TAKE i \in I
  <2>1. i \in DOMAIN acts
    BY DEF Together
  <2>2. acts[i] \in Action /\ acts[i].id \in ActionId
    <3>1. acts[i] \in Action
      BY <1>1, <2>1
    <3> QED
      BY <3>1 DEF Action
  <2>3. Position(acts, acts[i].id) = i
    BY <1>1, <2>1, PositionOfAction
  <2> QED
    BY <2>1, <2>2, <2>3
<1>4. ASSUME NEW c \in X PROVE InFront(o, c, p)
  <2>1. PICK i \in I : c = [act |-> acts[i].id, scope |-> scope, at |-> x]
    BY <1>2
  <2>2. c.act \in ActionIdsOf(c.at)
    BY <1>3, <2>1 DEF ActionIdsOf
  <2>3. c \in Context
    BY <1>3, <2>1 DEF Context, Site
  <2> QED
    BY <2>1, <2>2, <2>3 DEF InFront, Site
<1>5. ASSUME NEW c \in X, NEW d \in X
      PROVE  Parallel(c, d) /\ (Trailing(c) => c = d)
  <2>1. PICK i \in I : c = [act |-> acts[i].id, scope |-> scope, at |-> x]
    BY <1>2
  <2>2. PICK j \in I : d = [act |-> acts[j].id, scope |-> scope, at |-> x]
    BY <1>2
  <2>3. Position(c.at.acts, c.act) = i /\ Position(c.at.acts, d.act) = j
    BY <1>3, <2>1, <2>2
  <2>4. Parallel(c, d)
    BY <2>1, <2>2, <2>3 DEF Parallel, Together
  <2>5. ASSUME Trailing(c) PROVE c = d
    <3>1. I = {i}
      BY <2>1, <2>3, <2>5 DEF Trailing, Together
    <3> QED
      BY <2>1, <2>2, <3>1
  <2> QED
    BY <2>4, <2>5
<1> QED
  BY <1>4, <1>5 DEF Front

(* Driving along the trailing edge of p. *)
LEMMA TraverseInFront ==
    ASSUME NEW o \in Order, OrderShape(o), NEW p, NEW e, Site(o, "edge", e, p)
    PROVE  LET w == Traverse(o, e) IN
           w.run = {} /\ w.drive \in Seq(Traversal) /\ Front(o, w.run, w.drive, p)
<1> DEFINE n == CHOOSE m \in o.nodes : Leads(e, m)
           t == [edge |-> e, to |-> n]
<1>1. e \in Edge /\ e.rel /\ e \in o.edges /\ e.from = p.id /\ e.seq = p.seq + 1
  BY DEF Site
<1>2. \E m \in o.nodes : Leads(e, m)
  BY <1>1 DEF OrderShape
<1>3. n \in o.nodes /\ Leads(e, n)
  BY <1>2
<1>4. n \in Node
  BY <1>3 DEF Order
<1>5. t \in Traversal /\ InFrontEdge(o, t, p)
  BY <1>1, <1>3, <1>4 DEF InFrontEdge, Traversal
<1>6. Traverse(o, e).run = {} /\ Traverse(o, e).drive = <<t>>
  BY DEF Traverse
<1>7. <<t>> \in Seq(Traversal) /\ <<t>>[1] = t
  BY <1>5
<1> QED
  BY <1>5, <1>6, <1>7 DEF Front

(* What follows position k of the actions of an edge, or of a node, and    *)
(* what follows a node when its actions have been dealt with.              *)
LEMMA EdgeWorkInFront ==
    ASSUME NEW o \in Order, OrderShape(o), NEW p, NEW e, Site(o, "edge", e, p),
           UniqueIds(e.acts), LoneNone(e.acts), NEW k \in 0..Len(e.acts)
    PROVE  LET w == EdgeWork(o, e, k) IN
           w.drive \in Seq(Traversal) /\ Front(o, w.run, w.drive, p)
<1>1. e.acts \in Seq(Action)
  BY DEF Site, Edge
<1>2. Together(e.acts, Chunk(e.acts, k))
  BY <1>1, ChunkTogether
<1>3. Front(o, Contexts("edge", e, Chunk(e.acts, k)), <<>>, p)
  BY <1>2, ContextsInFront
<1> QED
  BY <1>3, TraverseInFront DEF EdgeWork

(* With no handler invoked, nothing more is in front of the adapter.       *)
LEMMA NothingInFront ==
    ASSUME NEW o, NEW p
    PROVE  NoWork.drive \in Seq(Traversal) /\ Front(o, NoWork.run, NoWork.drive, p)
           /\ Front(o, {}, <<>>, p)
BY DEF NoWork, Front

(* _processEdge invokes handlers for the edge in front of its node only.   *)
LEMMA ProcessEdgeInFront ==
    ASSUME NEW o \in Order, OrderShape(o), UniqueActions(o),
           \A x \in Released(o) : LoneNone(x.acts),
           NEW n, NEW p, Place(n) = p
    PROVE  LET w == ProcessEdge(o, n) IN
           w.drive \in Seq(Traversal) /\ Front(o, w.run, w.drive, p)
<1>1. CASE TrailingEdges(o, n) = {}
  BY <1>1, NothingInFront DEF ProcessEdge
<1>2. CASE TrailingEdges(o, n) # {}
  <2> DEFINE e == CHOOSE f \in TrailingEdges(o, n) : TRUE
  <2>1. e \in TrailingEdges(o, n)
    BY <1>2
  <2>2. e \in o.edges /\ e.rel /\ e.from = p.id /\ e.seq = p.seq + 1
    BY <2>1 DEF TrailingEdges, Place
  <2>3. e \in Edge /\ Site(o, "edge", e, p)
    BY <2>2 DEF Site, Order
  <2> HIDE DEF e
  <2>4. e \in Released(o) /\ UniqueIds(e.acts) /\ LoneNone(e.acts)
    <3>1. e \in Released(o)
      BY <2>2 DEF Released
    <3> QED
      BY <3>1 DEF UniqueActions, UniqueIds
  <2>5. 0 \in 0..Len(e.acts)
    BY <2>3 DEF Edge
  <2>6. ProcessEdge(o, n) = EdgeWork(o, e, 0)
    BY <1>2 DEF ProcessEdge, e
  <2> QED
    BY <2>3, <2>4, <2>5, <2>6, EdgeWorkInFront
<1> QED
  BY <1>1, <1>2

(* _processNodeActions invokes handlers for its node or the next edge.     *)
LEMMA NodeWorkInFront ==
    ASSUME NEW o \in Order, OrderShape(o), UniqueActions(o),
           \A x \in Released(o) : LoneNone(x.acts),
           NEW n \in o.nodes, n.rel, NEW p, Place(n) = p, NEW k \in 0..Len(n.acts)
    PROVE  LET w == NodeWork(o, n, k) IN
           w.drive \in Seq(Traversal) /\ Front(o, w.run, w.drive, p)
<1>1. n \in Node /\ Site(o, "node", n, p)
  BY DEF Order, Site
<1>2. n \in Released(o) /\ UniqueIds(n.acts) /\ LoneNone(n.acts)
  BY DEF Released, UniqueActions, UniqueIds
<1>3. Together(n.acts, Chunk(n.acts, k))
  BY <1>1, <1>2, ChunkTogether DEF Node
<1>4. Front(o, Contexts("node", n, Chunk(n.acts, k)), <<>>, p)
  BY <1>1, <1>2, <1>3, ContextsInFront
<1> QED
  BY <1>4, ProcessEdgeInFront DEF NodeWork

(* When an action ends, processing goes on only if no other one executes.  *)
LEMMA ContinuationInFront ==
    ASSUME NEW o \in Order, OrderShape(o), UniqueActions(o),
           \A x \in Released(o) : LoneNone(x.acts),
           NEW xs, NEW p, Front(o, xs, <<>>, p), NEW c \in xs,
           NEW st, \A d \in xs \ {c} : st[d.act] # "ENDED"
    PROVE  LET w == Continuation(o, c, st) IN
           /\ w.drive \in Seq(Traversal) /\ Front(o, w.run, w.drive, p)
           /\ w = NoWork \/ xs = {c}
<1> DEFINE acts == c.at.acts
           k == Position(acts, c.act)
           More(j) == IF c.scope = "node" THEN NodeWork(o, c.at, j) ELSE EdgeWork(o, c.at, j)
           Ended(I) == \A i \in I : st[acts[i].id] = "ENDED"
           Later == {h \in DOMAIN acts : h > k /\ acts[h].blk = "HARD"}
           NextHard == {h \in Later : \A g \in Later : h <= g}
           Proceed == IF c.scope = "node" THEN ProcessEdge(o, c.at) ELSE Traverse(o, c.at)
           Dispatch == [run |-> Contexts(c.scope, c.at, NextHard), drive |-> <<>>]
           w == Continuation(o, c, st)
<1>1. InFront(o, c, p) /\ c \in Context
  BY DEF Front, InFront
<1>2. /\ c.at.rel /\ acts \in Seq(Action)
      /\ c.scope = "node" => c.at \in o.nodes /\ Place(c.at) = p
      /\ c.scope # "node" => c.scope = "edge" /\ c.at \in o.edges
      /\ Site(o, c.scope, c.at, p)
  BY <1>1 DEF InFront, Context, Node, Edge, Site
<1>3. UniqueIds(acts) /\ LoneNone(acts)
  <2>1. c.at \in Released(o)
    BY <1>2 DEF Released
  <2> QED
    BY <2>1 DEF UniqueActions, UniqueIds
<1>4. k \in DOMAIN acts /\ k \in 0..Len(acts) /\ acts[k].id = c.act
  <2>1. \E i \in DOMAIN acts : acts[i].id = c.act
    BY <1>1 DEF InFront, ActionIdsOf
  <2> HIDE DEF acts
  <2>2. k \in DOMAIN acts /\ acts[k].id = c.act
    BY <1>2, <1>3, <2>1, PositionExists
  <2> QED
    BY <1>2, <2>2
<1>5. ASSUME NEW d \in xs, d # c
      PROVE  \E j \in Group(acts, k) :
                /\ j \in DOMAIN acts /\ acts[j].id = d.act /\ st[acts[j].id] # "ENDED"
                /\ j = Position(d.at.acts, d.act) /\ d.at = c.at
  <2>1. Parallel(c, d) /\ InFront(o, d, p)
    BY DEF Front
  <2>2. d.at = c.at /\ Position(acts, d.act) \in Group(acts, k)
    BY <1>5, <2>1 DEF Parallel
  <2>3. \E i \in DOMAIN acts : acts[i].id = d.act
    BY <2>1, <2>2 DEF InFront, ActionIdsOf
  <2>4. Position(acts, d.act) \in DOMAIN acts /\ acts[Position(acts, d.act)].id = d.act
    BY <1>2, <1>3, <2>3, PositionExists
  <2> QED
    BY <1>5, <2>2, <2>4
<1>6. w = CASE acts[k].blk = "HARD" -> More(k)
            [] acts[k].blk # "HARD" /\ Later # {} ->
                   IF Ended(Group(acts, k)) THEN Dispatch ELSE NoWork
            [] OTHER ->
                   IF Ended({i \in Group(acts, k) : acts[i].blk = "SOFT"})
                   THEN Proceed ELSE NoWork
  BY DEF Continuation
<1>7. CASE acts[k].blk = "HARD"
  <2>1. Group(acts, k) = {}
    BY <1>4, <1>7 DEF Group
  <2>2. xs = {c}
    BY <1>5, <2>1
  <2>3. w = More(k)
    BY <1>6, <1>7
  <2>4. More(k).drive \in Seq(Traversal) /\ Front(o, More(k).run, More(k).drive, p)
    BY <1>2, <1>3, <1>4, NodeWorkInFront, EdgeWorkInFront
  <2> QED
    BY <2>2, <2>3, <2>4
<1>8. CASE acts[k].blk # "HARD" /\ Later # {}
  <2>1. w = IF Ended(Group(acts, k)) THEN Dispatch ELSE NoWork
    BY <1>6, <1>8
  <2>2. Together(acts, NextHard)
    <3>1. NextHard \subseteq DOMAIN acts /\ \A i \in NextHard : acts[i].blk = "HARD"
      OBVIOUS
    <3>2. DOMAIN acts \subseteq Nat
      BY <1>2
    <3>3. \A i, j \in NextHard : i = j
      BY <3>2
    <3> HIDE DEF NextHard
    <3> QED
      BY <3>1, <3>3 DEF Together
  <2>3. Dispatch.drive \in Seq(Traversal) /\ Front(o, Dispatch.run, Dispatch.drive, p)
    BY <1>2, <1>3, <2>2, ContextsInFront
  <2>4. Ended(Group(acts, k)) => xs = {c}
    BY <1>5
  <2> QED
    BY <2>1, <2>3, <2>4, NothingInFront
<1>9. CASE acts[k].blk # "HARD" /\ Later = {}
  <2> DEFINE Soft == {i \in Group(acts, k) : acts[i].blk = "SOFT"}
  <2>1. w = IF Ended(Soft) THEN Proceed ELSE NoWork
    BY <1>6, <1>9
  <2>2. Proceed.drive \in Seq(Traversal) /\ Front(o, Proceed.run, Proceed.drive, p)
    BY <1>2, ProcessEdgeInFront, TraverseInFront
  <2>3. ASSUME Ended(Soft), NEW d \in xs, d # c PROVE FALSE
    <3>1. PICK j \in Group(acts, k) :
             /\ j \in DOMAIN acts /\ acts[j].id = d.act /\ st[acts[j].id] # "ENDED"
             /\ j = Position(d.at.acts, d.act) /\ d.at = c.at
      BY <1>5, <2>3
    <3>2. acts[j].blk # "SOFT"
      BY <2>3, <3>1
    <3>3. acts[j].blk # "HARD"
      BY <1>4, <3>1 DEF Group
    <3>4. acts[j].blk = "NONE"
      <4>1. acts[j] \in Action
        BY <1>2, <3>1
      <4> QED
        BY <3>2, <3>3, <4>1 DEF Action
    <3>5. \A h \in DOMAIN acts : h > j => acts[h].blk # "HARD"
      BY <1>2, <1>4, <1>9, <3>1 DEF Group
    <3>6. Trailing(d)
      BY <3>1, <3>4, <3>5 DEF Trailing
    <3> QED
      BY <2>3, <3>6 DEF Front
  <2> QED
    BY <2>1, <2>2, <2>3, NothingInFront
<1> QED
  BY <1>7, <1>8, <1>9

-----------------------------------------------------------------------------
(* Lemmas about the effect of handlers on the state. *)

(* Whatever is in front belongs to the base. *)
LEMMA InFrontOfBase ==
    ASSUME NEW o, NEW c, NEW p, InFront(o, c, p)
    PROVE  c.act \in BaseActions(o) /\ c.act \in ActionId
<1>1. c.at \in Released(o) /\ c.act \in ActionIdsOf(c.at)
  BY DEF InFront, Released, Context
<1> QED
  BY <1>1 DEF BaseActions, InFront, Context

(* An edge to be traversed keeps an order active. *)
LEMMA InFrontEdgeReported ==
    ASSUME NEW o \in Order, NEW p, p.seq \in Nat, NEW t, InFrontEdge(o, t, p)
    PROVE  EdgeState(t.edge) \in {EdgeState(e) : e \in {f \in o.edges : f.seq > p.seq}}
BY DEF InFrontEdge

(* The statuses after the handlers in w have been invoked (see Perform). *)
Dispatched(w, st) ==
    [a \in ActionId |-> IF a \in {c.act : c \in w.run} THEN Started ELSE st[a]]

(* RUNNING is the status of just the actions whose contexts are in xs. *)
Matches(st, xs) == \A a \in ActionId : st[a] = "RUNNING" <=> \E c \in xs : c.act = a

(* What a step makes sure of: the adapter is busy at the front of order o, *)
(* and the statuses tell which actions it executes.                        *)
Progressing(o, xs, ts, p, st) ==
    /\ Front(o, xs, ts, p)
    /\ ts \in Seq(Traversal)
    /\ st \in [ActionId -> Status]
    /\ Matches(st, xs)
    /\ \A a \in ActionId : st[a] # "ABSENT" => a \in BaseActions(o)

(* Handlers invoked for what is in front leave their actions RUNNING.      *)
LEMMA DispatchedProgressing ==
    ASSUME Started = "RUNNING",
           NEW o, NEW p, NEW w, w.drive \in Seq(Traversal), Front(o, w.run, w.drive, p),
           NEW st \in [ActionId -> Status], \A a \in ActionId : st[a] # "RUNNING",
           \A a \in ActionId : st[a] # "ABSENT" => a \in BaseActions(o)
    PROVE  Progressing(o, w.run, w.drive, p, Dispatched(w, st))
<1> DEFINE ids == {c.act : c \in w.run}
<1>1. Dispatched(w, st) = [a \in ActionId |-> IF a \in ids THEN "RUNNING" ELSE st[a]]
  BY DEF Dispatched
<1>2. \A c \in w.run : c.act \in ActionId /\ c.act \in BaseActions(o)
  BY InFrontOfBase DEF Front
<1>3. Dispatched(w, st) \in [ActionId -> Status]
  BY <1>1 DEF Status
<1>4. Matches(Dispatched(w, st), w.run)
  BY <1>1 DEF Matches
<1>5. \A a \in ActionId : Dispatched(w, st)[a] # "ABSENT" => a \in BaseActions(o)
  BY <1>1, <1>2
<1> QED
  BY <1>3, <1>4, <1>5 DEF Progressing

(* _processNode leaves the adapter busy with the node or the next edge.    *)
LEMMA NodeProgressing ==
    ASSUME Started = "RUNNING",
           NEW o \in Order, OrderShape(o), UniqueActions(o),
           \A x \in Released(o) : LoneNone(x.acts), NEW n \in o.nodes, n.rel,
           NEW st \in [ActionId -> Status], \A a \in ActionId : st[a] # "RUNNING",
           \A a \in ActionId : st[a] # "ABSENT" => a \in BaseActions(o)
    PROVE  LET w == NodeWork(o, n, 0) IN
           Progressing(o, w.run, w.drive, Place(n), Dispatched(w, st))
<1>1. 0 \in 0..Len(n.acts)
  BY DEF Order, Node
<1> QED
  BY <1>1, NodeWorkInFront, DispatchedProgressing

-----------------------------------------------------------------------------
(* IInv, split into what concerns the order in execution and the rest.     *)

Sound ==
    /\ order \in Order /\ OrderShape(order) /\ UniqueActions(order)
    /\ Progressing(order, exec, trav, lastNode, actionStatus)

Reports ==
    /\ HasActiveOrder /\ ~canceling /\ pausedNode = {} => Underway
    /\ trav # <<>> => HasActiveOrder \/ canceling

(* The inductive invariant holds when the controller has been created.     *)
LEMMA InitIInv == Init => IInv
<1> SUFFICES ASSUME Init PROVE IInv
  OBVIOUS
<1>1. TypeOK
  <2>1. order \in Order
    BY DEF Init, Order
  <2>2. actionStatus \in [ActionId -> Status]
    BY DEF Init, Status
  <2>3. lastNode \in [id : NodeId \cup {NoNode}, seq : Nat]
    BY DEF Init
  <2>4. trav \in Seq([edge : Edge, to : Node])
    BY DEF Init
  <2> QED
    BY <2>1, <2>2, <2>3, <2>4 DEF Init, TypeOK
<1>2. OrderShape(order) /\ UniqueActions(order)
  BY DEF Init, OrderShape, UniqueActions, Released
<1>3. Front(order, exec, trav, lastNode) /\ RunningExecutes /\ CancelFindsActions
  BY DEF Init, Front, RunningExecutes, CancelFindsActions
<1>4. ~HasActiveOrder
  BY DEF Init, HasActiveOrder, Active
<1>5. Canceling /\ Limits /\ trav = <<>>
  BY DEF Init, Canceling, Limits
<1> QED
  BY <1>1, <1>2, <1>3, <1>4, <1>5 DEF IInv

(* Consequences of IInv that the steps use again and again.                *)
LEMMA Consequences ==
    ASSUME IInv
    PROVE  /\ exec # {} => HasActiveOrder /\ pausedNode = {} /\ trav = <<>> /\ stops = 0
           /\ trav # <<>> => exec = {} /\ pausedNode = {} /\ trav = <<trav[1]>>
                             /\ InFrontEdge(order, trav[1], lastNode)
           /\ pausedNode # {} => HasActiveOrder
           /\ ~HasActiveOrder /\ ~canceling =>
                  exec = {} /\ trav = <<>> /\ stops = 0 /\ pausedNode = {}
           /\ \A c \in exec : actionStatus[c.act] = "RUNNING" /\ c.act \in ActionId
           /\ stops > 0 => canceling /\ exec = {}
           /\ \A c, d \in exec : c.act = d.act => c = d
<1>1. \A c \in exec : InFront(order, c, lastNode) /\ c.act \in ActionId
  BY InFrontOfBase DEF IInv, Front
<1>2. \A c \in exec : actionStatus[c.act] = "RUNNING"
  BY <1>1 DEF IInv, RunningExecutes
<1>3. exec # {} => HasActiveOrder /\ trav = <<>>
  BY <1>1, <1>2 DEF HasActiveOrder, Active, IInv, Front
<1>4. pausedNode # {} => exec = {} /\ trav = <<>> /\ HasActiveOrder
  BY DEF IInv, Canceling, Suspended, HasActiveOrder, Active
<1>5. stops \in Nat /\ (stops > 0 => canceling /\ exec = {})
  BY DEF IInv, TypeOK, Canceling
<1>6. trav # <<>> => exec = {} /\ trav = <<trav[1]>> /\ InFrontEdge(order, trav[1], lastNode)
  BY DEF IInv, Front
<1>7. trav # <<>> => HasActiveOrder \/ canceling
  BY DEF IInv
<1>8. ASSUME NEW c \in exec, NEW d \in exec, c.act = d.act PROVE c = d
  BY <1>1, <1>8 DEF IInv, Front, Parallel, InFront, Context
<1> QED
  BY <1>1, <1>2, <1>3, <1>4, <1>5, <1>6, <1>7, <1>8

(* What an obedient adapter does not do.                                   *)
LEMMA ObedientAdapter ==
    ASSUME Obedient
    PROVE  /\ Started = "RUNNING"
           /\ "lateStart" \notin Adapter /\ "lateArrival" \notin Adapter
           /\ "arrivesPaused" \notin Adapter
           /\ "cancelOrder" \in Instants => "pause" \notin Instants /\ "button" \notin Adapter
BY DEF Obedient, Started

(* An order that is under way satisfies what IInv says of reports. *)
LEMMA UnderwayReports ==
    ASSUME order' \in Order, Front(order', exec', trav', lastNode'), lastNode'.seq \in Nat,
           Underway'
    PROVE  Reports'
<1>1. ASSUME trav' # <<>> PROVE HasActiveOrder'
  <2>1. InFrontEdge(order', trav'[1], lastNode')
    BY <1>1 DEF Front
  <2>2. EdgeState(trav'[1].edge) \in
           {EdgeState(e) : e \in {f \in order'.edges : f.seq > lastNode'.seq}}
    BY <2>1, InFrontEdgeReported
  <2>3. edgeStates' # {}
    BY <2>2 DEF Underway
  <2> QED
    BY <2>3 DEF HasActiveOrder, Active
<1> QED
  BY <1>1 DEF Reports

-----------------------------------------------------------------------------
(* The steps of pause mode and of order cancelation. *)

(* _rejectOrder preserves the inductive invariant.                         *)
LEMMA RejectOrderStep ==
    ASSUME IInv, NEW o \in Orders, RejectOrder(o)
    PROVE  IInv'
<1>1. <<o.orderId, o.upd>> \in OrderId \X Nat
  BY OrdersAssumption DEF Order
<1>2. TypeOK'
  BY <1>1 DEF IInv, TypeOK, RejectOrder, reported, dispatched, stopping, Context, Status
<1> QED
  BY <1>2 DEF IInv, RejectOrder, reported, dispatched, stopping, RunningExecutes,
      CancelFindsActions, HasActiveOrder, Underway, Suspended, Canceling, Limits

(* Discarding an order changes nothing that the inductive invariant reads. *)
LEMMA StutterStep == ASSUME IInv, UNCHANGED vars PROVE IInv'
<1>1. TypeOK'
  BY DEF IInv, TypeOK, vars, reported, dispatched, stopping, Context, Status
<1> QED
  BY <1>1 DEF IInv, vars, reported, dispatched, stopping, RunningExecutes, CancelFindsActions,
      HasActiveOrder, Underway, Suspended, Canceling, Limits

(* Entering pause mode, or the button, preserves the inductive invariant.  *)
LEMMA PauseStep ==
    ASSUME IInv, Obedient, StartPause \/ PauseButton
    PROVE  IInv'
<1>1. /\ UNCHANGED <<order, reported, rejected, pausedNode, canceling, dispatched, stopping>>
      /\ paused' \in BOOLEAN
      /\ "pause" \in Instants \/ "button" \in Adapter
  BY DEF StartPause, PauseButton, IInv, TypeOK
<1>2. TypeOK'
  BY <1>1 DEF IInv, TypeOK, reported, dispatched, stopping, Context, Status
<1> QED
  BY <1>1, <1>2 DEF IInv, reported, dispatched, stopping, RunningExecutes, CancelFindsActions,
      HasActiveOrder, Underway, Suspended, Canceling, Limits

(* drivingToNextNode preserves the inductive invariant.                    *)
LEMMA DrivingToNextNodeStep ==
    ASSUME IInv, DrivingToNextNode
    PROVE  IInv'
<1>1. canceling /\ pausedNode = {}
  BY Consequences DEF DrivingToNextNode, IInv, Canceling, Suspended
<1>2. Head(trav) = trav[1] /\ trav[1].to \in Node
  BY DEF DrivingToNextNode, IInv, Front, InFrontEdge
<1>3. TypeOK'
  BY <1>2 DEF IInv, TypeOK, DrivingToNextNode, dispatched
<1> QED
  BY <1>1, <1>3 DEF IInv, DrivingToNextNode, dispatched, RunningExecutes, CancelFindsActions,
      Canceling, Limits

(* stopped deletes the order and preserves the inductive invariant.        *)
LEMMA StoppedStep ==
    ASSUME IInv, Obedient, Stopped
    PROVE  IInv'
<1>1. canceling /\ exec = {} /\ pausedNode = {} /\ stops = 1
  BY Consequences DEF Stopped, IInv, TypeOK, Canceling, Suspended
<1>2. trav' = <<>> /\ exec' = {} /\ pausedNode' = {} /\ stops' = 0 /\ ~canceling'
  BY <1>1, ObedientAdapter DEF Stopped
<1>3. TypeOK'
  <2>1. paused' \in BOOLEAN /\ canceling' \in BOOLEAN
    BY DEF Stopped, IInv, TypeOK
  <2>2. trav' \in Seq([edge : Edge, to : Node])
    BY <1>2
  <2>3. stops' \in Nat /\ stopAt' \subseteq Node
    BY <1>2 DEF Stopped
  <2>4. nodeStates' = {} /\ edgeStates' = {}
        /\ UNCHANGED <<order, lastNode, actionStatus, rejected, pausedNode, exec, told>>
    BY DEF Stopped
  <2> QED
    BY <2>1, <2>2, <2>3, <2>4 DEF IInv, TypeOK
<1>4. Front(order', exec', trav', lastNode') /\ RunningExecutes' /\ CancelFindsActions'
  BY <1>1, <1>2, NothingInFront DEF Stopped, IInv, RunningExecutes, CancelFindsActions
<1>5. ~HasActiveOrder'
  <2>1. \A a \in ActionId : actionStatus[a] \notin {"WAITING", "RUNNING"}
    BY <1>1 DEF IInv, Canceling, RunningExecutes
  <2> QED
    BY <2>1 DEF Stopped, HasActiveOrder, Active
<1>6. Canceling'
  BY <1>2 DEF Canceling
<1>7. Limits'
  <2>1. paused' = paused \/ paused' = FALSE
    BY DEF Stopped
  <2>2. ~paused => ~paused'
    BY <2>1
  <2> QED
    BY <1>2, <2>2 DEF IInv, Limits
<1>8. order' = order
  BY DEF Stopped
<1> QED
  BY <1>2, <1>3, <1>4, <1>5, <1>6, <1>7, <1>8 DEF IInv

(* _cancelOrder preserves the inductive invariant.                         *)
LEMMA CancelOrderStep ==
    ASSUME IInv, Obedient, CancelOrder
    PROVE  IInv'
<1> DEFINE st == [a \in ActionId |->
                     IF actionStatus[a] = "WAITING" THEN "ENDED" ELSE actionStatus[a]]
           running == {a \in ActionId : st[a] = "RUNNING"}
<1>1. /\ ~canceling /\ canceling' /\ actionStatus' = st
      /\ told' = told \cup running
      /\ stops' = IF running = {} THEN stops + 1 ELSE stops
      /\ UNCHANGED <<order, lastNode, nodeStates, edgeStates, rejected, paused, pausedNode,
                     exec, trav, stopAt>>
  BY DEF CancelOrder, IInv, TypeOK
<1>2. pausedNode = {} /\ stops = 0
  BY <1>1, ObedientAdapter, Consequences DEF CancelOrder, IInv, TypeOK, Limits
<1>3. TypeOK'
  <2>1. st \in [ActionId -> Status]
    BY DEF IInv, TypeOK, Status
  <2>2. stops' \in Nat /\ told' \subseteq ActionId /\ canceling' \in BOOLEAN
    BY <1>1, <1>2 DEF IInv, TypeOK, CancelOrder
  <2> QED
    BY <1>1, <2>1, <2>2 DEF IInv, TypeOK
<1>4. RunningExecutes' /\ CancelFindsActions'
  BY <1>1 DEF IInv, RunningExecutes, CancelFindsActions
<1>5. running = {} => exec = {}
  BY Consequences
<1>6. Canceling' /\ Limits'
  BY <1>1, <1>2, <1>5 DEF IInv, Canceling, Limits, CancelOrder
<1> QED
  BY <1>1, <1>2, <1>3, <1>4, <1>6 DEF IInv

-----------------------------------------------------------------------------
(* The steps that reach a node of the order. *)

(* The action ids of a node or an edge are action ids.                     *)
LEMMA ActionIdsType ==
    ASSUME NEW x \in Node \cup Edge
    PROVE  ActionIdsOf(x) \subseteq ActionId
<1>1. x.acts \in Seq(Action)
  BY DEF Node, Edge
<1>2. \A i \in DOMAIN x.acts : x.acts[i] \in Action
  BY <1>1
<1> QED
  BY <1>2 DEF ActionIdsOf, Action

(* The rest of the route after the first node, and after an edge. *)
LEMMA RouteFromFirst ==
    ASSUME NEW o \in Order, OrderShape(o), NEW n, IsFirst(o, n)
    PROVE  /\ {s \in {NodeState(m) : m \in o.nodes} : Place(s) # Place(n)}
                  = {NodeState(m) : m \in {k \in o.nodes : k.seq > n.seq}}
           /\ {EdgeState(e) : e \in o.edges}
                  = {EdgeState(e) : e \in {f \in o.edges : f.seq > n.seq}}
<1>1. n \in o.nodes /\ \A m \in o.nodes : m.seq \in Nat /\ n.seq <= m.seq
  BY DEF IsFirst, Order, Node
<1>2. \A m \in o.nodes : m # n => m.seq > n.seq
  BY <1>1 DEF OrderShape
<1>3. \A m \in o.nodes : Place(NodeState(m)) = Place(m)
  BY DEF Place, NodeState
<1>4. \A m \in o.nodes : Place(m) = Place(n) <=> m = n
  BY <1>1 DEF Place, OrderShape
<1>5. \A m \in o.nodes : m.seq > n.seq <=> Place(NodeState(m)) # Place(n)
  BY <1>1, <1>2, <1>3, <1>4
<1>6. \A e \in o.edges : e.seq > n.seq
  <2> TAKE e \in o.edges
  <2>1. PICK m \in o.nodes : e.seq = m.seq + 1
    BY DEF OrderShape
  <2> QED
    BY <1>1, <2>1
<1> QED
  BY <1>5, <1>6

(* The states of the nodes and edges of o beyond sequence id k. *)
NodesBeyond(o, k) == {NodeState(n) : n \in {m \in o.nodes : m.seq > k}}
EdgesBeyond(o, k) == {EdgeState(e) : e \in {f \in o.edges : f.seq > k}}

(* Traversal of the edge in front leaves the route beyond its end node.    *)
LEMMA RouteAfterEdge ==
    ASSUME NEW o \in Order, OrderShape(o), NEW p, \E m \in o.nodes : Place(m) = p,
           NEW t, InFrontEdge(o, t, p)
    PROVE  /\ {s \in NodesBeyond(o, p.seq) : Place(s) # Place(t.to)} = NodesBeyond(o, t.to.seq)
           /\ {s \in EdgesBeyond(o, p.seq) : s \notin {EdgeState(e) : e \in {t.edge}}}
                  = EdgesBeyond(o, t.to.seq)
<1>1. PICK last \in o.nodes : Place(last) = p
  OBVIOUS
<1>2. /\ \A m \in o.nodes : m.seq \in Nat
      /\ \A e \in o.edges : e.seq \in Nat
  BY DEF Order, Node, Edge
<1>3. p.seq = last.seq
  BY <1>1 DEF Place
<1>4. t.to \in o.nodes /\ t.edge \in o.edges /\ t.to.seq = p.seq + 2 /\ t.edge.seq = p.seq + 1
  BY <1>2, <1>3 DEF InFrontEdge, Leads
<1>5. \A m \in o.nodes : m.seq > p.seq => m.seq >= p.seq + 2
  BY <1>2, <1>3 DEF OrderShape
<1>6. \A m \in o.nodes : Place(NodeState(m)) = Place(m)
  BY DEF Place, NodeState
<1>7. \A m \in o.nodes : Place(m) = Place(t.to) <=> m = t.to
  BY <1>4 DEF Place, OrderShape
<1>8. \A m \in o.nodes : m.seq > t.to.seq <=> m.seq > p.seq /\ Place(NodeState(m)) # Place(t.to)
  <2> TAKE m \in o.nodes
  <2>1. m.seq = t.to.seq => m = t.to
    BY <1>4 DEF OrderShape
  <2> QED
    BY <1>2, <1>3, <1>4, <1>5, <1>6, <1>7, <2>1
<1>9. \A f \in o.edges : f.seq > t.to.seq
                          <=> f.seq > p.seq /\ EdgeState(f) \notin {EdgeState(e) : e \in {t.edge}}
  <2> TAKE f \in o.edges
  <2>1. PICK m \in o.nodes : f.seq = m.seq + 1
    BY DEF OrderShape
  <2>2. f.seq # p.seq + 2
    BY <1>2, <1>3, <1>5, <2>1
  <2>3. f.seq = p.seq + 1 => f = t.edge
    BY <1>4 DEF OrderShape
  <2>4. EdgeState(f) = EdgeState(t.edge) => f.seq = t.edge.seq
    BY DEF EdgeState
  <2> QED
    BY <1>2, <1>3, <1>4, <2>2, <2>3, <2>4
<1> QED
  BY <1>8, <1>9 DEF NodesBeyond, EdgesBeyond

(* A sequence of one element.                                              *)
LEMMA SingletonSeq == \A x : Head(<<x>>) = x /\ Tail(<<x>>) = <<>>
OBVIOUS

(* The place of a node is one that can be reported as the last node.       *)
LEMMA PlaceType == ASSUME NEW n \in Node PROVE Place(n) \in [id : NodeId \cup {NoNode}, seq : Nat]
BY DEF Node, Place

(* What remains to be shown of TypeOK in a step that dispatches.           *)
LEMMA ProgressingType ==
    ASSUME NEW o, NEW xs, NEW ts, NEW p, NEW st, Progressing(o, xs, ts, p, st)
    PROVE  xs \subseteq Context /\ ts \in Seq([edge : Edge, to : Node])
           /\ st \in [ActionId -> Status]
BY DEF Progressing, Front, InFront, Traversal

(* edgeTraversed preserves the inductive invariant.                        *)
LEMMA EdgeTraversedStep ==
    ASSUME IInv, Obedient, LoneNoneOrder, EdgeTraversed
    PROVE  IInv'
<1>0. PICK t : t = trav[1]
  OBVIOUS
<1>1. /\ trav # <<>> /\ exec = {} /\ pausedNode = {} /\ trav = <<t>>
      /\ InFrontEdge(order, t, lastNode) /\ ~paused
  BY <1>0, Consequences, ObedientAdapter DEF EdgeTraversed
<1>2. Head(trav) = t /\ Tail(trav) = <<>>
  BY <1>1, SingletonSeq
<1>3. UNCHANGED <<order, rejected, paused, canceling, stops, stopAt>>
  BY DEF EdgeTraversed, stopping
<1>4. CASE canceling
  <2>1. trav' = <<>> /\ UNCHANGED <<lastNode, nodeStates, edgeStates, actionStatus, pausedNode,
                                    exec, told>>
    BY <1>2, <1>4 DEF EdgeTraversed, reported
  <2>2. trav' \in Seq([edge : Edge, to : Node])
    BY <2>1
  <2>3. TypeOK'
    BY <1>3, <2>1, <2>2 DEF IInv, TypeOK
  <2>4. Front(order', exec', trav', lastNode') /\ RunningExecutes' /\ CancelFindsActions'
    BY <1>1, <1>3, <2>1, NothingInFront DEF IInv, RunningExecutes, CancelFindsActions
  <2> QED
    BY <1>1, <1>3, <1>4, <2>1, <2>3, <2>4 DEF IInv, Canceling, Limits
<1>5. CASE ~canceling
  <2>0. PICK w : w = NodeWork(order, t.to, 0)
    OBVIOUS
  <2>1. t.to \in order.nodes /\ t.to \in Node /\ t.edge \in Edge /\ t.edge \in order.edges
    BY <1>1 DEF InFrontEdge
  <2>2. t.to.rel
    <3>1. PICK n \in order.nodes : Leads(t.edge, n) /\ t.edge.rel = n.rel
      BY <2>1 DEF IInv, OrderShape
    <3>2. n.seq = t.to.seq
      BY <1>1, <3>1 DEF InFrontEdge, Leads
    <3>3. n = t.to
      BY <2>1, <3>1, <3>2 DEF IInv, OrderShape
    <3> QED
      BY <1>1, <3>1, <3>3 DEF InFrontEdge
  <2>3. /\ pausedNode' = pausedNode
        /\ nodeStates' = {s \in nodeStates : Place(s) # Place(t.to)}
        /\ edgeStates' = {s \in edgeStates : s \notin {EdgeState(e) : e \in {t.edge}}}
        /\ lastNode' = Place(t.to)
        /\ told' = told \cup {a \in UNION {ActionIdsOf(e) : e \in {t.edge}} : actionStatus[a] # "ENDED"}
        /\ exec' = w.run /\ trav' = <<>> \o w.drive
        /\ actionStatus' = Dispatched(w, actionStatus)
    <3>1. /\ pausedNode' = pausedNode
          /\ nodeStates' = {s \in nodeStates : Place(s) # Place(t.to)}
          /\ edgeStates' = {s \in edgeStates : s \notin {EdgeState(e) : e \in {t.edge}}}
          /\ lastNode' = Place(t.to)
          /\ told' = told \cup {a \in UNION {ActionIdsOf(e) : e \in {t.edge}} : actionStatus[a] # "ENDED"}
          /\ Perform(NodeWork(order', t.to, 0), actionStatus, exec, Tail(trav))
      BY <1>1, <1>2, <1>3, <1>5, <2>2 DEF EdgeTraversed, ProcessNode, ToBeFinished
    <3>2. /\ exec' = exec \cup w.run /\ trav' = <<>> \o w.drive
          /\ actionStatus' = Dispatched(w, actionStatus)
      BY <1>2, <1>3, <2>0, <3>1 DEF Perform, Dispatched
    <3> QED
      BY <1>1, <3>1, <3>2
  <2>4. Progressing(order', exec', trav', lastNode', actionStatus')
    <3>1. \A a \in ActionId : actionStatus[a] # "RUNNING"
      BY <1>1 DEF IInv, RunningExecutes
    <3>2. Progressing(order, w.run, w.drive, Place(t.to), Dispatched(w, actionStatus))
      BY <2>0, <2>1, <2>2, <3>1, NodeProgressing, ObedientAdapter
         DEF IInv, TypeOK, CancelFindsActions, LoneNoneOrder
    <3>3. trav' = w.drive
      BY <2>3, <3>2 DEF Progressing
    <3> QED
      BY <1>3, <2>3, <3>2, <3>3
  <2>5. Underway
    BY <1>1, <1>5, Consequences DEF IInv
  <2>6. Underway'
    <3>1. \E m \in order.nodes : Place(m) = lastNode
      BY <2>5 DEF Underway
    <3>2. nodeStates' = NodesBeyond(order, t.to.seq) /\ edgeStates' = EdgesBeyond(order, t.to.seq)
      <4>1. order \in Order /\ OrderShape(order) /\ InFrontEdge(order, t, lastNode)
        BY <1>1 DEF IInv, TypeOK
      <4>2. /\ {s \in NodesBeyond(order, lastNode.seq) : Place(s) # Place(t.to)}
                  = NodesBeyond(order, t.to.seq)
            /\ {s \in EdgesBeyond(order, lastNode.seq) : s \notin {EdgeState(e) : e \in {t.edge}}}
                  = EdgesBeyond(order, t.to.seq)
        BY <3>1, <4>1, RouteAfterEdge
      <4>3. nodeStates = NodesBeyond(order, lastNode.seq) /\ edgeStates = EdgesBeyond(order, lastNode.seq)
        BY <2>5 DEF Underway, NodesBeyond, EdgesBeyond
      <4>4. /\ nodeStates' = {s \in nodeStates : Place(s) # Place(t.to)}
            /\ edgeStates' = {s \in edgeStates : s \notin {EdgeState(e) : e \in {t.edge}}}
        BY <2>3
      <4> QED
        BY <4>2, <4>3, <4>4
    <3>3. lastNode'.seq = t.to.seq
      BY <2>3 DEF Place
    <3> QED
      BY <1>3, <2>1, <2>2, <2>3, <3>2, <3>3 DEF Underway, NodesBeyond, EdgesBeyond
  <2>7. TypeOK'
    <3>1. told' \subseteq ActionId
      BY <2>1, <2>3, ActionIdsType DEF IInv, TypeOK
    <3>2. lastNode' \in [id : NodeId \cup {NoNode}, seq : Nat]
      BY <2>1, <2>3, PlaceType
    <3>3. /\ exec' \subseteq Context /\ trav' \in Seq([edge : Edge, to : Node])
          /\ actionStatus' \in [ActionId -> Status]
      BY <2>4, ProgressingType
    <3> QED
      BY <1>3, <2>3, <3>1, <3>2, <3>3 DEF IInv, TypeOK
  <2>8. Sound'
    BY <1>3, <2>4 DEF Sound, IInv, TypeOK
  <2>9. Reports'
    BY <2>4, <2>6, <2>7, UnderwayReports DEF Progressing, TypeOK
  <2>10. Canceling' /\ Limits'
    BY <1>1, <1>3, <1>5, <2>3, Consequences DEF IInv, Canceling, Limits
  <2> QED
    BY <2>7, <2>8, <2>9, <2>10 DEF IInv, Sound, Reports, Progressing, Matches, RunningExecutes,
       CancelFindsActions
<1> QED
  BY <1>4, <1>5

(* Contexts that are taken away leave the rest in front. *)
LEMMA FrontShrinks ==
    ASSUME NEW o, NEW xs, NEW p, Front(o, xs, <<>>, p), NEW c
    PROVE  Front(o, xs \ {c}, <<>>, p)
BY DEF Front

(* The end of an action preserves the inductive invariant.                 *)
LEMMA ActionEndsStep ==
    ASSUME IInv, Obedient, LoneNoneOrder, NEW c \in exec, ActionEnds(c)
    PROVE  IInv'
<1>0. PICK st : st = [actionStatus EXCEPT ![c.act] = "ENDED"]
  OBVIOUS
<1>1. /\ HasActiveOrder /\ pausedNode = {} /\ trav = <<>> /\ stops = 0
      /\ c.act \in ActionId /\ actionStatus[c.act] = "RUNNING"
      /\ \A d \in exec : d.act \in ActionId /\ actionStatus[d.act] = "RUNNING"
      /\ \A d \in exec \ {c} : d.act # c.act
  BY Consequences
<1>2. /\ st \in [ActionId -> Status]
      /\ st[c.act] = "ENDED" /\ \A a \in ActionId \ {c.act} : st[a] = actionStatus[a]
  BY <1>0, <1>1 DEF IInv, TypeOK, Status
<1>3. /\ UNCHANGED <<order, lastNode, nodeStates, edgeStates, rejected, paused, pausedNode,
                     canceling, stopAt>>
      /\ told' = told \ {c.act}
  BY DEF ActionEnds
<1>4. \A a \in ActionId : st[a] # "ABSENT" => a \in BaseActions(order)
  BY <1>1, <1>2 DEF IInv, CancelFindsActions
<1>5. Matches(st, exec \ {c})
  <2> SUFFICES ASSUME NEW a \in ActionId
               PROVE  st[a] = "RUNNING" <=> \E d \in exec \ {c} : d.act = a
    BY DEF Matches
  <2>1. actionStatus[a] = "RUNNING" <=> \E d \in exec : d.act = a
    BY DEF IInv, RunningExecutes
  <2> QED
    BY <1>1, <1>2, <2>1
<1>6. Front(order, exec, <<>>, lastNode)
  BY <1>1 DEF IInv
<1>7. Progressing(order, exec \ {c}, <<>>, lastNode, st)
  <2>1. <<>> \in Seq(Traversal)
    OBVIOUS
  <2>2. Front(order, exec \ {c}, <<>>, lastNode)
    BY <1>6, FrontShrinks
  <2> QED
    BY <1>2, <1>4, <1>5, <2>1, <2>2 DEF Progressing
<1>8. ASSUME exec' = exec \ {c}, trav' = <<>>, actionStatus' = st
      PROVE  Progressing(order', exec', trav', lastNode', actionStatus')
  BY <1>3, <1>7, <1>8
<1>9. CASE canceling
  <2>1. /\ exec' = exec \ {c} /\ trav' = <<>> /\ actionStatus' = st
        /\ stops' = IF AllActionsEnded(st) THEN stops + 1 ELSE stops
    <3>1. Perform(NoWork, st, exec \ {c}, trav)
          /\ stops' = IF AllActionsEnded(st) THEN stops + 1 ELSE stops
      BY <1>0, <1>9 DEF ActionEnds
    <3>2. /\ exec' = (exec \ {c}) \cup {} /\ trav' = trav \o <<>>
          /\ actionStatus' = [a \in ActionId |-> st[a]]
      BY <3>1 DEF Perform, NoWork
    <3> QED
      BY <1>1, <1>2, <3>1, <3>2
  <2>2. Progressing(order', exec', trav', lastNode', actionStatus')
    BY <1>8, <2>1
  <2>3. AllActionsEnded(st) => exec' = {}
    <3> SUFFICES ASSUME AllActionsEnded(st), NEW d \in exec \ {c} PROVE FALSE
      BY <2>1
    <3>1. d.act \in BaseActions(order)
      BY InFrontOfBase DEF IInv, Front
    <3>2. st[d.act] = "RUNNING"
      BY <1>1, <1>2
    <3> QED
      BY <3>1, <3>2 DEF AllActionsEnded
  <2>4. Canceling'
    <3>1. \A a \in ActionId : actionStatus'[a] # "WAITING"
      BY <1>2, <1>9, <2>1 DEF IInv, Canceling
    <3> QED
      BY <1>1, <1>3, <1>9, <2>1, <2>3, <3>1 DEF Canceling
  <2>5. Limits'
    BY <1>3, <1>9 DEF IInv, Limits
  <2>6. TypeOK'
    <3>1. stops' \in Nat /\ told' \subseteq ActionId
      BY <1>1, <1>3, <2>1 DEF IInv, TypeOK
    <3> QED
      BY <1>3, <2>2, <3>1, ProgressingType DEF IInv, TypeOK
  <2>7. Sound' /\ Reports'
    <3>1. order \in Order /\ OrderShape(order) /\ UniqueActions(order)
      BY DEF IInv, TypeOK
    <3> QED
      BY <1>3, <1>9, <2>1, <2>2, <3>1 DEF Sound, Reports
  <2> QED
    BY <2>4, <2>5, <2>6, <2>7 DEF IInv, Sound, Reports, Progressing, Matches, RunningExecutes,
       CancelFindsActions
<1>10. CASE ~canceling
  <2>0. PICK w : w = Continuation(order, c, st)
    OBVIOUS
  <2>1. /\ exec' = (exec \ {c}) \cup w.run /\ trav' = <<>> \o w.drive
        /\ actionStatus' = Dispatched(w, st) /\ stops' = 0
    BY <1>0, <1>1, <1>10, <2>0 DEF ActionEnds, Perform, Dispatched
  <2>2. /\ w.drive \in Seq(Traversal) /\ Front(order, w.run, w.drive, lastNode)
        /\ w = NoWork \/ exec = {c}
    <3>1. order \in Order /\ OrderShape(order) /\ UniqueActions(order)
      BY DEF IInv, TypeOK
    <3>2. \A x \in Released(order) : LoneNone(x.acts)
      BY DEF LoneNoneOrder
    <3>3. \A d \in exec \ {c} : st[d.act] # "ENDED"
      BY <1>1, <1>2
    <3> QED
      BY <1>6, <2>0, <3>1, <3>2, <3>3, ContinuationInFront
  <2>3. trav' = w.drive
    BY <2>1, <2>2
  <2>6. Progressing(order', exec', trav', lastNode', actionStatus')
    <3>1. CASE w = NoWork
      <4>1. /\ exec' = exec \ {c} /\ trav' = <<>>
            /\ actionStatus' = [a \in ActionId |-> st[a]]
        BY <2>1, <2>3, <3>1 DEF NoWork, Dispatched
      <4>2. actionStatus' = st
        BY <1>2, <4>1
      <4> QED
        BY <1>8, <4>1, <4>2
    <3>2. CASE exec = {c}
      <4>1. \A a \in ActionId : st[a] # "RUNNING"
        BY <1>5, <3>2 DEF Matches
      <4>2. Progressing(order, w.run, w.drive, lastNode, Dispatched(w, st))
        BY <1>2, <1>4, <2>2, <4>1, DispatchedProgressing, ObedientAdapter
      <4>3. exec' = w.run
        BY <2>1, <3>2
      <4> QED
        BY <1>3, <2>1, <2>3, <4>2, <4>3
    <3> QED
      BY <2>2, <3>1, <3>2
  <2>7. Underway'
    <3>1. Underway
      BY <1>1, <1>10 DEF IInv
    <3> QED
      BY <1>3, <3>1 DEF Underway
  <2>8. TypeOK'
    <3>1. stops' \in Nat /\ told' \subseteq ActionId
      BY <1>3, <2>1 DEF IInv, TypeOK
    <3> QED
      BY <1>3, <2>6, <3>1, ProgressingType DEF IInv, TypeOK
  <2>9. Reports'
    BY <2>6, <2>7, <2>8, UnderwayReports DEF Progressing, TypeOK
  <2>10. Canceling' /\ Limits'
    BY <1>1, <1>3, <1>10, <2>1 DEF IInv, Canceling, Limits
  <2> QED
    BY <1>3, <2>6, <2>8, <2>9, <2>10 DEF IInv, Reports, Progressing, Matches, RunningExecutes,
       CancelFindsActions
<1> QED
  BY <1>9, <1>10

(* stopPause, with the resumption of a node, preserves the invariant.      *)
LEMMA StopPauseStep ==
    ASSUME IInv, Obedient, LoneNoneOrder, StopPause
    PROVE  IInv'
<1>1. /\ paused' = FALSE /\ pausedNode' = {} /\ "pause" \in Instants
      /\ UNCHANGED <<order, rejected, canceling, stops, stopAt>>
  BY DEF StopPause, stopping
<1>2. CASE pausedNode = {} \/ canceling
  <2>1. UNCHANGED <<lastNode, nodeStates, edgeStates, actionStatus, exec, told, trav>>
        /\ pausedNode = {}
    BY <1>2 DEF StopPause, reported, dispatched, IInv, Canceling, Suspended
  <2>2. TypeOK'
    BY <1>1, <2>1 DEF IInv, TypeOK
  <2> QED
    BY <1>1, <2>1, <2>2 DEF IInv, RunningExecutes, CancelFindsActions, HasActiveOrder, Underway,
       Canceling, Limits
<1>3. CASE pausedNode # {} /\ ~canceling
  <2>1. Suspended
    BY <1>3 DEF IInv, Canceling
  <2>2. PICK n \in order.nodes : n.rel /\ IsFirst(order, n) /\ pausedNode = {n}
    BY <2>1 DEF Suspended
  <2>3. ProcessNode(n, {}, nodeStates, edgeStates, actionStatus, trav)
    BY <1>3, <2>2 DEF StopPause
  <2>4. exec = {} /\ trav = <<>> /\ stops = 0
    BY <2>1 DEF Suspended
  <2>5. PICK w : w = NodeWork(order, n, 0)
    OBVIOUS
  <2>6. /\ nodeStates' = {s \in nodeStates : Place(s) # Place(n)}
        /\ edgeStates' = {s \in edgeStates : s \notin {EdgeState(e) : e \in {}}}
        /\ lastNode' = Place(n)
        /\ told' = told \cup {a \in UNION {ActionIdsOf(e) : e \in {}} : actionStatus[a] # "ENDED"}
        /\ exec' = {} \cup w.run /\ trav' = <<>> \o w.drive
        /\ actionStatus' = Dispatched(w, actionStatus)
    BY <1>1, <2>2, <2>3, <2>4, <2>5 DEF ProcessNode, ToBeFinished, Perform, Dispatched
  <2>7. edgeStates' = edgeStates /\ told' = told /\ exec' = w.run
    BY <2>6
  <2>8. order \in Order /\ OrderShape(order) /\ n \in Node
    BY DEF IInv, TypeOK, Order
  <2>9. Progressing(order', exec', trav', lastNode', actionStatus')
    <3>1. \A a \in ActionId : actionStatus[a] # "RUNNING"
      BY <2>4 DEF IInv, RunningExecutes
    <3>2. Progressing(order, w.run, w.drive, Place(n), Dispatched(w, actionStatus))
      BY <2>2, <2>5, <3>1, NodeProgressing, ObedientAdapter
         DEF IInv, TypeOK, CancelFindsActions, LoneNoneOrder
    <3>3. trav' = w.drive
      BY <2>6, <3>2 DEF Progressing
    <3> QED
      BY <1>1, <2>6, <2>7, <3>2, <3>3
  <2>10. Underway'
    <3>1. /\ nodeStates' = {NodeState(m) : m \in {k \in order.nodes : k.seq > n.seq}}
          /\ edgeStates' = {EdgeState(e) : e \in {f \in order.edges : f.seq > n.seq}}
      <4>1. /\ {s \in {NodeState(m) : m \in order.nodes} : Place(s) # Place(n)}
                   = {NodeState(m) : m \in {k \in order.nodes : k.seq > n.seq}}
            /\ {EdgeState(e) : e \in order.edges}
                   = {EdgeState(e) : e \in {f \in order.edges : f.seq > n.seq}}
        BY <2>2, <2>8, RouteFromFirst
      <4> QED
        BY <2>1, <2>6, <2>7, <4>1 DEF Suspended
    <3>2. lastNode'.seq = n.seq
      BY <2>6 DEF Place
    <3> QED
      BY <1>1, <2>2, <2>6, <3>1, <3>2 DEF Underway
  <2>11. TypeOK'
    <3>1. lastNode' \in [id : NodeId \cup {NoNode}, seq : Nat]
      BY <2>6, <2>8, PlaceType
    <3>2. nodeStates' \subseteq nodeStates
      BY <2>6
    <3> QED
      BY <1>1, <2>7, <2>9, <3>1, <3>2, ProgressingType DEF IInv, TypeOK
  <2>12. Reports'
    BY <2>9, <2>10, <2>11, UnderwayReports DEF Progressing, TypeOK
  <2>13. Canceling' /\ Limits'
    BY <1>1, <1>3, <2>4 DEF IInv, Canceling, Limits
  <2> QED
    BY <1>1, <2>9, <2>11, <2>12, <2>13 DEF IInv, Reports, Progressing, Matches, RunningExecutes,
       CancelFindsActions
<1> QED
  BY <1>2, <1>3

(* The states reported of the nodes and edges of an order. *)
LEMMA RouteType ==
    ASSUME NEW o \in Order
    PROVE  /\ {NodeState(n) : n \in o.nodes} \subseteq [id : NodeId, seq : Nat, rel : BOOLEAN]
           /\ {EdgeState(e) : e \in o.edges}
                  \subseteq [from : NodeId, to : NodeId, seq : Nat, rel : BOOLEAN]
BY DEF Order, Node, Edge, NodeState, EdgeState

(* The order messages have the shape the invariant asks for. *)
LEMMA OrderMessage ==
    ASSUME NEW o \in Orders
    PROVE  /\ o \in Order /\ OrderShape(o) /\ UniqueActions(o)
           /\ \A n : IsFirst(o, n) => n \in o.nodes /\ n \in Node /\ n.rel
<1>1. o \in Order /\ WellFormed(o) /\ UniqueActions(o)
  BY OrdersAssumption
<1>2. OrderShape(o)
  BY <1>1 DEF WellFormed, OrderShape
<1>3. ASSUME NEW n, IsFirst(o, n) PROVE n \in o.nodes /\ n \in Node /\ n.rel
  <2>1. PICK m \in o.nodes : IsFirst(o, m) /\ m.rel
    BY <1>1 DEF WellFormed
  <2>2. n \in Node /\ m \in Node
    BY <1>1, <1>3, <2>1 DEF IsFirst, Order
  <2>3. n.seq <= m.seq /\ m.seq <= n.seq /\ n.seq \in Nat /\ m.seq \in Nat
    BY <1>3, <2>1, <2>2 DEF IsFirst, Node
  <2>4. m = n
    BY <1>2, <1>3, <2>1, <2>3 DEF IsFirst, OrderShape
  <2> QED
    BY <1>3, <2>1, <2>2, <2>4 DEF IsFirst
<1> QED
  BY <1>1, <1>2, <1>3

(* Accepting an order while none is active preserves the invariant.        *)
LEMMA StartOrderStep ==
    ASSUME IInv, Obedient, LoneNoneOrder', NEW o \in Orders, StartOrder(o)
    PROVE  IInv'
<1>0. PICK st : st = [a \in ActionId |-> IF a \in BaseActions(o) THEN "WAITING" ELSE "ABSENT"]
  OBVIOUS
<1>1. PICK n \in o.nodes :
         /\ IsFirst(o, n)
         /\ pausedNode' = IF paused THEN {n} ELSE pausedNode
         /\ ProcessNode(n, {}, {NodeState(m) : m \in o.nodes}, {EdgeState(e) : e \in o.edges},
                        st, trav)
  BY <1>0 DEF StartOrder
<1>2. /\ order' = o /\ rejected' = {} /\ UNCHANGED <<paused, canceling, stops, stopAt>>
      /\ ~HasActiveOrder /\ ~canceling
  BY DEF StartOrder, Unacceptable, stopping
<1>3. exec = {} /\ trav = <<>> /\ stops = 0 /\ pausedNode = {}
  BY <1>2, Consequences
<1>4. o \in Order /\ OrderShape(o) /\ UniqueActions(o) /\ n.rel /\ n \in Node
  BY <1>1, OrderMessage
<1>5. /\ st \in [ActionId -> Status] /\ \A a \in ActionId : st[a] # "RUNNING"
      /\ \A a \in ActionId : st[a] # "ABSENT" => a \in BaseActions(o)
  BY <1>0 DEF Status
<1>6. paused \in BOOLEAN
  BY DEF IInv, TypeOK
<1>7. CASE paused
  <2>1. /\ nodeStates' = {NodeState(m) : m \in o.nodes}
        /\ edgeStates' = {EdgeState(e) : e \in o.edges}
        /\ lastNode' = lastNode /\ told' = told /\ pausedNode' = {n}
        /\ exec' = {} \cup {} /\ trav' = <<>> \o <<>>
        /\ actionStatus' = [a \in ActionId |-> IF a \in {c.act : c \in {}} THEN Started ELSE st[a]]
    BY <1>1, <1>2, <1>3, <1>7 DEF ProcessNode, ToBeFinished, Perform, NoWork
  <2>2. exec' = {} /\ trav' = <<>>
    BY <2>1
  <2>3. actionStatus' = st
    <3>1. actionStatus' = [a \in ActionId |-> st[a]]
      BY <2>1
    <3> QED
      BY <1>5, <3>1
  <2>4. Progressing(order', exec', trav', lastNode', actionStatus')
    <3>1. Front(o, {}, <<>>, lastNode) /\ <<>> \in Seq(Traversal)
      BY NothingInFront DEF NoWork
    <3>2. Matches(st, {})
      BY <1>5 DEF Matches
    <3>3. Progressing(o, {}, <<>>, lastNode, st)
      BY <1>5, <3>1, <3>2 DEF Progressing
    <3> QED
      BY <1>2, <2>1, <2>2, <2>3, <3>3
  <2>5. TypeOK'
    <3>1. /\ nodeStates' \subseteq [id : NodeId, seq : Nat, rel : BOOLEAN]
          /\ edgeStates' \subseteq [from : NodeId, to : NodeId, seq : Nat, rel : BOOLEAN]
      BY <1>4, <2>1, RouteType
    <3> QED
      BY <1>2, <1>4, <2>1, <2>4, <3>1, ProgressingType DEF IInv, TypeOK
  <2>6. Suspended'
    BY <1>1, <1>2, <1>3, <1>4, <2>1, <2>2 DEF Suspended
  <2>7. Canceling' /\ Limits'
    BY <1>2, <1>3, <1>7, <2>6 DEF IInv, Canceling, Limits
  <2>8. Sound' /\ Reports'
    BY <1>2, <1>4, <2>1, <2>2, <2>4 DEF Sound, Reports
  <2> QED
    BY <2>5, <2>7, <2>8 DEF IInv, Sound, Reports, Progressing, Matches, RunningExecutes,
       CancelFindsActions
<1>8. CASE ~paused
  <2>1. PICK w : w = NodeWork(o, n, 0)
    OBVIOUS
  <2>2. /\ nodeStates' = {s \in {NodeState(m) : m \in o.nodes} : Place(s) # Place(n)}
        /\ edgeStates' = {s \in {EdgeState(e) : e \in o.edges} : s \notin {EdgeState(e) : e \in {}}}
        /\ lastNode' = Place(n) /\ pausedNode' = {}
        /\ told' = told \cup {a \in UNION {ActionIdsOf(e) : e \in {}} : st[a] # "ENDED"}
        /\ exec' = {} \cup w.run /\ trav' = <<>> \o w.drive
        /\ actionStatus' = Dispatched(w, st)
    BY <1>1, <1>2, <1>3, <1>4, <1>8, <2>1 DEF ProcessNode, ToBeFinished, Perform, Dispatched
  <2>3. edgeStates' = {EdgeState(e) : e \in o.edges} /\ told' = told /\ exec' = w.run
    BY <2>2
  <2>4. Progressing(order', exec', trav', lastNode', actionStatus')
    <3>1. \A x \in Released(o) : LoneNone(x.acts)
      BY <1>2 DEF LoneNoneOrder
    <3>2. Progressing(o, w.run, w.drive, Place(n), Dispatched(w, st))
      BY <1>4, <1>5, <2>1, <3>1, NodeProgressing, ObedientAdapter
    <3>3. trav' = w.drive
      BY <2>2, <3>2 DEF Progressing
    <3> QED
      BY <1>2, <2>2, <2>3, <3>2, <3>3
  <2>5. Underway'
    <3>1. /\ {s \in {NodeState(m) : m \in o.nodes} : Place(s) # Place(n)}
                 = {NodeState(m) : m \in {k \in o.nodes : k.seq > n.seq}}
          /\ {EdgeState(e) : e \in o.edges}
                 = {EdgeState(e) : e \in {f \in o.edges : f.seq > n.seq}}
      BY <1>1, <1>4, RouteFromFirst
    <3>2. lastNode'.seq = n.seq
      BY <2>2 DEF Place
    <3> QED
      BY <1>2, <1>4, <2>2, <2>3, <3>1, <3>2 DEF Underway
  <2>6. TypeOK'
    <3>1. lastNode' \in [id : NodeId \cup {NoNode}, seq : Nat]
      BY <1>4, <2>2, PlaceType
    <3>2. /\ nodeStates' \subseteq [id : NodeId, seq : Nat, rel : BOOLEAN]
          /\ edgeStates' \subseteq [from : NodeId, to : NodeId, seq : Nat, rel : BOOLEAN]
      BY <1>4, <2>2, <2>3, RouteType
    <3> QED
      BY <1>2, <1>4, <2>2, <2>3, <2>4, <3>1, <3>2, ProgressingType DEF IInv, TypeOK
  <2>7. Reports'
    BY <1>2, <1>4, <2>4, <2>5, <2>6, UnderwayReports DEF Progressing, TypeOK
  <2>8. Canceling' /\ Limits'
    BY <1>2, <1>3, <2>2 DEF IInv, Canceling, Limits
  <2>9. Sound'
    BY <1>2, <1>4, <2>4 DEF Sound
  <2> QED
    BY <2>6, <2>7, <2>8, <2>9 DEF IInv, Sound, Reports, Progressing, Matches, RunningExecutes,
       CancelFindsActions
<1> QED
  BY <1>6, <1>7, <1>8

-----------------------------------------------------------------------------
(* Stitching: order o is joined to order p, at the node end at which the   *)
(* base of p ends and o begins; new takes the place of both.               *)

Joined(p, o, end, first, new) ==
    [orderId |-> o.orderId, upd |-> o.upd,
     nodes |-> (Base(p) \ {end}) \cup {new} \cup (o.nodes \ {first}),
     edges |-> {e \in p.edges : e.rel} \cup o.edges]

Joins(p, o, end, first, new) ==
    /\ p \in Order /\ OrderShape(p) /\ UniqueActions(p)
    /\ o \in Order /\ OrderShape(o) /\ UniqueActions(o)
    /\ BaseActions(o) \cap BaseActions(p) = {}
    /\ IsBaseEnd(p, end) /\ IsFirst(o, first) /\ first.rel /\ Place(end) = Place(first)
    /\ new = [end EXCEPT !.acts = @ \o first.acts]

(* Sequence u is t appended to s. *)
Appended(s, t, u) == u = s \o t

(* A concatenation has the elements of both sequences.                     *)
LEMMA AppendedElements ==
    ASSUME NEW s \in Seq(Action), NEW t \in Seq(Action), NEW u, Appended(s, t, u)
    PROVE  /\ u \in Seq(Action)
           /\ \A i \in DOMAIN s : i \in DOMAIN u /\ u[i] = s[i]
           /\ \A i \in DOMAIN t : \E j \in DOMAIN u : u[j] = t[i]
           /\ \A i \in DOMAIN u : i \in DOMAIN s \/ \E j \in DOMAIN t : u[i] = t[j]
<1>1. u = s \o t
  BY DEF Appended
<1>2. u \in Seq(Action)
  BY <1>1
<1>3. \A i \in DOMAIN s : i \in DOMAIN u /\ u[i] = s[i]
  BY <1>1
<1>4. ASSUME NEW i \in DOMAIN t PROVE \E j \in DOMAIN u : u[j] = t[i]
  <2>1. i + Len(s) \in DOMAIN u /\ u[i + Len(s)] = t[i]
    BY <1>1
  <2> QED
    BY <2>1
<1>5. ASSUME NEW i \in DOMAIN u, i \notin DOMAIN s PROVE \E j \in DOMAIN t : u[i] = t[j]
  <2>1. i - Len(s) \in DOMAIN t /\ u[i] = t[i - Len(s)]
    BY <1>1, <1>5
  <2> QED
    BY <2>1
<1> QED
  BY <1>2, <1>3, <1>4, <1>5

(* The actions of the joint node are those of the nodes it replaces. *)
LEMMA JointActions ==
    ASSUME NEW p, NEW o, NEW end, NEW first, NEW new, Joins(p, o, end, first, new)
    PROVE  /\ end \in p.nodes /\ end \in Node /\ end.rel /\ first \in o.nodes /\ first \in Node
           /\ end.acts \in Seq(Action) /\ first.acts \in Seq(Action)
           /\ Appended(end.acts, first.acts, new.acts)
<1>1. end \in p.nodes /\ end \in Node /\ end.rel /\ first \in o.nodes /\ first \in Node
  BY DEF Joins, IsBaseEnd, Base, IsFirst, Order
<1>2. PICK acts : acts = end.acts \o first.acts
  OBVIOUS
<1>3. new = [end EXCEPT !.acts = acts]
  BY <1>2 DEF Joins
<1>4. new.acts = acts
  BY <1>1, <1>3 DEF Node
<1>5. end.acts \in Seq(Action) /\ first.acts \in Seq(Action)
  BY <1>1 DEF Node
<1> QED
  BY <1>1, <1>2, <1>4, <1>5 DEF Appended

(* Otherwise it is the node at which the base ends. *)
LEMMA JointNode ==
    ASSUME NEW p, NEW o, NEW end, NEW first, NEW new, Joins(p, o, end, first, new)
    PROVE  /\ end \in p.nodes /\ end \in Node /\ end.rel /\ first \in o.nodes /\ first \in Node
           /\ new \in Node /\ new.rel
           /\ new.id = end.id /\ new.seq = end.seq /\ new.id = first.id /\ new.seq = first.seq
           /\ NodeState(new) = NodeState(end) /\ Place(new) = Place(end)
           /\ ActionIdsOf(new) = ActionIdsOf(end) \cup ActionIdsOf(first)
<1>1. /\ end \in p.nodes /\ end \in Node /\ end.rel /\ first \in o.nodes /\ first \in Node
      /\ end.acts \in Seq(Action) /\ first.acts \in Seq(Action)
      /\ Appended(end.acts, first.acts, new.acts)
  BY JointActions
<1>2. PICK acts : acts = end.acts \o first.acts /\ new = [end EXCEPT !.acts = acts]
  BY DEF Joins
<1>3. new.id = end.id /\ new.seq = end.seq /\ new.rel = end.rel /\ new.acts = acts
  BY <1>1, <1>2 DEF Node
<1>4. /\ new.acts \in Seq(Action)
      /\ \A i \in DOMAIN end.acts : i \in DOMAIN new.acts /\ new.acts[i] = end.acts[i]
      /\ \A i \in DOMAIN first.acts : \E j \in DOMAIN new.acts : new.acts[j] = first.acts[i]
      /\ \A i \in DOMAIN new.acts :
            i \in DOMAIN end.acts \/ \E j \in DOMAIN first.acts : new.acts[i] = first.acts[j]
  BY <1>1, AppendedElements
<1>5. new \in Node
  BY <1>1, <1>2, <1>3, <1>4 DEF Node
<1>6. new.id = first.id /\ new.seq = first.seq
  BY <1>3 DEF Joins, Place
<1>7. ActionIdsOf(new) = ActionIdsOf(end) \cup ActionIdsOf(first)
  BY <1>4 DEF ActionIdsOf
<1> QED
  BY <1>1, <1>3, <1>5, <1>6, <1>7 DEF NodeState, Place

(* Where the nodes and edges of the joined order come from. *)
LEMMA JoinedRoute ==
    ASSUME NEW p, NEW o, NEW end, NEW first, NEW new, Joins(p, o, end, first, new),
           NEW q, q = Joined(p, o, end, first, new)
    PROVE  /\ \A k \in q.nodes : \/ k \in p.nodes /\ k.rel /\ k.seq < end.seq
                                 \/ k = new
                                 \/ k \in o.nodes /\ k.seq > end.seq
           /\ \A m \in p.nodes : m.rel => m.seq <= end.seq /\ (m # end => m \in q.nodes)
           /\ \A m \in o.nodes : m.seq >= end.seq /\ (m # first => m \in q.nodes /\ m.seq > end.seq)
           /\ new \in q.nodes
           /\ q.edges = {e \in p.edges : e.rel} \cup o.edges
           /\ \A e \in p.edges : e.rel => e.seq < end.seq
           /\ \A e \in o.edges : e.seq > end.seq
<1>1. /\ q.nodes = (Base(p) \ {end}) \cup {new} \cup (o.nodes \ {first})
      /\ q.edges = {e \in p.edges : e.rel} \cup o.edges
  BY DEF Joined
<1>2. /\ \A m \in p.nodes : m.seq \in Nat
      /\ \A m \in o.nodes : m.seq \in Nat
      /\ \A e \in p.edges \cup o.edges : e.seq \in Nat
  BY DEF Joins, Order, Node, Edge
<1>3. end \in p.nodes /\ first \in o.nodes /\ end.seq = first.seq /\ end.rel
  BY JointNode
<1>4. \A m \in p.nodes : m.rel => m.seq <= end.seq /\ (m # end => m.seq < end.seq)
  BY <1>2, <1>3 DEF Joins, IsBaseEnd, Base, OrderShape
<1>5. \A m \in o.nodes : m.seq >= first.seq /\ (m # first => m.seq > first.seq)
  BY <1>2, <1>3 DEF Joins, IsFirst, OrderShape
<1>6. ASSUME NEW e \in p.edges, e.rel PROVE e.seq < end.seq
  <2>1. PICK n \in p.nodes : n.seq = e.seq + 1 /\ n.rel
    BY <1>6 DEF Joins, OrderShape, Leads
  <2> QED
    BY <1>2, <1>3, <1>4, <2>1
<1>7. ASSUME NEW e \in o.edges PROVE e.seq > end.seq
  <2>1. PICK m \in o.nodes : e.seq = m.seq + 1
    BY DEF Joins, OrderShape
  <2> QED
    BY <1>2, <1>3, <1>5, <2>1
<1> QED
  BY <1>1, <1>3, <1>4, <1>5, <1>6, <1>7 DEF Base

(* The joined order is an order, of the shape of one. *)
LEMMA JoinedShape ==
    ASSUME NEW p, NEW o, NEW end, NEW first, NEW new, Joins(p, o, end, first, new),
           NEW q, q = Joined(p, o, end, first, new)
    PROVE  q \in Order /\ OrderShape(q)
<1>1. q \in Order
  <2>1. o.orderId \in OrderId \cup {NoOrder} /\ o.upd \in Nat
    BY DEF Joins, Order
  <2>2. (Base(p) \ {end}) \cup {new} \cup (o.nodes \ {first}) \in SUBSET Node
    BY JointNode DEF Joins, Order, Base
  <2>3. {e \in p.edges : e.rel} \cup o.edges \in SUBSET Edge
    BY DEF Joins, Order
  <2> QED
    BY <2>1, <2>2, <2>3 DEF Joined, Order
<1>2. \A k \in q.nodes \cup p.nodes \cup o.nodes : k.seq \in Nat
  BY <1>1 DEF Joins, Order, Node
<1>3. /\ end \in p.nodes /\ end.rel /\ first \in o.nodes /\ new.rel
      /\ new.seq = end.seq /\ new.seq = first.seq /\ new.id = end.id /\ new.id = first.id
  BY JointNode
<1>4. /\ \A k \in q.nodes : \/ k \in p.nodes /\ k.rel /\ k.seq < end.seq
                            \/ k = new
                            \/ k \in o.nodes /\ k.seq > end.seq
      /\ \A m \in p.nodes : m.rel => m.seq <= end.seq /\ (m # end => m \in q.nodes)
      /\ \A m \in o.nodes : m.seq >= end.seq /\ (m # first => m \in q.nodes /\ m.seq > end.seq)
      /\ new \in q.nodes
      /\ q.edges = {e \in p.edges : e.rel} \cup o.edges
      /\ \A e \in p.edges : e.rel => e.seq < end.seq
      /\ \A e \in o.edges : e.seq > end.seq
  BY JoinedRoute
<1>5. OrderShape(p) /\ OrderShape(o)
  BY DEF Joins
<1>6. ASSUME NEW m \in q.nodes, NEW n \in q.nodes
      PROVE  /\ m.seq = n.seq => m = n
             /\ m.seq < n.seq => m.seq + 2 <= n.seq
             /\ n.rel /\ m.seq < n.seq => m.rel
  <2>1. /\ m \in p.nodes /\ m.seq < end.seq => m.seq + 2 <= end.seq
        /\ n \in o.nodes /\ n.seq > end.seq => first.seq + 2 <= n.seq
    BY <1>3, <1>5 DEF OrderShape
  <2>2. CASE m \in p.nodes /\ m.rel /\ m.seq < end.seq
    BY <1>2, <1>3, <1>4, <1>5, <2>1, <2>2 DEF OrderShape
  <2>3. CASE m = new
    BY <1>2, <1>3, <1>4, <1>5, <2>1, <2>3 DEF OrderShape
  <2>4. CASE m \in o.nodes /\ m.seq > end.seq
    BY <1>2, <1>3, <1>4, <1>5, <2>1, <2>4 DEF OrderShape
  <2> QED
    BY <1>4, <2>2, <2>3, <2>4
<1>7. \A e, f \in q.edges : e.seq = f.seq => e = f
  <2>1. \A e \in q.edges : e.seq \in Nat
    BY <1>1 DEF Order, Edge
  <2> QED
    BY <1>2, <1>3, <1>4, <1>5, <2>1 DEF OrderShape
<1>8. ASSUME NEW e \in q.edges
      PROVE  \E m, n \in q.nodes : e.from = m.id /\ e.seq = m.seq + 1 /\ Leads(e, n) /\ e.rel = n.rel
  <2>1. CASE e \in p.edges /\ e.rel
    <3>1. PICK m \in p.nodes, n \in p.nodes :
             e.from = m.id /\ e.seq = m.seq + 1 /\ Leads(e, n) /\ e.rel = n.rel
      BY <1>5, <2>1 DEF OrderShape
    <3>2. m.seq < n.seq /\ n.rel
      BY <1>2, <2>1, <3>1 DEF Leads
    <3>3. m.rel
      BY <1>5, <3>2 DEF OrderShape
    <3>4. \E k \in q.nodes : k.id = m.id /\ k.seq = m.seq
      BY <1>3, <1>4, <3>3
    <3>5. \E k \in q.nodes : k.id = n.id /\ k.seq = n.seq /\ k.rel
      BY <1>3, <1>4, <3>2
    <3> QED
      BY <2>1, <3>1, <3>2, <3>4, <3>5 DEF Leads
  <2>2. CASE e \in o.edges
    <3>1. PICK m \in o.nodes, n \in o.nodes :
             e.from = m.id /\ e.seq = m.seq + 1 /\ Leads(e, n) /\ e.rel = n.rel
      BY <1>5, <2>2 DEF OrderShape
    <3>2. \E k \in q.nodes : k.id = m.id /\ k.seq = m.seq
      BY <1>3, <1>4
    <3>3. n # first
      BY <1>2, <1>3, <1>4, <3>1 DEF Leads
    <3>4. n \in q.nodes
      BY <1>4, <3>3
    <3> QED
      BY <3>1, <3>2, <3>4
  <2> QED
    BY <1>4, <2>1, <2>2
<1> QED
  BY <1>1, <1>6, <1>7, <1>8 DEF OrderShape

(* The actions of the joined order are those of both, each still unique. *)
LEMMA JoinedActions ==
    ASSUME NEW p, NEW o, NEW end, NEW first, NEW new, Joins(p, o, end, first, new),
           NEW q, q = Joined(p, o, end, first, new)
    PROVE  UniqueActions(q) /\ BaseActions(q) = BaseActions(p) \cup BaseActions(o)
<1>1. /\ end \in Released(p) /\ first \in Released(o) /\ new \in Released(q) /\ end.seq \in Nat
      /\ ActionIdsOf(new) = ActionIdsOf(end) \cup ActionIdsOf(first)
  <2>1. end \in p.nodes /\ end.rel /\ first \in o.nodes /\ new.rel /\ end \in Node
        /\ ActionIdsOf(new) = ActionIdsOf(end) \cup ActionIdsOf(first)
    BY JointNode
  <2>2. new \in q.nodes
    BY JoinedRoute
  <2>3. first.rel
    BY DEF Joins
  <2>4. end.seq \in Nat
    BY <2>1 DEF Node
  <2> QED
    BY <2>1, <2>2, <2>3, <2>4 DEF Released
<1>2. \A x \in Released(q) : \/ x = new
                             \/ x \in Released(p) /\ x.seq < end.seq
                             \/ x \in Released(o) /\ x.seq > end.seq
  BY JoinedRoute DEF Released
<1>3. \A x \in Released(p) : x = end \/ x \in Released(q)
  BY JoinedRoute DEF Released
<1>4. \A x \in Released(o) : x = first \/ x \in Released(q)
  BY JoinedRoute DEF Released
<1>5. \A x \in Released(p), y \in Released(o) : ActionIdsOf(x) \cap ActionIdsOf(y) = {}
  BY DEF Joins, BaseActions
<1>6. end.seq = first.seq
  BY JointNode
<1>7. BaseActions(q) = BaseActions(p) \cup BaseActions(o)
  <2>1. \A x \in Released(q) : ActionIdsOf(x) \subseteq BaseActions(p) \cup BaseActions(o)
    BY <1>1, <1>2 DEF BaseActions
  <2>2. \A x \in Released(p) : ActionIdsOf(x) \subseteq BaseActions(q)
    BY <1>1, <1>3 DEF BaseActions
  <2>3. \A x \in Released(o) : ActionIdsOf(x) \subseteq BaseActions(q)
    BY <1>1, <1>4 DEF BaseActions
  <2> QED
    BY <2>1, <2>2, <2>3 DEF BaseActions
<1>8. ASSUME NEW x \in Released(q), NEW y \in Released(q), NEW a, a \in ActionIdsOf(x), a \in ActionIdsOf(y)
      PROVE  x = y
  <2>1. \A u, v \in Released(p) : a \in ActionIdsOf(u) /\ a \in ActionIdsOf(v) => u = v
    BY DEF Joins, UniqueActions
  <2>2. \A u, v \in Released(o) : a \in ActionIdsOf(u) /\ a \in ActionIdsOf(v) => u = v
    BY DEF Joins, UniqueActions
  <2>3. \A u \in Released(p), v \in Released(o) : ~(a \in ActionIdsOf(u) /\ a \in ActionIdsOf(v))
    BY <1>5
  <2>4. CASE x = new /\ y # new
    BY <1>1, <1>2, <1>6, <1>8, <2>1, <2>2, <2>3, <2>4
  <2>5. CASE x # new /\ y = new
    BY <1>1, <1>2, <1>6, <1>8, <2>1, <2>2, <2>3, <2>5
  <2>6. CASE x # new /\ y # new
    BY <1>2, <1>8, <2>1, <2>2, <2>3, <2>6
  <2> QED
    BY <2>4, <2>5, <2>6
<1>9. UniqueIds(new.acts)
  <2>1. /\ end.acts \in Seq(Action) /\ first.acts \in Seq(Action)
        /\ Appended(end.acts, first.acts, new.acts)
    BY JointActions
  <2>2. UniqueIds(end.acts) /\ UniqueIds(first.acts)
    BY <1>1 DEF Joins, UniqueActions, UniqueIds
  <2>3. \A i \in DOMAIN end.acts, j \in DOMAIN first.acts : end.acts[i].id # first.acts[j].id
    <3>1. ActionIdsOf(end) \cap ActionIdsOf(first) = {}
      BY <1>1, <1>5
    <3> QED
      BY <3>1 DEF ActionIdsOf
  <2>4. PICK s, t, u :
           /\ s \in Seq(Action) /\ t \in Seq(Action)
           /\ s = end.acts /\ t = first.acts /\ u = new.acts
           /\ Appended(s, t, u)
    BY <2>1
  <2>5. /\ UniqueIds(s) /\ UniqueIds(t)
        /\ \A i \in DOMAIN s, j \in DOMAIN t : s[i].id # t[j].id
    BY <2>2, <2>3, <2>4
  <2>6. /\ \A i \in DOMAIN s : u[i] = s[i]
        /\ \A i \in DOMAIN u : i \in DOMAIN s \/ (i - Len(s) \in DOMAIN t /\ u[i] = t[i - Len(s)])
        /\ \A i \in DOMAIN u : i \in Nat
    <3>1. u = s \o t
      BY <2>4 DEF Appended
    <3>2. \A i \in DOMAIN s : u[i] = s[i]
      BY <3>1
    <3>3. \A i \in DOMAIN u : i \in DOMAIN s \/ (i - Len(s) \in DOMAIN t /\ u[i] = t[i - Len(s)])
      BY <3>1
    <3>4. \A i \in DOMAIN u : i \in Nat
      BY <3>1
    <3> QED
      BY <3>2, <3>3, <3>4
  <2>7. Len(s) \in Nat
    OBVIOUS
  <2>8. UniqueIds(u)
    BY <2>5, <2>6, <2>7 DEF UniqueIds
  <2> QED
    BY <2>4, <2>8
<1>10. \A x \in Released(q) : \A i, j \in DOMAIN x.acts : x.acts[i].id = x.acts[j].id => i = j
  <2> TAKE x \in Released(q)
  <2>1. CASE x = new
    BY <1>9, <2>1 DEF UniqueIds
  <2>2. CASE x # new
    BY <1>2, <2>2 DEF Joins, UniqueActions
  <2> QED
    BY <2>1, <2>2
<1>11. \A x, y \in Released(q) : ActionIdsOf(x) \cap ActionIdsOf(y) # {} => x = y
  BY <1>8
<1> QED
  BY <1>7, <1>10, <1>11 DEF UniqueActions

(* A context that refers to the end of the base follows it to the joint.   *)
Moved(end, new, c) ==
    [c EXCEPT !.at = IF c.scope = "node" THEN (IF c.at = end THEN new ELSE c.at) ELSE c.at]

(* A context in front of an order is in front of the stitched one.         *)
LEMMA MovedContext ==
    ASSUME NEW p, NEW o, NEW end, NEW first, NEW new, Joins(p, o, end, first, new),
           NEW q, q = Joined(p, o, end, first, new),
           NEW loc, NEW c, InFront(p, c, loc), NEW d, d = Moved(end, new, c)
    PROVE  /\ InFront(q, d, loc) /\ d.act = c.act /\ d.scope = c.scope
           /\ (d.at = c.at \/ (c.at = end /\ d.at = new))
           /\ (c.scope = "node" => d.at = IF c.at = end THEN new ELSE c.at)
<1>1. /\ end \in p.nodes /\ end.rel /\ new \in Node /\ new.rel /\ Place(new) = Place(end)
      /\ ActionIdsOf(new) = ActionIdsOf(end) \cup ActionIdsOf(first)
  BY JointNode
<1>2. /\ \A m \in p.nodes : m.rel => (m # end => m \in q.nodes)
      /\ new \in q.nodes
      /\ q.edges = {e \in p.edges : e.rel} \cup o.edges
  BY JoinedRoute
<1>3. c \in Context /\ c.at.rel /\ c.act \in ActionIdsOf(c.at)
  BY DEF InFront
<1>4. CASE c.scope = "node"
  <2>1. /\ c \in [act : ActionId, scope : {"node"}, at : Node]
        /\ c.at \in p.nodes /\ Place(c.at) = loc
    BY <1>3, <1>4 DEF Context, InFront
  <2>2. /\ d.act = c.act /\ d.scope = "node"
        /\ d.at = IF c.at = end THEN new ELSE c.at
        /\ d \in [act : ActionId, scope : {"node"}, at : Node]
    BY <1>1, <1>4, <2>1 DEF Moved
  <2>3. /\ d.at.rel /\ d.act \in ActionIdsOf(d.at)
        /\ d.at \in q.nodes /\ Place(d.at) = loc
    BY <1>1, <1>2, <1>3, <2>1, <2>2
  <2> QED
    BY <1>4, <2>2, <2>3 DEF InFront, Context
<1>5. CASE c.scope # "node"
  <2>1. c \in [act : ActionId, scope : {"edge"}, at : Edge] /\ c.scope = "edge"
    BY <1>3, <1>5 DEF Context
  <2>2. d = c
    BY <1>5, <2>1 DEF Moved
  <2>3. c.at \in p.edges /\ c.at.from = loc.id /\ c.at.seq = loc.seq + 1
    BY <2>1 DEF InFront
  <2>4. c.at \in q.edges
    BY <1>2, <1>3, <2>3
  <2> QED
    BY <1>3, <1>5, <2>1, <2>2, <2>3, <2>4 DEF InFront
<1> QED
  BY <1>4, <1>5

(* Appending actions to a list changes nothing for those it had. *)
LEMMA AppendedGroup ==
    ASSUME NEW s \in Seq(Action), NEW t \in Seq(Action), NEW u, Appended(s, t, u),
           UniqueIds(s), UniqueIds(u), NEW i \in DOMAIN s
    PROVE  /\ u[i] = s[i] /\ Position(u, s[i].id) = i /\ Position(s, s[i].id) = i
           /\ Group(s, i) \subseteq Group(u, i)
           /\ (\A j \in DOMAIN u : j > i => u[j].blk # "HARD")
                  => (\A j \in DOMAIN s : j > i => s[j].blk # "HARD")
<1>1. /\ u \in Seq(Action)
      /\ \A j \in DOMAIN s : j \in DOMAIN u /\ u[j] = s[j]
  BY AppendedElements
<1>2. Position(u, u[i].id) = i /\ Position(s, s[i].id) = i
  BY <1>1, PositionOfAction
<1>3. \A j \in DOMAIN u, k \in DOMAIN s : j <= k => j \in DOMAIN s
  BY <1>1
<1>4. ASSUME NEW k \in Group(s, i) PROVE k \in Group(u, i)
  <2>1. k \in DOMAIN s /\ k \in DOMAIN u
    BY <1>1 DEF Group
  <2>2. ASSUME NEW j \in DOMAIN u, (k <= j /\ j <= i) \/ (i <= j /\ j <= k)
        PROVE  u[j].blk # "HARD"
    <3>1. j \in DOMAIN s
      BY <1>3, <2>1, <2>2
    <3> QED
      BY <1>1, <2>2, <3>1 DEF Group
  <2> QED
    BY <2>1, <2>2 DEF Group
<1> QED
  BY <1>1, <1>2, <1>4

(* Contexts in parallel stay so when actions are appended to their node.   *)
LEMMA MovedParallel ==
    ASSUME NEW p, NEW o, NEW end, NEW first, NEW new, Joins(p, o, end, first, new),
           NEW q, q = Joined(p, o, end, first, new),
           NEW loc, NEW c, InFront(p, c, loc), NEW f, InFront(p, f, loc), Parallel(c, f)
    PROVE  /\ Parallel(Moved(end, new, c), Moved(end, new, f))
           /\ Trailing(Moved(end, new, c)) => Trailing(c)
<1>0. PICK d, g : d = Moved(end, new, c) /\ g = Moved(end, new, f)
  OBVIOUS
<1>1. /\ InFront(q, d, loc) /\ d.act = c.act /\ d.scope = c.scope
      /\ (d.at = c.at \/ (c.at = end /\ d.at = new))
      /\ (c.scope = "node" => d.at = IF c.at = end THEN new ELSE c.at)
  BY <1>0, MovedContext
<1>2. /\ InFront(q, g, loc) /\ g.act = f.act /\ g.scope = f.scope
      /\ (g.at = f.at \/ (f.at = end /\ g.at = new))
      /\ (f.scope = "node" => g.at = IF f.at = end THEN new ELSE f.at)
  BY <1>0, MovedContext
<1>3. c.scope = f.scope /\ c.at = f.at
  BY DEF Parallel
<1>4. c.scope = "node" \/ (c.scope = "edge" /\ d = c /\ g = f)
  BY <1>0, <1>3 DEF InFront, Context, Moved
<1>5. CASE d = c /\ g = f
  BY <1>0, <1>5
<1>6. CASE c.scope = "node" /\ c.at # end
  <2>1. d = c /\ g = f
    BY <1>0, <1>3, <1>6 DEF InFront, Context, Moved
  <2> QED
    BY <1>5, <2>1
<1>7. CASE c.scope = "node" /\ c.at = end
  <2>1. d.at = new /\ g.at = new /\ f.at = end
    BY <1>1, <1>2, <1>3, <1>7
  <2>2. PICK s, t, u :
           /\ s \in Seq(Action) /\ t \in Seq(Action)
           /\ s = end.acts /\ t = first.acts /\ u = new.acts /\ Appended(s, t, u)
    BY JointActions
  <2>3. UniqueIds(s) /\ UniqueIds(u)
    <3>1. end \in Released(p) /\ new \in Released(q)
      BY JointNode, JoinedRoute DEF Released
    <3>2. UniqueActions(p) /\ UniqueActions(q)
      BY JoinedActions DEF Joins
    <3> QED
      BY <2>2, <3>1, <3>2 DEF UniqueActions, UniqueIds
  <2>4. PICK i \in DOMAIN s : s[i].id = c.act
    BY <1>7, <2>2 DEF InFront, ActionIdsOf
  <2>5. PICK j \in DOMAIN s : s[j].id = f.act
    BY <2>1, <2>2 DEF InFront, ActionIdsOf
  <2>6. /\ u[i] = s[i] /\ Position(u, c.act) = i /\ Position(s, c.act) = i
        /\ Group(s, i) \subseteq Group(u, i)
        /\ (\A k \in DOMAIN u : k > i => u[k].blk # "HARD")
               => (\A k \in DOMAIN s : k > i => s[k].blk # "HARD")
    BY <2>2, <2>3, <2>4, AppendedGroup
  <2>7. Position(u, f.act) = j /\ Position(s, f.act) = j
    BY <2>2, <2>3, <2>5, AppendedGroup
  <2>8. Trailing(d) => Trailing(c)
    BY <1>1, <1>7, <2>1, <2>2, <2>6 DEF Trailing
  <2>9. c = f \/ j \in Group(s, i)
    BY <1>7, <2>1, <2>2, <2>6, <2>7 DEF Parallel
  <2>10. d = g \/ j \in Group(u, i)
    BY <1>0, <2>6, <2>9
  <2>11. Parallel(d, g)
    BY <1>1, <1>2, <1>3, <2>1, <2>2, <2>6, <2>7, <2>10 DEF Parallel
  <2> QED
    BY <1>0, <2>8, <2>11
<1> QED
  BY <1>4, <1>5, <1>6, <1>7

MovedTraversal(end, new, t) == [t EXCEPT !.to = IF @ = end THEN new ELSE @]

(* A traversal in front of an order is in front of the stitched one.       *)
LEMMA MovedTraversalInFront ==
    ASSUME NEW p, NEW o, NEW end, NEW first, NEW new, Joins(p, o, end, first, new),
           NEW q, q = Joined(p, o, end, first, new),
           NEW loc, NEW t, InFrontEdge(p, t, loc)
    PROVE  InFrontEdge(q, MovedTraversal(end, new, t), loc)
           /\ MovedTraversal(end, new, t) \in Traversal
<1>0. PICK u : u = MovedTraversal(end, new, t)
  OBVIOUS
<1>1. /\ t \in [edge : Edge, to : Node] /\ t.edge \in p.edges /\ t.to \in p.nodes /\ t.edge.rel
      /\ Leads(t.edge, t.to) /\ t.edge.from = loc.id /\ t.edge.seq = loc.seq + 1
  BY DEF InFrontEdge
<1>2. t.to.rel
  <2>1. PICK n \in p.nodes : Leads(t.edge, n) /\ t.edge.rel = n.rel
    BY <1>1 DEF Joins, OrderShape
  <2>2. n.seq = t.to.seq
    BY <1>1, <2>1 DEF Leads
  <2>3. n = t.to
    BY <1>1, <2>1, <2>2 DEF Joins, OrderShape
  <2> QED
    BY <1>1, <2>1, <2>3
<1>3. end \in p.nodes /\ new \in Node /\ new.id = end.id /\ new.seq = end.seq
  BY JointNode
<1>4. /\ \A m \in p.nodes : m.rel => (m # end => m \in q.nodes)
      /\ new \in q.nodes
      /\ q.edges = {e \in p.edges : e.rel} \cup o.edges
  BY JoinedRoute
<1>5. /\ u \in [edge : Edge, to : Node]
      /\ u.edge = t.edge /\ u.to = IF t.to = end THEN new ELSE t.to
  BY <1>0, <1>1, <1>3 DEF MovedTraversal
<1>6. Leads(u.edge, u.to)
  BY <1>1, <1>3, <1>5 DEF Leads
<1>7. u.edge \in q.edges /\ u.to \in q.nodes
  BY <1>1, <1>2, <1>4, <1>5
<1> QED
  BY <1>0, <1>1, <1>5, <1>6, <1>7 DEF InFrontEdge, Traversal

(* What the adapter has to do stays at the front of the joined order. *)
LEMMA JoinedFront ==
    ASSUME NEW p, NEW o, NEW end, NEW first, NEW new, Joins(p, o, end, first, new),
           NEW q, q = Joined(p, o, end, first, new),
           NEW loc, NEW xs, NEW ts, Front(p, xs, ts, loc), NEW us,
           us = [i \in DOMAIN ts |-> MovedTraversal(end, new, ts[i])]
    PROVE  Front(q, {Moved(end, new, c) : c \in xs}, us, loc) /\ us \in Seq(Traversal)
<1>0. PICK ys : ys = {Moved(end, new, c) : c \in xs}
  OBVIOUS
<1>1. /\ \A c \in xs : InFront(p, c, loc)
      /\ \A c, d \in xs : Parallel(c, d)
      /\ \A c, d \in xs : Trailing(c) => c = d
      /\ ts = <<>> \/ (xs = {} /\ ts = <<ts[1]>> /\ InFrontEdge(p, ts[1], loc))
  BY DEF Front
<1>2. \A d \in ys : InFront(q, d, loc)
  BY <1>0, <1>1, MovedContext
<1>3. \A d, g \in ys : Parallel(d, g) /\ (Trailing(d) => d = g)
  <2> TAKE d, g \in ys
  <2>1. PICK c \in xs, f \in xs : d = Moved(end, new, c) /\ g = Moved(end, new, f)
    BY <1>0
  <2>2. Parallel(d, g) /\ (Trailing(d) => Trailing(c))
    BY <1>1, <2>1, MovedParallel
  <2> QED
    BY <1>1, <2>1, <2>2
<1>4. CASE ts = <<>>
  <2>1. us = <<>>
    BY <1>4
  <2>2. <<>> \in Seq(Traversal)
    OBVIOUS
  <2> QED
    BY <1>0, <1>2, <1>3, <2>1, <2>2 DEF Front
<1>5. CASE xs = {} /\ ts = <<ts[1]>> /\ InFrontEdge(p, ts[1], loc)
  <2>1. PICK t : t = MovedTraversal(end, new, ts[1])
    OBVIOUS
  <2>2. InFrontEdge(q, t, loc) /\ t \in Traversal
    BY <1>5, <2>1, MovedTraversalInFront
  <2>3. DOMAIN ts = {1}
    BY <1>5
  <2>4. us = [i \in {1} |-> t]
    BY <2>1, <2>3
  <2>5. us = <<t>> /\ us[1] = t
    BY <2>4
  <2>6. <<t>> \in Seq(Traversal)
    BY <2>2
  <2>7. ys = {}
    BY <1>0, <1>5
  <2>8. us = <<us[1]>> /\ InFrontEdge(q, us[1], loc)
    BY <2>2, <2>5
  <2> QED
    BY <1>0, <1>2, <1>3, <2>5, <2>6, <2>7, <2>8 DEF Front
<1> QED
  BY <1>1, <1>4, <1>5

(* k is not beyond what follows the end of the base. *)
UpTo(k, end) == k <= end.seq + 1

(* The reported states of the route of an order from sequence id k on. *)
NodesFrom(o, k) == {NodeState(n) : n \in {m \in o.nodes : m.seq >= k}}
EdgesFrom(o, k) == {EdgeState(e) : e \in {f \in o.edges : f.seq >= k}}

(* The rest of the route of the joined order, from sequence id k on. *)
LEMMA JoinedStates ==
    ASSUME NEW p, NEW o, NEW end, NEW first, NEW new, Joins(p, o, end, first, new),
           NEW q, q = Joined(p, o, end, first, new),
           NEW k \in Nat, UpTo(k, end)
    PROVE  /\ {s \in NodesFrom(p, k) : s.rel} \cup {NodeState(n) : n \in o.nodes \ {first}}
                = NodesFrom(q, k)
           /\ {s \in EdgesFrom(p, k) : s.rel} \cup {EdgeState(e) : e \in o.edges}
                = EdgesFrom(q, k)
<1>1. /\ end \in p.nodes /\ end.rel /\ end.seq \in Nat /\ first \in o.nodes
      /\ new.seq = end.seq /\ new.rel /\ NodeState(new) = NodeState(end)
  <2>1. /\ end \in p.nodes /\ end.rel /\ end \in Node /\ first \in o.nodes
        /\ new.seq = end.seq /\ new.rel /\ NodeState(new) = NodeState(end)
    BY JointNode
  <2> QED
    BY <2>1 DEF Node
<1>2. /\ \A m \in q.nodes : \/ m \in p.nodes /\ m.rel /\ m.seq < end.seq
                            \/ m = new
                            \/ m \in o.nodes /\ m.seq > end.seq
      /\ \A m \in p.nodes : m.rel => m.seq <= end.seq /\ (m # end => m \in q.nodes)
      /\ \A m \in o.nodes : m.seq >= end.seq /\ (m # first => m \in q.nodes /\ m.seq > end.seq)
      /\ new \in q.nodes
      /\ q.edges = {e \in p.edges : e.rel} \cup o.edges
      /\ \A e \in o.edges : e.seq > end.seq
  BY JoinedRoute
<1>3. /\ \A n \in q.nodes \cup p.nodes \cup o.nodes : n.seq \in Nat
      /\ \A e \in q.edges \cup p.edges \cup o.edges : e.seq \in Nat
  <2>1. q \in Order
    BY JoinedShape
  <2>2. p \in Order /\ o \in Order
    BY DEF Joins
  <2> QED
    BY <2>1, <2>2 DEF Order, Node, Edge
<1>4. /\ \A n : NodeState(n).rel = n.rel
      /\ \A e : EdgeState(e).rel = e.rel
  BY DEF NodeState, EdgeState
<1>5. first.seq = end.seq
  BY JointNode
<1>6. \A n \in p.nodes : n.rel /\ n.seq >= k =>
         \E m \in q.nodes : m.seq >= k /\ NodeState(m) = NodeState(n)
  BY <1>1, <1>2
<1>7. \A n \in o.nodes \ {first} : n \in q.nodes /\ n.seq >= k
  BY <1>1, <1>2, <1>3 DEF UpTo
<1>8. \A m \in q.nodes : m.seq >= k =>
         \/ \E n \in p.nodes : n.rel /\ n.seq >= k /\ NodeState(m) = NodeState(n)
         \/ m \in o.nodes \ {first}
  BY <1>1, <1>2, <1>3, <1>5
<1>9. \A e \in o.edges : e.seq >= k
  BY <1>1, <1>2, <1>3 DEF UpTo
<1> QED
  BY <1>2, <1>4, <1>6, <1>7, <1>8, <1>9 DEF NodesFrom, EdgesFrom

(* Stitching an order to the active one preserves the invariant.           *)
LEMMA StitchOrderStep ==
    ASSUME IInv, Obedient, LoneNoneOrder', NEW o \in Orders, StitchOrder(o)
    PROVE  IInv'
<1>0. PICK fresh : fresh = [a \in ActionId |->
                               IF a \in BaseActions(o) THEN "WAITING" ELSE actionStatus[a]]
  OBVIOUS
<1>1. PICK end \in order.nodes, first \in o.nodes :
         LET new == [end EXCEPT !.acts = @ \o first.acts]
             idle == /\ \A s \in nodeStates : Place(s) # Place(end)
                     /\ \A a \in ActionIdsOf(new) : actionStatus[a] = "ENDED"
         IN  /\ IsBaseEnd(order, end) /\ IsFirst(o, first) /\ Place(end) = Place(first)
             /\ order' = Stitched(o, end, first)
             /\ nodeStates' = {s \in nodeStates : s.rel}
                                  \cup {NodeState(n) : n \in o.nodes \ {first}}
             /\ edgeStates' = {s \in edgeStates : s.rel} \cup {EdgeState(e) : e \in o.edges}
             /\ pausedNode' = {IF n = end THEN new ELSE n : n \in pausedNode}
             /\ Perform(IF idle THEN ProcessEdge(order', new) ELSE NoWork, fresh,
                        {Moved(end, new, c) : c \in exec},
                        [i \in DOMAIN trav |-> MovedTraversal(end, new, trav[i])])
  BY <1>0 DEF StitchOrder, Moved, MovedTraversal
<1>2. PICK new : new = [end EXCEPT !.acts = @ \o first.acts]
  OBVIOUS
<1>3. PICK q : q = Joined(order, o, end, first, new)
  OBVIOUS
<1>4. PICK w : w = IF /\ \A s \in nodeStates : Place(s) # Place(end)
                      /\ \A a \in ActionIdsOf(new) : actionStatus[a] = "ENDED"
                   THEN ProcessEdge(q, new) ELSE NoWork
  OBVIOUS
<1>5. order' = q
  <2>1. order' = Stitched(o, end, first)
    BY <1>1
  <2> QED
    BY <1>2, <1>3, <2>1 DEF Stitched, Joined
<1>6. /\ nodeStates' = {s \in nodeStates : s.rel} \cup {NodeState(n) : n \in o.nodes \ {first}}
      /\ edgeStates' = {s \in edgeStates : s.rel} \cup {EdgeState(e) : e \in o.edges}
      /\ pausedNode' = {IF n = end THEN new ELSE n : n \in pausedNode}
  BY <1>1, <1>2
<1>7. PICK us : us = [i \in DOMAIN trav |-> MovedTraversal(end, new, trav[i])]
  OBVIOUS
<1>8. /\ exec' = {Moved(end, new, c) : c \in exec} \cup w.run
      /\ trav' = us \o w.drive
      /\ actionStatus' = Dispatched(w, fresh)
  <2>1. Perform(w, fresh, {Moved(end, new, c) : c \in exec}, us)
    BY <1>1, <1>2, <1>4, <1>5, <1>7
  <2> QED
    BY <2>1 DEF Perform, Dispatched
<1>9. /\ rejected' = {} /\ UNCHANGED <<lastNode, told, paused, canceling, stops, stopAt>>
      /\ HasActiveOrder /\ ~canceling
      /\ BaseActions(o) \cap BaseActions(order) = {}
  BY DEF StitchOrder, Unacceptable, stopping
<1>10. o \in Order /\ OrderShape(o) /\ UniqueActions(o) /\ first.rel
  BY <1>1, OrderMessage
<1>11. Joins(order, o, end, first, new)
  BY <1>1, <1>2, <1>9, <1>10 DEF Joins, IInv, TypeOK
<1>12. /\ q \in Order /\ OrderShape(q) /\ UniqueActions(q)
       /\ BaseActions(q) = BaseActions(order) \cup BaseActions(o)
  BY <1>3, <1>11, JoinedShape, JoinedActions
<1>13. /\ fresh \in [ActionId -> Status]
       /\ \A a \in ActionId : fresh[a] # "ABSENT" => a \in BaseActions(q)
       /\ \A a \in ActionId : fresh[a] = "RUNNING" <=> actionStatus[a] = "RUNNING"
  <2>1. \A a \in ActionId : actionStatus[a] # "ABSENT" => a \in BaseActions(order)
    BY DEF IInv, CancelFindsActions
  <2>2. fresh \in [ActionId -> Status]
    BY <1>0 DEF IInv, TypeOK, Status
  <2>3. \A a \in ActionId : fresh[a] # "ABSENT" => a \in BaseActions(q)
    BY <1>0, <1>12, <2>1
  <2>4. \A a \in ActionId : fresh[a] = "RUNNING" <=> actionStatus[a] = "RUNNING"
    BY <1>0, <1>9, <2>1
  <2> QED
    BY <2>2, <2>3, <2>4
<1>14. /\ end \in Node /\ end.rel /\ end.seq \in Nat /\ new \in Node /\ new.rel
       /\ new.seq = end.seq /\ new.id = end.id /\ Place(new) = Place(end)
       /\ ActionIdsOf(new) = ActionIdsOf(end) \cup ActionIdsOf(first)
  <2>1. /\ end \in Node /\ end.rel /\ new \in Node /\ new.rel
        /\ new.seq = end.seq /\ new.id = end.id /\ Place(new) = Place(end)
        /\ ActionIdsOf(new) = ActionIdsOf(end) \cup ActionIdsOf(first)
    BY <1>11, JointNode
  <2> QED
    BY <2>1 DEF Node
<1>15. Front(order, exec, trav, lastNode) /\ trav \in Seq(Traversal)
  BY DEF IInv, TypeOK, Traversal
<1>16. PICK ys : ys = {Moved(end, new, c) : c \in exec}
  OBVIOUS
<1>17. Front(q, ys, us, lastNode) /\ us \in Seq(Traversal)
  BY <1>3, <1>7, <1>11, <1>15, <1>16, JoinedFront
<1>18. Matches(fresh, ys)
  <2>1. \A c \in exec : Moved(end, new, c).act = c.act
    BY <1>3, <1>11, <1>15, MovedContext DEF Front
  <2>2. \A a \in ActionId : (\E c \in exec : c.act = a) <=> (\E d \in ys : d.act = a)
    BY <1>16, <2>1
  <2> QED
    BY <1>13, <2>2 DEF Matches, IInv, RunningExecutes
<1>19. \A n \in order.nodes : n.rel => n.seq <= end.seq /\ n.seq \in Nat
  <2>1. \A n \in order.nodes : n.rel => n.seq <= end.seq
    BY <1>3, <1>11, JoinedRoute
  <2>2. \A n \in order.nodes : n.seq \in Nat
    BY DEF IInv, TypeOK, Order, Node
  <2> QED
    BY <2>1, <2>2
<1>20. \A e \in order.edges : e.rel => e.seq < end.seq
  BY <1>3, <1>11, JoinedRoute
<1>21. (pausedNode = {} => Underway) /\ (pausedNode # {} => Suspended)
  BY <1>9 DEF IInv, Canceling
<1>22. Progressing(q, exec', trav', lastNode, actionStatus')
  <2>1. CASE w = NoWork
    <3>1. /\ exec' = ys \cup {} /\ trav' = us \o <<>>
          /\ actionStatus' = [a \in ActionId |-> fresh[a]]
      BY <1>8, <1>16, <2>1 DEF NoWork, Dispatched
    <3>2. exec' = ys /\ trav' = us
      BY <1>17, <3>1
    <3>3. actionStatus' = fresh
      BY <1>13, <3>1
    <3> QED
      BY <1>13, <1>17, <1>18, <3>2, <3>3 DEF Progressing
  <2>2. CASE w # NoWork
    <3>1. /\ \A s \in nodeStates : Place(s) # Place(end)
          /\ \A a \in ActionIdsOf(new) : actionStatus[a] = "ENDED"
          /\ w = ProcessEdge(q, new)
      BY <1>4, <2>2
    <3>2. Place(NodeState(end)) = Place(end)
      BY DEF Place, NodeState
    <3>3. pausedNode = {} /\ Underway
      BY <1>1, <1>21, <3>1, <3>2 DEF Suspended
    <3>4. lastNode = Place(end)
      <4>1. PICK n \in order.nodes : n.rel /\ Place(n) = lastNode
        BY <3>3 DEF Underway
      <4>2. ~(end.seq > lastNode.seq)
        BY <1>1, <3>1, <3>2, <3>3 DEF Underway
      <4>3. n.seq = lastNode.seq
        BY <4>1 DEF Place
      <4>4. n.seq = end.seq
        BY <1>14, <1>19, <4>1, <4>2, <4>3
      <4>5. n = end
        BY <1>1, <4>1, <4>4 DEF IInv, OrderShape
      <4> QED
        BY <4>1, <4>5
    <3>5. lastNode.seq = end.seq
      BY <3>4 DEF Place
    <3>6. \A e \in order.edges : e.rel => e.seq # lastNode.seq + 1
      BY <1>14, <1>20, <3>5 DEF IInv, TypeOK, Order, Edge
    <3>7. exec = {}
      <4> SUFFICES ASSUME NEW c \in exec PROVE FALSE
        OBVIOUS
      <4>1. InFront(order, c, lastNode) /\ actionStatus[c.act] = "RUNNING"
        BY <1>15, Consequences DEF Front
      <4>2. c.scope = "node" /\ c.at \in order.nodes /\ Place(c.at) = lastNode
            /\ c.act \in ActionIdsOf(c.at)
        BY <3>6, <4>1 DEF InFront, Context
      <4>3. c.at.seq = end.seq
        BY <3>4, <4>2 DEF Place
      <4>4. c.at = end
        BY <1>1, <4>2, <4>3 DEF IInv, OrderShape
      <4> QED
        BY <1>14, <3>1, <4>1, <4>2, <4>4
    <3>8. trav = <<>>
      BY <1>15, <3>6 DEF Front, InFrontEdge
    <3>9. exec' = w.run /\ trav' = <<>> \o w.drive
      <4>1. us = <<>>
        BY <1>7, <3>8
      <4> QED
        BY <1>8, <3>7, <4>1
    <3>10. w.drive \in Seq(Traversal) /\ Front(q, w.run, w.drive, lastNode)
      <4>1. \A x \in Released(q) : LoneNone(x.acts)
        BY <1>5 DEF LoneNoneOrder
      <4>2. Place(new) = lastNode
        BY <1>14, <3>4
      <4> QED
        BY <1>12, <3>1, <4>1, <4>2, ProcessEdgeInFront
    <3>11. \A a \in ActionId : fresh[a] # "RUNNING"
      BY <1>13, <3>7 DEF IInv, RunningExecutes
    <3>12. Progressing(q, w.run, w.drive, lastNode, Dispatched(w, fresh))
      BY <1>13, <3>10, <3>11, DispatchedProgressing, ObedientAdapter
    <3>13. trav' = w.drive
      BY <3>9, <3>10
    <3> QED
      BY <1>8, <3>9, <3>12, <3>13
  <2> QED
    BY <2>1, <2>2
<1>23. Sound'
  BY <1>5, <1>9, <1>12, <1>22 DEF Sound
<1>24. \A m \in order.nodes \cup q.nodes : m.seq \in Nat
  BY <1>12 DEF IInv, TypeOK, Order, Node
<1>25. \A e \in order.edges \cup q.edges : e.seq \in Nat
  BY <1>12 DEF IInv, TypeOK, Order, Edge
<1>26. pausedNode' \subseteq Node
  BY <1>6, <1>14 DEF IInv, TypeOK
<1>27. TypeOK'
  <2>1. /\ nodeStates' \subseteq [id : NodeId, seq : Nat, rel : BOOLEAN]
        /\ edgeStates' \subseteq [from : NodeId, to : NodeId, seq : Nat, rel : BOOLEAN]
    BY <1>6, <1>10, RouteType DEF IInv, TypeOK
  <2>2. /\ exec' \subseteq Context /\ trav' \in Seq([edge : Edge, to : Node])
        /\ actionStatus' \in [ActionId -> Status]
    BY <1>22, ProgressingType
  <2> QED
    BY <1>5, <1>9, <1>12, <1>26, <2>1, <2>2 DEF IInv, TypeOK
<1>28. CASE pausedNode = {}
  <2>1. Underway /\ lastNode.seq \in Nat
    BY <1>21, <1>28 DEF IInv, TypeOK
  <2>2. PICK n \in order.nodes : n.rel /\ Place(n) = lastNode
    BY <2>1 DEF Underway
  <2>3. n.seq = lastNode.seq
    BY <2>2 DEF Place
  <2>4. PICK k \in Nat : k = lastNode.seq + 1
    BY <2>1
  <2>5. UpTo(k, end)
    BY <1>14, <1>19, <2>2, <2>3, <2>4 DEF UpTo
  <2>6. /\ {s \in NodesFrom(order, k) : s.rel} \cup {NodeState(m) : m \in o.nodes \ {first}}
             = NodesFrom(q, k)
        /\ {s \in EdgesFrom(order, k) : s.rel} \cup {EdgeState(e) : e \in o.edges}
             = EdgesFrom(q, k)
    BY <1>3, <1>11, <2>5, JoinedStates
  <2>7. /\ {l \in order.nodes : l.seq >= k} = {l \in order.nodes : l.seq > lastNode.seq}
        /\ {l \in q.nodes : l.seq >= k} = {l \in q.nodes : l.seq > lastNode.seq}
    BY <1>24, <2>1, <2>4
  <2>8. /\ {f \in order.edges : f.seq >= k} = {f \in order.edges : f.seq > lastNode.seq}
        /\ {f \in q.edges : f.seq >= k} = {f \in q.edges : f.seq > lastNode.seq}
    BY <1>25, <2>1, <2>4
  <2>9. /\ nodeStates' = {NodeState(m) : m \in {l \in q.nodes : l.seq > lastNode.seq}}
        /\ edgeStates' = {EdgeState(e) : e \in {f \in q.edges : f.seq > lastNode.seq}}
    <3>1. /\ nodeStates = NodesFrom(order, k) /\ edgeStates = EdgesFrom(order, k)
      BY <2>1, <2>7, <2>8 DEF Underway, NodesFrom, EdgesFrom
    <3>2. /\ nodeStates' = NodesFrom(q, k) /\ edgeStates' = EdgesFrom(q, k)
      BY <1>6, <2>6, <3>1
    <3> QED
      BY <2>7, <2>8, <3>2 DEF NodesFrom, EdgesFrom
  <2>10. \E m \in q.nodes : m.rel /\ Place(m) = lastNode
    <3>1. n # end => n \in q.nodes
      BY <1>3, <1>11, <2>2, JoinedRoute
    <3>2. new \in q.nodes
      BY <1>3, <1>11, JoinedRoute
    <3> QED
      BY <1>14, <2>2, <3>1, <3>2
  <2>11. Underway'
    BY <1>5, <1>9, <2>9, <2>10 DEF Underway
  <2>12. Reports'
    BY <1>5, <1>9, <1>22, <1>27, <2>11, UnderwayReports DEF Progressing, TypeOK
  <2>13. pausedNode' = {}
    BY <1>6, <1>28
  <2>14. Canceling' /\ Limits'
    BY <1>9, <1>28, <2>13, Consequences DEF IInv, Canceling, Limits
  <2> QED
    BY <1>23, <1>27, <2>12, <2>14 DEF IInv, Sound, Reports, Progressing, Matches,
       RunningExecutes, CancelFindsActions
<1>29. CASE pausedNode # {}
  <2>1. Suspended
    BY <1>21, <1>29
  <2>2. PICK n \in order.nodes : n.rel /\ IsFirst(order, n) /\ pausedNode = {n}
    BY <2>1 DEF Suspended
  <2>3. PICK m : m = IF n = end THEN new ELSE n
    OBVIOUS
  <2>4. pausedNode' = {m}
    BY <1>6, <2>2, <2>3
  <2>5. m \in q.nodes /\ m.rel /\ m.seq = n.seq
    <3>1. n # end => n \in q.nodes
      BY <1>3, <1>11, <2>2, JoinedRoute
    <3>2. new \in q.nodes
      BY <1>3, <1>11, JoinedRoute
    <3> QED
      BY <1>14, <2>2, <2>3, <3>1, <3>2
  <2>6. IsFirst(q, m)
    <3>1. n.seq <= end.seq /\ n.seq \in Nat /\ \A l \in order.nodes : n.seq <= l.seq
      BY <1>19, <2>2 DEF IsFirst
    <3>2. \A l \in q.nodes : l \in order.nodes \/ l = new \/ l.seq > end.seq
      BY <1>3, <1>11, JoinedRoute
    <3> QED
      BY <1>14, <1>24, <2>5, <3>1, <3>2 DEF IsFirst
  <2>7. /\ nodeStates' = {NodeState(l) : l \in q.nodes}
        /\ edgeStates' = {EdgeState(e) : e \in q.edges}
    <3>1. /\ {s \in NodesFrom(order, 0) : s.rel} \cup {NodeState(l) : l \in o.nodes \ {first}}
               = NodesFrom(q, 0)
          /\ {s \in EdgesFrom(order, 0) : s.rel} \cup {EdgeState(e) : e \in o.edges}
               = EdgesFrom(q, 0)
      <4>1. UpTo(0, end)
        BY <1>14 DEF UpTo
      <4> QED
        BY <1>3, <1>11, <4>1, JoinedStates
    <3>2. /\ {l \in order.nodes : l.seq >= 0} = order.nodes
          /\ {l \in q.nodes : l.seq >= 0} = q.nodes
      BY <1>24
    <3>3. /\ {f \in order.edges : f.seq >= 0} = order.edges
          /\ {f \in q.edges : f.seq >= 0} = q.edges
      BY <1>25
    <3> QED
      BY <1>6, <2>1, <3>1, <3>2, <3>3 DEF Suspended, NodesFrom, EdgesFrom
  <2>8. exec = {} /\ trav = <<>> /\ stops = 0
    BY <2>1 DEF Suspended
  <2>9. w = NoWork
    <3>1. NodeState(end) \in nodeStates
      BY <1>1, <2>1 DEF Suspended
    <3>2. Place(NodeState(end)) = Place(end)
      BY DEF Place, NodeState
    <3> QED
      BY <1>4, <3>1, <3>2
  <2>10. exec' = {} /\ trav' = <<>>
    <3>1. us = <<>>
      BY <1>7, <2>8
    <3>2. exec' = {} \cup {} /\ trav' = <<>> \o <<>>
      BY <1>8, <2>8, <2>9, <3>1 DEF NoWork
    <3> QED
      BY <3>2
  <2>11. Suspended'
    BY <1>5, <1>9, <2>4, <2>5, <2>6, <2>7, <2>8, <2>10 DEF Suspended
  <2>12. Canceling'
    BY <1>9, <2>8, <2>11 DEF IInv, Canceling
  <2>13. Limits'
    BY <1>9, <2>2 DEF IInv, Limits
  <2>14. Reports'
    BY <1>9, <2>4, <2>10 DEF Reports
  <2> QED
    BY <1>23, <1>27, <2>12, <2>13, <2>14 DEF IInv, Sound, Reports, Progressing, Matches,
       RunningExecutes, CancelFindsActions
<1> QED
  BY <1>28, <1>29

-----------------------------------------------------------------------------
(* The invariant, and what it implies. *)

(* Every step of the controller or the adapter preserves the invariant.    *)
LEMMA NextStep ==
    ASSUME IInv, Obedient, LoneNoneOrder, LoneNoneOrder', [Next]_vars
    PROVE  IInv'
<1>1. CASE UNCHANGED vars
  BY <1>1, StutterStep
<1>2. ASSUME NEW o \in Orders, RejectOrder(o) \/ DiscardOrder(o) \/ StartOrder(o) \/ StitchOrder(o)
      PROVE  IInv'
  BY <1>2, RejectOrderStep, StutterStep, StartOrderStep, StitchOrderStep DEF DiscardOrder
<1>3. ASSUME NEW c \in exec, ActionBegins(c) \/ ActionEnds(c) PROVE IInv'
  <2>1. ~ActionBegins(c)
    BY ObedientAdapter DEF ActionBegins
  <2> QED
    BY <1>3, <2>1, ActionEndsStep
<1>4. CASE EdgeTraversed
  BY <1>4, EdgeTraversedStep
<1>5. CASE CancelOrder
  BY <1>5, CancelOrderStep
<1>6. CASE DrivingToNextNode
  BY <1>6, DrivingToNextNodeStep
<1>7. CASE Stopped
  BY <1>7, StoppedStep
<1>8. CASE StartPause \/ PauseButton
  BY <1>8, PauseStep
<1>9. CASE StopPause
  BY <1>9, StopPauseStep
<1> QED
  BY <1>1, <1>2, <1>3, <1>4, <1>5, <1>6, <1>7, <1>8, <1>9 DEF Next

(* With an obedient adapter, and as long as NONE actions run alone, the    *)
(* controller and the adapter agree in every reachable state about what is *)
(* in execution: IInv is an invariant of every handler and callback.       *)
THEOREM Invariance ==
    ASSUME Obedient
    PROVE  Spec /\ []LoneNoneOrder => []IInv
<1>1. Init => IInv
  BY InitIInv
<1>2. IInv /\ LoneNoneOrder /\ LoneNoneOrder' /\ [Next]_vars => IInv'
  BY NextStep
<1> QED
  BY <1>1, <1>2, PTL DEF Spec

(* The variables of the controller and of the adapter keep their types.    *)
THEOREM TypeCorrectness ==
    ASSUME Obedient
    PROVE  Spec /\ []LoneNoneOrder => []TypeOK
<1>1. IInv => TypeOK
  BY DEF IInv
<1> QED
  BY <1>1, Invariance, PTL

(* A HARD action executes alone, whatever the order and its extensions:    *)
(* _processNodeActions and _updateActionStatus never overlap it.           *)
THEOREM HardActionsRunAlone ==
    ASSUME Obedient
    PROVE  Spec /\ []LoneNoneOrder => []HardRunsAlone
<1>1. ASSUME IInv PROVE HardRunsAlone
  <2> SUFFICES ASSUME NEW c \in exec, NEW d \in exec, Blocking(c) = "HARD" PROVE c = d
    BY DEF HardRunsAlone
  <2>1. InFront(order, c, lastNode) /\ Parallel(c, d)
    BY <1>1 DEF IInv, Front
  <2>2. c.at \in Released(order) /\ c.at.acts \in Seq(Action) /\ \E i \in DOMAIN c.at.acts : c.at.acts[i].id = c.act
    BY <2>1 DEF InFront, Released, Context, Node, Edge, ActionIdsOf
  <2>3. UniqueIds(c.at.acts)
    BY <1>1, <2>2 DEF IInv, UniqueActions, UniqueIds
  <2>4. Position(c.at.acts, c.act) \in DOMAIN c.at.acts
    BY <2>2, <2>3, PositionExists
  <2>5. Position(c.at.acts, d.act) \notin Group(c.at.acts, Position(c.at.acts, c.act))
    <3>1. PICK acts, k : acts = c.at.acts /\ k = Position(c.at.acts, c.act)
      OBVIOUS
    <3>2. acts \in Seq(Action) /\ k \in DOMAIN acts /\ acts[k].blk = "HARD"
      BY <2>2, <2>4, <3>1 DEF Blocking
    <3>3. Group(acts, k) = {}
      BY <3>2 DEF Group
    <3> QED
      BY <3>1, <3>3
  <2> QED
    BY <2>1, <2>5 DEF Parallel
<1> QED
  BY <1>1, Invariance, PTL

(* The AGV is given an edge to traverse only while no SOFT or HARD action  *)
(* executes (_processEdge, _traverseEdge).                                 *)
THEOREM BlockedStands ==
    ASSUME Obedient
    PROVE  Spec /\ []LoneNoneOrder => []StandsWhileBlocked
<1>1. IInv => StandsWhileBlocked
  BY Consequences DEF StandsWhileBlocked
<1> QED
  BY <1>1, Invariance, PTL

(* traverseEdge is never invoked while an edge is being traversed, and the *)
(* traversed edge is one the state reports.                                *)
THEOREM OneEdgeAtATime ==
    ASSUME Obedient
    PROVE  Spec /\ []LoneNoneOrder => []OneTraversal
<1>1. ASSUME IInv PROVE OneTraversal
  <2>1. CASE trav = <<>>
    BY <2>1 DEF OneTraversal
  <2>2. CASE trav # <<>>
    <3>1. PICK t : trav = <<t>> /\ InFrontEdge(order, t, lastNode) /\ pausedNode = {}
      BY <1>1, <2>2, Consequences
    <3>2. Len(trav) = 1 /\ Head(trav) = t
      BY <3>1
    <3>3. ~canceling => EdgeState(t.edge) \in edgeStates
      <4>1. order \in Order /\ lastNode.seq \in Nat
        BY <1>1 DEF IInv, TypeOK
      <4>2. EdgeState(t.edge) \in {EdgeState(e) : e \in {f \in order.edges : f.seq > lastNode.seq}}
        BY <3>1, <4>1, InFrontEdgeReported
      <4>3. ~canceling => Underway
        BY <1>1, <2>2, <3>1 DEF IInv
      <4> QED
        BY <4>2, <4>3 DEF Underway
    <3> QED
      BY <3>2, <3>3 DEF OneTraversal
  <2> QED
    BY <2>1, <2>2
<1> QED
  BY <1>1, Invariance, PTL

(* Once an order is over, neither the controller nor the adapter has       *)
(* anything left to do for it.                                             *)
THEOREM IdleQuiet ==
    ASSUME Obedient
    PROVE  Spec /\ []LoneNoneOrder => []IdleIsQuiet
<1>1. IInv => IdleIsQuiet
  BY Consequences DEF IdleIsQuiet
<1> QED
  BY <1>1, Invariance, PTL

(* An order cancelation stops the AGV once, and only after the last action *)
(* of the order has ended (_onOrderActionsCanceled).                       *)
THEOREM CancelationStops ==
    ASSUME Obedient
    PROVE  Spec /\ []LoneNoneOrder => [](StopsOnce /\ StopsLast)
<1>1. IInv => StopsOnce /\ StopsLast
  BY DEF IInv, Canceling, StopsOnce, StopsLast
<1> QED
  BY <1>1, Invariance, PTL

(* _cancelOrder finds the node or edge of every action it has to cancel,   *)
(* after any sequence of stitching orders and updates.                     *)
THEOREM CancelationFindsActions ==
    ASSUME Obedient
    PROVE  Spec /\ []LoneNoneOrder => []CancelFindsActions
<1>1. IInv => CancelFindsActions
  BY DEF IInv
<1> QED
  BY <1>1, Invariance, PTL

(* The nodes and edges reported while an order is executed are exactly its *)
(* route beyond the last node, after any number of stitching orders.       *)
THEOREM RouteReported ==
    ASSUME Obedient
    PROVE  Spec /\ []LoneNoneOrder => []RouteAhead
<1>1. IInv => RouteAhead
  BY DEF IInv, Underway, RouteAhead
<1> QED
  BY <1>1, Invariance, PTL

-----------------------------------------------------------------------------
(* What the steps do that visit a node. *)

(* The end node of the edge being traversed is released and comes next.    *)
LEMMA NextNode ==
    ASSUME IInv, trav # <<>>
    PROVE  LET t == Head(trav) IN
           /\ Tail(trav) = <<>> /\ InFrontEdge(order, t, lastNode)
           /\ t.to \in order.nodes /\ t.to.rel /\ t.to.seq = lastNode.seq + 2
           /\ lastNode.seq \in Nat
<1>1. PICK t : t = trav[1]
  OBVIOUS
<1>2. trav = <<t>> /\ InFrontEdge(order, t, lastNode)
  BY <1>1, Consequences
<1>3. Head(trav) = t /\ Tail(trav) = <<>>
  BY <1>2, SingletonSeq
<1>4. t.to \in order.nodes /\ t.edge \in order.edges /\ t.edge.rel /\ Leads(t.edge, t.to)
  BY <1>2 DEF InFrontEdge
<1>5. t.to.rel
  <2>1. PICK n \in order.nodes : Leads(t.edge, n) /\ t.edge.rel = n.rel
    BY <1>4 DEF IInv, OrderShape
  <2>2. n = t.to
    BY <1>4, <2>1 DEF IInv, OrderShape, Leads
  <2> QED  BY <1>4, <2>1, <2>2
<1>6. lastNode.seq \in Nat
  BY DEF IInv, TypeOK
<1>7. t.to.seq = lastNode.seq + 2
  BY <1>2, <1>6 DEF InFrontEdge, Leads
<1> QED  BY <1>2, <1>3, <1>4, <1>5, <1>6, <1>7

(* Outside cancelation edgeTraversed visits the end node of the edge.      *)
LEMMA EdgeTraversedVisits ==
    ASSUME IInv, Obedient, EdgeTraversed, ~canceling
    PROVE  LET n == Head(trav).to IN
           /\ lastNode' = Place(n)
           /\ nodeStates' = {s \in nodeStates : Place(s) # Place(n)}
<1>1. trav # <<>> /\ ~paused
  BY ObedientAdapter DEF EdgeTraversed
<1>2. paused' = paused
  BY DEF EdgeTraversed
<1>3. Head(trav).to.rel
  BY <1>1, NextNode
<1>4. ProcessNode(Head(trav).to, {Head(trav).edge}, nodeStates, edgeStates, actionStatus, Tail(trav))
  BY DEF EdgeTraversed
<1> QED  BY <1>1, <1>2, <1>3, <1>4 DEF ProcessNode

(* stopPause visits the first node of an order accepted in pause mode.     *)
LEMMA StopPauseVisits ==
    ASSUME IInv, StopPause, pausedNode # {}
    PROVE  \E n \in order.nodes :
              /\ IsFirst(order, n) /\ n.rel /\ lastNode' = Place(n)
              /\ nodeStates = {NodeState(m) : m \in order.nodes}
              /\ nodeStates' = {s \in nodeStates : Place(s) # Place(n)}
              /\ ~canceling /\ ~canceling' /\ order' = order
<1>1. Suspended
  BY DEF IInv, Canceling
<1>2. PICK n \in order.nodes : n.rel /\ IsFirst(order, n) /\ pausedNode = {n}
  BY <1>1 DEF Suspended
<1>3. ProcessNode(n, {}, nodeStates, edgeStates, actionStatus, trav)
  BY <1>1, <1>2 DEF StopPause, Suspended
<1>4. ~paused' /\ order' = order /\ canceling' = canceling
  BY DEF StopPause
<1> QED  BY <1>1, <1>2, <1>3, <1>4 DEF ProcessNode, Suspended

(* The AGV is never reported at a node it was not led to: an order begins  *)
(* at its first node, and from each node the AGV is reported at it goes on *)
(* by the one released edge that follows, whatever was stitched, paused or *)
(* canceled in between.                                                    *)
THEOREM NodesInSequence ==
    ASSUME Obedient
    PROVE  Spec /\ []LoneNoneOrder => NoNodeSkipped
<1> DEFINE Led == \/ lastNode' = lastNode
                  \/ \E n \in order'.nodes : IsFirst(order', n) /\ lastNode' = Place(n)
                  \/ \E e \in order.edges :
                        /\ e.rel /\ e.from = lastNode.id /\ e.to = lastNode'.id
                        /\ e.seq = lastNode.seq + 1 /\ lastNode'.seq = e.seq + 1
<1>1. IInv /\ [Next]_vars => Led
  <2> SUFFICES ASSUME IInv, [Next]_vars, lastNode' # lastNode PROVE Led
    OBVIOUS
  <2>1. ASSUME NEW o \in Orders, StartOrder(o) PROVE Led
    <3>1. PICK n \in o.nodes :
             /\ IsFirst(o, n)
             /\ \E st : ProcessNode(n, {}, {NodeState(m) : m \in o.nodes},
                                    {EdgeState(e) : e \in o.edges}, st, trav)
      BY <2>1 DEF StartOrder
    <3>2. order' = o
      BY <2>1 DEF StartOrder
    <3>3. lastNode' = Place(n)
      BY <3>1 DEF ProcessNode
    <3> QED  BY <3>1, <3>2, <3>3
  <2>2. CASE EdgeTraversed
    <3>1. ~canceling /\ trav # <<>>
      BY <2>2 DEF EdgeTraversed, reported
    <3>2. InFrontEdge(order, Head(trav), lastNode)
      BY <3>1, NextNode
    <3>3. lastNode' = Place(Head(trav).to)
      BY <2>2, <3>1, EdgeTraversedVisits
    <3> QED  BY <3>2, <3>3 DEF InFrontEdge, Leads, Place
  <2>3. CASE StopPause
    <3>1. pausedNode # {}
      BY <2>3 DEF StopPause, reported
    <3> QED  BY <2>3, <3>1, StopPauseVisits
  <2>4. ASSUME NEW o \in Orders, RejectOrder(o) \/ DiscardOrder(o) \/ StitchOrder(o) PROVE FALSE
    BY <2>4 DEF RejectOrder, DiscardOrder, StitchOrder, reported, vars
  <2>5. ASSUME NEW c \in exec, ActionBegins(c) \/ ActionEnds(c) PROVE FALSE
    BY <2>5 DEF ActionBegins, ActionEnds
  <2>6. CASE \/ CancelOrder \/ DrivingToNextNode \/ Stopped \/ StartPause \/ PauseButton
             \/ UNCHANGED vars
    BY <2>6 DEF CancelOrder, DrivingToNextNode, Stopped, StartPause, PauseButton, reported, vars
  <2> QED  BY <2>1, <2>2, <2>3, <2>4, <2>5, <2>6 DEF Next
<1>2. IInv /\ [Next]_vars => [Led]_vars
  BY <1>1
<1> QED  BY <1>2, Invariance, PTL DEF Spec, NoNodeSkipped

-----------------------------------------------------------------------------
(* AgvOrder implements OrderLifecycle: phase and todo are computed from    *)
(* the reported states.                                                    *)

Idle == ~canceling /\ ~HasActiveOrder

LEMMA Phases ==
    ASSUME canceling \in BOOLEAN
    PROVE  /\ phase = "canceling" <=> canceling
           /\ phase = "idle" <=> Idle
           /\ phase = "active" <=> ~canceling /\ HasActiveOrder
  BY DEF phase, Idle

LEMMA IdleTodo == ASSUME ~HasActiveOrder PROVE todo = {} /\ nodeStates = {}
<1>1. nodeStates = {}
  BY DEF HasActiveOrder, Active
<1> QED  BY <1>1 DEF todo

LEMMA TodoType == ASSUME IInv PROVE todo \subseteq Nat
<1>1. \A s \in nodeStates : s.seq \in Nat
  BY DEF IInv, TypeOK
<1> QED  BY <1>1 DEF todo

(* A visit takes the least sequence id off the list of what is to be done. *)
LEMMA VisitTodo ==
    ASSUME IInv, NEW n \in order.nodes, n.rel,
           nodeStates \subseteq {NodeState(m) : m \in order.nodes},
           NodeState(n) \in nodeStates,
           \A s \in nodeStates : n.seq <= s.seq,
           nodeStates' = {s \in nodeStates : Place(s) # Place(n)}
    PROVE  \E k \in todo : (\A l \in todo : k <= l) /\ todo' = todo \ {k}
<1>1. \A m \in order.nodes :
         /\ Place(NodeState(m)) = Place(m) /\ NodeState(m).seq = m.seq /\ NodeState(m).rel = m.rel
         /\ Place(m) = Place(n) <=> m.seq = n.seq
  BY DEF Place, NodeState, IInv, OrderShape
<1>2. n.seq \in todo
  BY <1>1 DEF todo
<1>3. \A l \in todo : n.seq <= l
  BY DEF todo
<1>4. \A s \in nodeStates : Place(s) # Place(n) <=> s.seq # n.seq
  BY <1>1
<1>5. todo' = todo \ {n.seq}
  <2>1. todo' = {s.seq : s \in {r \in nodeStates' : r.rel}}
    BY DEF todo
  <2>2. todo' = {s.seq : s \in {r \in nodeStates : r.rel /\ r.seq # n.seq}}
    BY <1>4, <2>1
  <2> QED  BY <2>2 DEF todo
<1> QED  BY <1>2, <1>3, <1>5

(* Stitching adds sequence ids beyond those of the base.                   *)
LEMMA StitchTodo ==
    ASSUME IInv, NEW o \in Orders, StitchOrder(o)
    PROVE  todo \subseteq todo' /\ \A k \in todo, l \in todo' \ todo : k < l
<1>1. PICK end \in order.nodes, first \in o.nodes :
         /\ IsBaseEnd(order, end) /\ IsFirst(o, first) /\ Place(end) = Place(first)
         /\ nodeStates' = {s \in nodeStates : s.rel} \cup {NodeState(n) : n \in o.nodes \ {first}}
  BY DEF StitchOrder
<1>2. HasActiveOrder /\ ~canceling
  BY DEF StitchOrder, Unacceptable
<1>3. nodeStates \subseteq {NodeState(m) : m \in order.nodes}
  <2>1. Underway \/ Suspended
    BY <1>2 DEF IInv, Canceling
  <2> QED  BY <2>1 DEF Underway, Suspended
<1>4. \A m \in order.nodes \cup o.nodes : m.seq \in Nat
  BY OrderMessage DEF IInv, TypeOK, Order, Node
<1>5. \A s \in nodeStates : s.rel => s.seq <= end.seq /\ s.seq \in Nat
  <2>1. \A m \in order.nodes : NodeState(m).rel => NodeState(m).seq <= end.seq
                                                   /\ NodeState(m).seq \in Nat
    BY <1>1, <1>4 DEF NodeState, IsBaseEnd, Base
  <2> QED  BY <1>3, <2>1
<1>6. \A m \in o.nodes \ {first} : m.seq > end.seq
  <2>1. end.seq = first.seq
    BY <1>1 DEF Place
  <2> QED  BY <1>1, <1>4, <2>1, OrderMessage DEF IsFirst, OrderShape
<1>7. \A m \in o.nodes : NodeState(m).seq = m.seq
  BY DEF NodeState
<1>8. todo \subseteq todo'
  BY <1>1 DEF todo
<1>9. \A k \in todo : k <= end.seq /\ k \in Nat
  BY <1>5 DEF todo
<1>10. \A l \in todo' \ todo : l > end.seq /\ l \in Nat
  <2> SUFFICES ASSUME NEW l \in todo' \ todo PROVE l > end.seq /\ l \in Nat
    OBVIOUS
  <2>1. PICK s \in nodeStates' : s.rel /\ l = s.seq
    BY DEF todo
  <2>2. ~(s \in nodeStates)
    BY <2>1 DEF todo
  <2>3. PICK m \in o.nodes \ {first} : s = NodeState(m)
    BY <1>1, <2>2
  <2> QED  BY <1>4, <1>6, <1>7, <2>1, <2>3
<1>11. end.seq \in Nat
  BY <1>4
<1> QED  BY <1>8, <1>9, <1>10, <1>11

(* Once an order is not active any more it has been completed.             *)
LEMMA StayActive ==
    ASSUME IInv, IInv', ~canceling, HasActiveOrder, ~canceling'
    PROVE  /\ phase = "active"
           /\ phase' = "active" \/ (phase' = "idle" /\ todo' = {})
<1>1. canceling \in BOOLEAN /\ canceling' \in BOOLEAN
  BY DEF IInv, TypeOK
<1>2. ~HasActiveOrder' => todo' = {}
  <2>1. ~HasActiveOrder' => nodeStates' = {}
    BY DEF HasActiveOrder, Active
  <2> QED  BY <2>1 DEF todo
<1> QED  BY <1>1, <1>2 DEF phase

LEMMA StartLifecycle ==
    ASSUME IInv, IInv', NEW o \in Orders, StartOrder(o)
    PROVE  [Lifecycle!Next]_<<phase, todo>>
<1>1. ~canceling /\ ~HasActiveOrder /\ canceling' = canceling
  BY DEF StartOrder, Unacceptable
<1>2. phase = "idle" /\ todo = {}
  BY <1>1, IdleTodo DEF phase
<1>3. CASE HasActiveOrder'
  <2>1. phase' = "active"
    BY <1>1, <1>3 DEF phase
  <2>2. todo' \subseteq Nat
    <3>1. \A s \in nodeStates' : s.seq \in Nat
      BY DEF IInv, TypeOK
    <3> QED  BY <3>1 DEF todo
  <2>3. Lifecycle!Accept
    BY <1>2, <2>1, <2>2 DEF Lifecycle!Accept
  <2> QED  BY <2>3 DEF Lifecycle!Next
<1>4. CASE ~HasActiveOrder'
  <2>1. nodeStates' = {}
    BY <1>4 DEF HasActiveOrder, Active
  <2>2. phase' = "idle" /\ todo' = {}
    BY <1>1, <1>4, <2>1 DEF phase, todo
  <2> QED  BY <1>2, <2>2
<1> QED  BY <1>3, <1>4

LEMMA StitchLifecycle ==
    ASSUME IInv, IInv', NEW o \in Orders, StitchOrder(o)
    PROVE  [Lifecycle!Next]_<<phase, todo>>
<1>1. HasActiveOrder /\ ~canceling /\ canceling' = canceling
  BY DEF StitchOrder, Unacceptable
<1>2. /\ phase = "active"
      /\ phase' = "active" \/ (phase' = "idle" /\ todo' = {})
      /\ todo \subseteq todo' /\ \A k \in todo, l \in todo' \ todo : k < l
  BY <1>1, StayActive, StitchTodo
<1>3. todo' \subseteq Nat
  <2>1. \A s \in nodeStates' : s.seq \in Nat
    BY DEF IInv, TypeOK
  <2> QED  BY <2>1 DEF todo
<1>4. Lifecycle!Extend \/ Lifecycle!Complete
  BY <1>2, <1>3 DEF Lifecycle!Extend, Lifecycle!Complete
<1> QED  BY <1>4 DEF Lifecycle!Next

LEMMA EdgeLifecycle ==
    ASSUME IInv, IInv', Obedient, EdgeTraversed
    PROVE  [Lifecycle!Next]_<<phase, todo>>
<1>1. canceling' = canceling /\ trav # <<>>
  BY DEF EdgeTraversed
<1>2. CASE canceling
  <2>1. nodeStates' = nodeStates
    BY <1>2 DEF EdgeTraversed, reported
  <2> QED  BY <1>1, <1>2, <2>1 DEF phase, todo
<1>3. CASE ~canceling
  <2> DEFINE n == Head(trav).to
  <2>1. /\ n \in order.nodes /\ n.rel /\ n.seq = lastNode.seq + 2 /\ lastNode.seq \in Nat
        /\ nodeStates' = {s \in nodeStates : Place(s) # Place(n)}
    BY <1>1, <1>3, NextNode, EdgeTraversedVisits
  <2>2. HasActiveOrder /\ Underway
    BY <1>1, <1>3, Consequences DEF IInv
  <2>3. NodeState(n) \in nodeStates /\ nodeStates \subseteq {NodeState(m) : m \in order.nodes}
    BY <2>1, <2>2 DEF Underway
  <2>4. \A s \in nodeStates : n.seq <= s.seq
    <3> SUFFICES ASSUME NEW m \in order.nodes, m.seq > lastNode.seq
                 PROVE  n.seq <= NodeState(m).seq
      BY <2>2 DEF Underway
    <3>1. PICK k \in order.nodes : Place(k) = lastNode
      BY <2>2 DEF Underway
    <3>2. m.seq \in Nat /\ k.seq \in Nat /\ k.seq = lastNode.seq
      BY <3>1 DEF IInv, TypeOK, Order, Node, Place
    <3>3. k.seq + 2 <= m.seq
      BY <3>2 DEF IInv, OrderShape
    <3> QED  BY <2>1, <3>2, <3>3 DEF NodeState
  <2> HIDE DEF n
  <2>5. \E k \in todo : (\A l \in todo : k <= l) /\ todo' = todo \ {k}
    BY <2>1, <2>3, <2>4, VisitTodo
  <2>6. Lifecycle!Visit
    BY <1>1, <1>3, <2>2, <2>5, StayActive DEF Lifecycle!Visit
  <2> QED  BY <2>6 DEF Lifecycle!Next
<1> QED  BY <1>2, <1>3

LEMMA StopPauseLifecycle ==
    ASSUME IInv, IInv', StopPause
    PROVE  [Lifecycle!Next]_<<phase, todo>>
<1>1. CASE pausedNode = {}
  <2>1. UNCHANGED <<canceling, nodeStates, edgeStates, actionStatus>>
    BY <1>1 DEF StopPause, reported
  <2> QED  BY <2>1 DEF phase, todo, HasActiveOrder
<1>2. CASE pausedNode # {}
  <2>1. PICK n \in order.nodes :
              /\ IsFirst(order, n) /\ n.rel /\ lastNode' = Place(n)
              /\ nodeStates = {NodeState(m) : m \in order.nodes}
              /\ nodeStates' = {s \in nodeStates : Place(s) # Place(n)}
              /\ ~canceling /\ ~canceling' /\ order' = order
    BY <1>2, StopPauseVisits
  <2>2. NodeState(n) \in nodeStates
    BY <2>1
  <2>3. \A s \in nodeStates : n.seq <= s.seq
    BY <2>1 DEF IsFirst, NodeState
  <2>4. \E k \in todo : (\A l \in todo : k <= l) /\ todo' = todo \ {k}
    BY <2>1, <2>2, <2>3, VisitTodo
  <2>5. HasActiveOrder
    BY <2>2 DEF HasActiveOrder, Active
  <2>6. Lifecycle!Visit
    BY <2>1, <2>4, <2>5, StayActive DEF Lifecycle!Visit
  <2> QED  BY <2>6 DEF Lifecycle!Next
<1> QED  BY <1>1, <1>2

LEMMA ActionLifecycle ==
    ASSUME IInv, IInv', NEW c \in exec, ActionEnds(c)
    PROVE  [Lifecycle!Next]_<<phase, todo>>
<1>1. UNCHANGED <<nodeStates, canceling>>
  BY DEF ActionEnds
<1>2. todo' = todo
  BY <1>1 DEF todo
<1>3. CASE canceling
  BY <1>1, <1>2, <1>3 DEF phase
<1>4. CASE ~canceling
  <2>1. HasActiveOrder
    BY Consequences
  <2>2. /\ phase = "active"
        /\ phase' = "active" \/ (phase' = "idle" /\ todo' = {})
    BY <1>1, <1>4, <2>1, StayActive
  <2>3. phase' = phase \/ Lifecycle!Complete
    BY <1>2, <2>2 DEF Lifecycle!Complete
  <2> QED  BY <1>2, <2>3 DEF Lifecycle!Next
<1> QED  BY <1>3, <1>4

LEMMA CancelLifecycle ==
    ASSUME IInv, IInv', Obedient, CancelOrder \/ DrivingToNextNode \/ Stopped
    PROVE  [Lifecycle!Next]_<<phase, todo>>
<1>1. CASE CancelOrder
  <2>1. HasActiveOrder /\ ~canceling /\ canceling' /\ nodeStates' = nodeStates
    BY <1>1 DEF CancelOrder
  <2>2. Lifecycle!Cancel
    BY <2>1 DEF phase, todo, Lifecycle!Cancel
  <2> QED  BY <2>2 DEF Lifecycle!Next
<1>2. CASE DrivingToNextNode
  <2>1. /\ canceling /\ canceling' = canceling
        /\ nodeStates' = {s \in nodeStates : Place(s) = Place(Head(trav).to)}
    BY <1>2, Consequences DEF DrivingToNextNode
  <2>2. todo' \subseteq todo /\ \A k, l \in todo' : k = l
    BY <2>1 DEF todo, Place
  <2>3. Lifecycle!Shorten
    BY <2>1, <2>2 DEF phase, Lifecycle!Shorten
  <2> QED  BY <2>3 DEF Lifecycle!Next
<1>3. CASE Stopped
  <2>1. canceling /\ exec = {}
    BY <1>3, Consequences DEF Stopped
  <2>2. ~canceling' /\ nodeStates' = {} /\ edgeStates' = {} /\ actionStatus' = actionStatus
    BY <1>3 DEF Stopped
  <2>3. \A a \in ActionId : actionStatus[a] \notin {"WAITING", "RUNNING"}
    BY <2>1 DEF IInv, Canceling, RunningExecutes
  <2>4. ~HasActiveOrder'
    BY <2>2, <2>3 DEF HasActiveOrder, Active
  <2>5. todo' = {}
    BY <2>2 DEF todo
  <2>6. Lifecycle!Canceled
    BY <2>1, <2>2, <2>4, <2>5 DEF phase, Lifecycle!Canceled
  <2> QED  BY <2>6 DEF Lifecycle!Next
<1> QED  BY <1>1, <1>2, <1>3

LEMMA LifecycleStep ==
    ASSUME IInv, IInv', Obedient, [Next]_vars
    PROVE  [Lifecycle!Next]_<<phase, todo>>
<1>1. ASSUME NEW o \in Orders, RejectOrder(o) \/ DiscardOrder(o)
      PROVE  UNCHANGED <<phase, todo>>
  BY <1>1 DEF RejectOrder, DiscardOrder, vars, reported, phase, todo, HasActiveOrder
<1>2. CASE StartPause \/ PauseButton \/ UNCHANGED vars
  BY <1>2 DEF StartPause, PauseButton, vars, reported, phase, todo, HasActiveOrder
<1>3. ASSUME NEW c \in exec, ActionBegins(c) PROVE FALSE
  BY <1>3, ObedientAdapter DEF ActionBegins
<1> QED
  BY <1>1, <1>2, <1>3, StartLifecycle, StitchLifecycle, EdgeLifecycle, StopPauseLifecycle,
     ActionLifecycle, CancelLifecycle DEF Next

(* The life of an order is the one OrderLifecycle promises the master      *)
(* control: an order at a time, its released nodes one after the other by  *)
(* ascending sequence id, none left out by stitching, pausing or actions,  *)
(* and nothing more of an order that is completed or canceled.             *)
THEOREM LifecycleImplemented ==
    ASSUME Obedient
    PROVE  Spec /\ []LoneNoneOrder => ImplementsLifecycle
<1>1. Init => Lifecycle!Init
  <2> SUFFICES ASSUME Init PROVE Lifecycle!Init
    OBVIOUS
  <2>1. ~HasActiveOrder /\ ~canceling
    BY DEF Init, HasActiveOrder, Active
  <2> QED  BY <2>1, IdleTodo DEF phase, Lifecycle!Init
<1>2. IInv /\ IInv' /\ [Next]_vars => [Lifecycle!Next]_<<phase, todo>>
  BY LifecycleStep
<1> QED
  BY <1>1, <1>2, Invariance, PTL DEF Spec, ImplementsLifecycle, Lifecycle!Spec, Lifecycle!vars

-----------------------------------------------------------------------------
(* How far the actions have come: the operators that dispatch work keep    *)
(* Ahead and Behind.                                                       *)

(* I is a group of actions, executed next when all up to j have ended.     *)
Batch(acts, I, j) ==
    /\ I \subseteq DOMAIN acts /\ I # {}
    /\ \A i \in I : j < i /\ Group(acts, i) \cup {i} = I
    /\ \A h \in DOMAIN acts : h > j => h \in I \/ \A i \in I : i < h

(* Between groups: after position j another group begins.                  *)
Between(acts, j) == j = 0 \/ (j \in DOMAIN acts /\ acts[j].blk = "HARD")

LEMMA LeastElement ==
    ASSUME NEW S, S \subseteq Nat, S # {}
    PROVE  \E h \in S : \A g \in S : h <= g
<1> DEFINE R == OpToRel(<, Nat)
<1>1. IsWellFoundedOn(R, Nat)
  BY NatLessThanWellFounded, Zenon
<1>2. \A x, y \in Nat : x < y => <<x, y>> \in R
  BY DEF OpToRel
<1> HIDE DEF R
<1>3. PICK h \in S : \A y \in S : <<y, h>> \notin R
  BY <1>1, WFMin
<1>4. \A y \in S : ~(y < h)
  BY <1>2, <1>3
<1>5. \A y \in S : h <= y
  BY <1>4
<1> QED  BY <1>5

LEMMA HardGroup ==
    ASSUME NEW acts \in Seq(Action), NEW k \in DOMAIN acts
    PROVE  IF acts[k].blk = "HARD" THEN Group(acts, k) = {} ELSE k \in Group(acts, k)
<1>1. k \in 1..Len(acts) /\ Len(acts) \in Nat
  OBVIOUS
<1>2. CASE acts[k].blk = "HARD"
  BY <1>1, <1>2 DEF Group
<1>3. CASE acts[k].blk # "HARD"
  <2>1. \A j \in DOMAIN acts : (k <= j /\ j <= k) => j = k
    BY <1>1
  <2> QED  BY <1>1, <1>3, <2>1 DEF Group
<1> QED  BY <1>2, <1>3

LEMMA ChunkBatch ==
    ASSUME NEW acts \in Seq(Action), NEW j \in 0..Len(acts), Between(acts, j)
    PROVE  /\ Chunk(acts, j) = {} => j = Len(acts)
           /\ Chunk(acts, j) # {} => Batch(acts, Chunk(acts, j), j)
<1>1. Len(acts) \in Nat /\ j \in Nat /\ DOMAIN acts = 1..Len(acts) /\ j <= Len(acts)
  OBVIOUS
<1>2. CASE j < Len(acts) /\ acts[j + 1].blk = "HARD"
  <2>1. Chunk(acts, j) = {j + 1}
    BY <1>2 DEF Chunk
  <2>2. Group(acts, j + 1) = {}
    BY <1>1, <1>2, HardGroup
  <2>3. Batch(acts, {j + 1}, j)
    BY <1>1, <1>2, <2>2 DEF Batch
  <2> QED  BY <2>1, <2>3
<1>3. CASE ~(j < Len(acts) /\ acts[j + 1].blk = "HARD")
  <2> DEFINE I == {i \in (j + 1)..Len(acts) : \A h \in (j + 1)..i : acts[h].blk # "HARD"}
  <2>1. Chunk(acts, j) = I
    BY <1>3 DEF Chunk
  <2>2. \A i \in I : i \in DOMAIN acts /\ j < i /\ i \in Nat
    BY <1>1
  <2>3. j < Len(acts) => j + 1 \in I
    <3> SUFFICES ASSUME j < Len(acts) PROVE j + 1 \in I
      OBVIOUS
    <3>1. j + 1 \in (j + 1)..Len(acts) /\ \A h \in (j + 1)..(j + 1) : h = j + 1
      BY <1>1
    <3> QED  BY <1>3, <3>1
  <2>4. ASSUME NEW i \in I
        PROVE  Group(acts, i) \subseteq I
    <3> SUFFICES ASSUME NEW g \in Group(acts, i) PROVE g \in I
      OBVIOUS
    <3>1. g \in DOMAIN acts /\ \A h \in DOMAIN acts :
             (g <= h /\ h <= i) \/ (i <= h /\ h <= g) => acts[h].blk # "HARD"
      BY DEF Group
    <3>2. g > j
      BY <1>1, <2>2, <3>1 DEF Between
    <3>3. \A h \in (j + 1)..g : acts[h].blk # "HARD"
      <4> SUFFICES ASSUME NEW h \in (j + 1)..g PROVE acts[h].blk # "HARD"
        OBVIOUS
      <4>1. h \in DOMAIN acts
        BY <1>1, <3>1
      <4> QED  BY <1>1, <2>2, <3>1, <4>1
    <3> QED  BY <1>1, <3>1, <3>2, <3>3
  <2>5. ASSUME NEW i \in I, NEW g \in I
        PROVE  g \in Group(acts, i)
    <3> SUFFICES ASSUME NEW h \in DOMAIN acts, (g <= h /\ h <= i) \/ (i <= h /\ h <= g)
                 PROVE  acts[h].blk # "HARD"
      BY <2>2 DEF Group
    <3>1. h \in (j + 1)..i \/ h \in (j + 1)..g
      BY <1>1, <2>2
    <3> QED  BY <3>1
  <2>6. ASSUME NEW h \in DOMAIN acts, h > j, h \notin I, NEW i \in I
        PROVE  i < h
    <3>1. PICK g \in (j + 1)..h : acts[g].blk = "HARD"
      BY <1>1, <2>6
    <3>2. ~(g \in (j + 1)..i)
      BY <3>1
    <3> QED  BY <1>1, <2>2, <2>6, <3>1, <3>2
  <2> HIDE DEF I
  <2>7. I # {} => Batch(acts, I, j)
    BY <2>2, <2>4, <2>5, <2>6 DEF Batch
  <2>8. I = {} => j = Len(acts)
    <3> SUFFICES ASSUME I = {} PROVE j = Len(acts)
      OBVIOUS
    <3>1. ~(j < Len(acts))
      BY <2>3, Zenon
    <3>2. j <= Len(acts) /\ j \in Nat /\ Len(acts) \in Nat
      BY <1>1
    <3> QED  BY <3>1, <3>2
  <2> QED  BY <2>1, <2>7, <2>8
<1> QED  BY <1>2, <1>3

(* Nodes and edges of an order have different sequence ids.                *)
LEMMA SameSeq ==
    ASSUME NEW o \in Order, OrderShape(o), NEW x \in Released(o), NEW y \in Released(o),
           x.seq = y.seq
    PROVE  x = y
<1>1. \A n \in o.nodes \cup o.edges : n.seq \in Nat
  BY DEF Order, Node, Edge
<1>2. \A n \in o.nodes, e \in o.edges : n.seq # e.seq
  <2> SUFFICES ASSUME NEW n \in o.nodes, NEW e \in o.edges PROVE n.seq # e.seq
    OBVIOUS
  <2>1. PICK m \in o.nodes : e.seq = m.seq + 1
    BY DEF OrderShape
  <2>2. m.seq < n.seq => m.seq + 2 <= n.seq
    BY DEF OrderShape
  <2> QED  BY <1>1, <2>1, <2>2
<1>3. x \in o.nodes \cup o.edges /\ y \in o.nodes \cup o.edges
  BY DEF Released
<1>4. CASE x \in o.nodes
  BY <1>2, <1>3, <1>4 DEF OrderShape
<1>5. CASE x \in o.edges
  BY <1>2, <1>3, <1>5 DEF OrderShape
<1> QED  BY <1>3, <1>4, <1>5

(* A released node or edge, its actions, and where to find it.             *)
LEMMA ReleasedSite ==
    ASSUME NEW o \in Order, UniqueActions(o), NEW x \in Released(o)
    PROVE  /\ x \in Node \cup Edge /\ x.rel /\ x.seq \in Nat /\ x.acts \in Seq(Action)
           /\ UniqueIds(x.acts)
           /\ ActionIdsOf(x) \subseteq ActionId
           /\ \A i \in DOMAIN x.acts : x.acts[i].id \in ActionIdsOf(x)
<1>1. x \in Node \cup Edge /\ x.rel
  BY DEF Released, Order
<1>2. x.seq \in Nat /\ x.acts \in Seq(Action)
  BY <1>1 DEF Node, Edge
<1>3. UniqueIds(x.acts)
  BY DEF UniqueActions, UniqueIds
<1> QED  BY <1>1, <1>2, <1>3, ActionIdsType DEF ActionIdsOf

(* The work w, begun with statuses st when the node or edge at sequence id *)
(* k has been worked off up to position j, keeps Ahead; and Behind.        *)
Waiting(o, x, j, st) ==
    /\ \A y \in Released(o) : y.seq > x.seq => All(y, "WAITING", st)
    /\ \A i \in DOMAIN x.acts : i > j => st[x.acts[i].id] = "WAITING"

Worked(o, x, j, st) ==
    /\ \A y \in Released(o) : y.seq < x.seq => All(y, "ENDED", st)
    /\ \A i \in DOMAIN x.acts : i <= j => st[x.acts[i].id] = "ENDED"

GoesOn(o, w, p, st, ended) ==
    /\ Ahead(o, w.run, w.drive, p, Dispatched(w, st))
    /\ \A c \in w.run : st[c.act] = "WAITING"
    /\ ended => Behind(o, w.run, w.drive, p, Dispatched(w, st))

LEMMA BatchGoesOn ==
    ASSUME Started = "RUNNING", NEW o \in Order, UniqueActions(o), NEW x \in Released(o),
           NEW scope, NEW p,
           x.seq = IF scope = "edge" THEN p.seq + 1 ELSE p.seq,
           NEW j \in Nat, NEW I, Batch(x.acts, I, j),
           NEW st \in [ActionId -> Status], Waiting(o, x, j, st), NEW w,
           w = [run |-> Contexts(scope, x, I), drive |-> <<>>]
    PROVE  GoesOn(o, w, p, st, Worked(o, x, j, st))
<1> DEFINE nt == Dispatched(w, st)
<1>1. /\ x.seq \in Nat /\ x.acts \in Seq(Action) /\ UniqueIds(x.acts)
      /\ \A i \in DOMAIN x.acts : x.acts[i].id \in ActionIdsOf(x)
      /\ \A y \in Released(o) : ActionIdsOf(y) \subseteq ActionId
  BY ReleasedSite
<1>2. /\ w.drive = <<>>
      /\ w.run = {[act |-> x.acts[i].id, scope |-> scope, at |-> x] : i \in I}
  BY DEF Contexts
<1>3. I \subseteq DOMAIN x.acts /\ I # {}
  BY DEF Batch
<1>4. \A c \in w.run :
         /\ c.at = x /\ c.scope = scope
         /\ \E i \in I : c.act = x.acts[i].id /\ Position(c.at.acts, c.act) = i
  <2> SUFFICES ASSUME NEW i \in I
               PROVE  Position(x.acts, x.acts[i].id) = i
    BY <1>2
  <2> QED  BY <1>1, <1>3, PositionOfAction
<1>5. \A a : a \in {c.act : c \in w.run} <=> \E i \in I : a = x.acts[i].id
  <2>1. ASSUME NEW i \in I PROVE \E c \in w.run : c.act = x.acts[i].id
    <3> DEFINE c == [act |-> x.acts[i].id, scope |-> scope, at |-> x]
    <3>1. c \in w.run
      BY <1>2
    <3>2. c.act = x.acts[i].id
      OBVIOUS
    <3> QED  BY <3>1, <3>2
  <2> QED  BY <1>4, <2>1
<1>6. \A a \in ActionId : nt[a] = IF \E i \in I : a = x.acts[i].id THEN "RUNNING" ELSE st[a]
  BY <1>5 DEF Dispatched
<1>7. \A i \in DOMAIN x.acts :
         nt[x.acts[i].id] = IF i \in I THEN "RUNNING" ELSE st[x.acts[i].id]
  <2> SUFFICES ASSUME NEW i \in DOMAIN x.acts
               PROVE  nt[x.acts[i].id] = IF i \in I THEN "RUNNING" ELSE st[x.acts[i].id]
    OBVIOUS
  <2>1. (\E h \in I : x.acts[i].id = x.acts[h].id) <=> i \in I
    BY <1>1, <1>3 DEF UniqueIds
  <2>2. x.acts[i].id \in ActionId
    BY <1>1
  <2> QED  BY <1>6, <2>1, <2>2
<1>8. \A y \in Released(o) : \A a \in ActionIdsOf(y) : y # x => nt[a] = st[a]
  <2> SUFFICES ASSUME NEW y \in Released(o), NEW a \in ActionIdsOf(y), y # x
               PROVE  nt[a] = st[a]
    OBVIOUS
  <2>1. a \notin ActionIdsOf(x)
    BY DEF UniqueActions
  <2>2. ~ \E i \in I : a = x.acts[i].id
    BY <1>1, <1>3, <2>1
  <2>3. a \in ActionId
    BY <1>1
  <2> QED  BY <1>6, <2>2, <2>3
<1>10. w.run # {}
  BY <1>2, <1>3
<1>9. Stage(w.run, w.drive, p) = x.seq
  <2>1. (\E c \in w.run : c.scope = "edge") <=> scope = "edge"
    BY <1>4, <1>10
  <2> QED  BY <1>2, <2>1 DEF Stage
<1> HIDE DEF nt
<1>11. Ahead(o, w.run, w.drive, p, nt)
  <2>1. \A y \in Released(o) : y.seq > x.seq => All(y, "WAITING", nt)
    <3> SUFFICES ASSUME NEW y \in Released(o), y.seq > x.seq PROVE All(y, "WAITING", nt)
      OBVIOUS
    <3>1. y # x /\ All(y, "WAITING", st)
      BY <1>1 DEF Waiting
    <3> QED  BY <1>8, <3>1 DEF All
  <2>2. ASSUME NEW c \in w.run, NEW i \in DOMAIN c.at.acts
        PROVE  LET k == Position(c.at.acts, c.act) IN
               /\ i > k /\ i \notin Group(c.at.acts, k) => nt[c.at.acts[i].id] = "WAITING"
               /\ i \in Group(c.at.acts, k) => nt[c.at.acts[i].id] = "RUNNING"
    <3>1. PICK k \in I : k = Position(c.at.acts, c.act) /\ c.at = x
      BY <1>4
    <3>2. Group(x.acts, k) \cup {k} = I /\ j < k
      BY DEF Batch
    <3>3. i \in Group(x.acts, k) => i \in I
      BY <3>2
    <3>4. i > k /\ i \notin Group(x.acts, k) => i \notin I
      BY <1>1, <3>1, <3>2
    <3>5. i > k => i > j
      BY <1>1, <1>3, <3>1, <3>2
    <3> QED  BY <1>7, <3>1, <3>3, <3>4, <3>5 DEF Waiting
  <2> QED  BY <1>9, <2>1, <2>2 DEF Ahead
<1>12. \A c \in w.run : st[c.act] = "WAITING"
  BY <1>3, <1>4 DEF Batch, Waiting
<1>13. ASSUME Worked(o, x, j, st) PROVE Behind(o, w.run, w.drive, p, nt)
  <2>1. \A y \in Released(o) : y.seq < x.seq => All(y, "ENDED", nt)
    <3> SUFFICES ASSUME NEW y \in Released(o), y.seq < x.seq PROVE All(y, "ENDED", nt)
      OBVIOUS
    <3>1. y # x /\ All(y, "ENDED", st)
      BY <1>1, <1>13 DEF Worked
    <3> QED  BY <1>8, <3>1 DEF All
  <2>2. ASSUME NEW c \in w.run, NEW i \in DOMAIN c.at.acts
        PROVE  LET k == Position(c.at.acts, c.act) IN
               /\ i < k /\ i \notin Group(c.at.acts, k) => nt[c.at.acts[i].id] = "ENDED"
               /\ i \in Group(c.at.acts, k) => nt[c.at.acts[i].id] \in {"RUNNING", "ENDED"}
    <3>1. PICK k \in I : k = Position(c.at.acts, c.act) /\ c.at = x
      BY <1>4
    <3>2. Group(x.acts, k) \cup {k} = I /\ j < k
      BY DEF Batch
    <3>3. i \in Group(x.acts, k) => i \in I
      BY <3>2
    <3>4. i < k /\ i \notin Group(x.acts, k) => i \notin I /\ ~(i > j)
      BY <1>1, <1>3, <3>1, <3>2 DEF Batch
    <3>5. ~(i > j) => i <= j
      BY <1>1, <3>1
    <3> QED  BY <1>7, <1>13, <3>1, <3>3, <3>4, <3>5 DEF Worked
  <2> QED  BY <1>9, <1>10, <2>1, <2>2 DEF Behind
<1> QED  BY <1>11, <1>12, <1>13 DEF GoesOn, nt

LEMMA AllDone ==
    ASSUME NEW o \in Order, OrderShape(o), UniqueActions(o), NEW x \in Released(o), NEW st,
           Worked(o, x, Len(x.acts), st), NEW y \in Released(o), y.seq <= x.seq
    PROVE  All(y, "ENDED", st)
<1>1. x.seq \in Nat /\ y.seq \in Nat /\ x.acts \in Seq(Action)
  BY ReleasedSite
<1>2. CASE y.seq < x.seq
  BY <1>2 DEF Worked
<1>3. CASE y.seq = x.seq
  <2>1. y = x
    BY <1>3, SameSeq
  <2>2. \A i \in DOMAIN x.acts : i <= Len(x.acts)
    BY <1>1
  <2> QED  BY <2>1, <2>2 DEF Worked, All, ActionIdsOf
<1> QED  BY <1>1, <1>2, <1>3

LEMMA Undisturbed ==
    ASSUME NEW st \in [ActionId -> Status], NEW w, w.run = {}
    PROVE  Dispatched(w, st) = st
<1>1. DOMAIN Dispatched(w, st) = ActionId /\ DOMAIN st = ActionId
  BY DEF Dispatched
<1>2. \A a \in ActionId : Dispatched(w, st)[a] = st[a]
  BY DEF Dispatched
<1>3. st = [a \in ActionId |-> st[a]]
  OBVIOUS
<1>4. Dispatched(w, st) = [a \in ActionId |-> st[a]]
  BY DEF Dispatched
<1> QED  BY <1>3, <1>4

LEMMA TraverseGoesOn ==
    ASSUME NEW o \in Order, OrderShape(o), UniqueActions(o),
           NEW e \in o.edges, e.rel, NEW p, p.seq \in Nat, e.seq = p.seq + 1,
           NEW st \in [ActionId -> Status], Waiting(o, e, Len(e.acts), st)
    PROVE  GoesOn(o, Traverse(o, e), p, st, Worked(o, e, Len(e.acts), st))
<1> DEFINE w == Traverse(o, e)
<1>1. w.run = {} /\ w.drive # <<>>
  BY DEF Traverse
<1>2. e \in Released(o)
  BY DEF Released
<1>3. Dispatched(w, st) = st
  BY <1>1, Undisturbed
<1>4. Stage(w.run, w.drive, p) = e.seq
  BY <1>1 DEF Stage
<1> HIDE DEF w
<1>5. Ahead(o, w.run, w.drive, p, st)
  BY <1>1, <1>4 DEF Ahead, Waiting
<1>6. ASSUME Worked(o, e, Len(e.acts), st) PROVE Behind(o, w.run, w.drive, p, st)
  <2>1. \A y \in Released(o) : y.seq <= e.seq => All(y, "ENDED", st)
    BY <1>2, <1>6, AllDone
  <2>2. \A y \in Released(o) : y.seq \in Nat
    BY ReleasedSite
  <2>3. e.seq \in Nat
    BY <1>2, <2>2
  <2>4. \A y \in Released(o) : y.seq < e.seq \/ y.seq = e.seq => All(y, "ENDED", st)
    BY <2>1, <2>2, <2>3
  <2> QED  BY <1>1, <1>4, <2>4 DEF Behind
<1> QED  BY <1>1, <1>3, <1>5, <1>6 DEF GoesOn, w

LEMMA EdgeWorkGoesOn ==
    ASSUME Started = "RUNNING", NEW o \in Order, OrderShape(o), UniqueActions(o),
           NEW e \in o.edges, e.rel, NEW p, p.seq \in Nat, e.seq = p.seq + 1,
           NEW j \in 0..Len(e.acts), Between(e.acts, j),
           NEW st \in [ActionId -> Status], Waiting(o, e, j, st)
    PROVE  GoesOn(o, EdgeWork(o, e, j), p, st, Worked(o, e, j, st))
<1>1. e \in Released(o)
  BY DEF Released
<1>2. e.acts \in Seq(Action)
  BY <1>1, ReleasedSite
<1>3. CASE Chunk(e.acts, j) = {}
  <2>1. j = Len(e.acts)
    BY <1>2, <1>3, ChunkBatch
  <2>2. EdgeWork(o, e, j) = Traverse(o, e)
    BY <1>3 DEF EdgeWork
  <2> QED  BY <2>1, <2>2, TraverseGoesOn
<1>4. CASE Chunk(e.acts, j) # {}
  <2> DEFINE I == Chunk(e.acts, j)
             w == [run |-> Contexts("edge", e, I), drive |-> <<>>]
  <2>1. Batch(e.acts, I, j)
    BY <1>2, <1>4, ChunkBatch
  <2>2. EdgeWork(o, e, j) = w
    BY <1>4 DEF EdgeWork
  <2>3. j \in Nat
    BY <1>2
  <2> HIDE DEF I
  <2>4. GoesOn(o, w, p, st, Worked(o, e, j, st))
    BY <1>1, <2>1, <2>3, BatchGoesOn
  <2> QED  BY <2>2, <2>4
<1> QED  BY <1>3, <1>4

LEMMA ProcessEdgeGoesOn ==
    ASSUME Started = "RUNNING", NEW o \in Order, OrderShape(o), UniqueActions(o),
           NEW n \in o.nodes, n.rel,
           NEW st \in [ActionId -> Status], Waiting(o, n, Len(n.acts), st)
    PROVE  GoesOn(o, ProcessEdge(o, n), Place(n), st, Worked(o, n, Len(n.acts), st))
<1> DEFINE p == Place(n)
<1>1. n \in Released(o) /\ n \in Node /\ p.seq = n.seq /\ p.seq \in Nat
  BY DEF Released, Place, Order, Node
<1>2. \A y \in Released(o) : y.seq \in Nat
  BY ReleasedSite
<1>3. CASE TrailingEdges(o, n) = {}
  <2> DEFINE w == ProcessEdge(o, n)
  <2>1. w.run = {} /\ w.drive = <<>>
    BY <1>3 DEF ProcessEdge, NoWork
  <2>2. Dispatched(w, st) = st
    BY <2>1, Undisturbed
  <2>3. Stage(w.run, w.drive, p) = n.seq
    BY <1>1, <2>1 DEF Stage
  <2>4. ASSUME NEW y \in Released(o) PROVE y.seq # n.seq + 1
    <3>1. y \in o.nodes \/ (y \in o.edges /\ y.rel)
      BY DEF Released
    <3>2. ASSUME y \in o.nodes, y.seq = n.seq + 1 PROVE FALSE
      <4>1. n.seq < y.seq
        BY <1>1, <3>2
      <4>2. n.seq + 2 <= y.seq
        BY <3>2, <4>1 DEF OrderShape
      <4> QED  BY <1>1, <3>2, <4>2
    <3>3. ASSUME y \in o.edges, y.rel, y.seq = n.seq + 1 PROVE FALSE
      <4>1. PICK m \in o.nodes : y.from = m.id /\ y.seq = m.seq + 1
        BY <3>3 DEF OrderShape
      <4>2. m.seq \in Nat
        BY DEF Order, Node
      <4>3. m.seq = n.seq
        BY <1>1, <3>3, <4>1, <4>2
      <4>4. m = n
        BY <4>3 DEF OrderShape
      <4> QED  BY <1>3, <3>3, <4>1, <4>4 DEF TrailingEdges
    <3> QED  BY <3>1, <3>2, <3>3
  <2> HIDE DEF w
  <2>5. Ahead(o, w.run, w.drive, p, st)
    BY <2>1, <2>3 DEF Ahead, Waiting
  <2>6. ASSUME Worked(o, n, Len(n.acts), st) PROVE Behind(o, w.run, w.drive, p, st)
    <3>1. \A y \in Released(o) : y.seq < n.seq \/ y.seq = n.seq => All(y, "ENDED", st)
      BY <1>1, <1>2, <2>6, AllDone
    <3> QED  BY <1>1, <2>1, <2>3, <2>4, <3>1 DEF Behind
  <2> QED  BY <2>1, <2>2, <2>5, <2>6 DEF GoesOn, w
<1>4. CASE TrailingEdges(o, n) # {}
  <2> DEFINE e == CHOOSE e \in TrailingEdges(o, n) : TRUE
  <2>1. e \in TrailingEdges(o, n)
    BY <1>4
  <2> HIDE DEF e
  <2>2. e \in o.edges /\ e.seq = n.seq + 1 /\ e.rel
    BY <2>1 DEF TrailingEdges
  <2>3. e \in Released(o) /\ e.acts \in Seq(Action)
    BY <2>2, ReleasedSite DEF Released
  <2>4. All(e, "WAITING", st)
    BY <1>1, <2>2, <2>3 DEF Waiting
  <2>5. Waiting(o, e, 0, st)
    <3>1. \A y \in Released(o) : y.seq > e.seq => y.seq > n.seq
      BY <1>1, <1>2, <2>2
    <3> QED  BY <2>4, <3>1 DEF Waiting, All, ActionIdsOf
  <2>6. Worked(o, n, Len(n.acts), st) => Worked(o, e, 0, st)
    <3> SUFFICES ASSUME Worked(o, n, Len(n.acts), st) PROVE Worked(o, e, 0, st)
      OBVIOUS
    <3>1. \A y \in Released(o) : y.seq < e.seq => y.seq <= n.seq
      BY <1>1, <1>2, <2>2
    <3>2. \A y \in Released(o) : y.seq < e.seq => All(y, "ENDED", st)
      BY <1>1, <3>1, AllDone
    <3>3. \A i \in DOMAIN e.acts : ~(i <= 0)
      BY <2>3
    <3> QED  BY <3>2, <3>3 DEF Worked
  <2>7. 0 \in 0..Len(e.acts) /\ Between(e.acts, 0)
    BY <2>3 DEF Between
  <2>8. GoesOn(o, EdgeWork(o, e, 0), p, st, Worked(o, e, 0, st))
    BY <1>1, <2>2, <2>5, <2>7, EdgeWorkGoesOn
  <2>9. ProcessEdge(o, n) = EdgeWork(o, e, 0)
    BY <1>4 DEF ProcessEdge, e
  <2> QED  BY <2>6, <2>8, <2>9 DEF GoesOn
<1> QED  BY <1>3, <1>4

LEMMA NodeWorkGoesOn ==
    ASSUME Started = "RUNNING", NEW o \in Order, OrderShape(o), UniqueActions(o),
           NEW n \in o.nodes, n.rel, NEW j \in 0..Len(n.acts), Between(n.acts, j),
           NEW st \in [ActionId -> Status], Waiting(o, n, j, st)
    PROVE  GoesOn(o, NodeWork(o, n, j), Place(n), st, Worked(o, n, j, st))
<1>1. n \in Released(o)
  BY DEF Released
<1>2. n.acts \in Seq(Action) /\ Place(n).seq = n.seq
  BY <1>1, ReleasedSite DEF Place
<1>3. CASE Chunk(n.acts, j) = {}
  <2>1. j = Len(n.acts)
    BY <1>2, <1>3, ChunkBatch
  <2>2. NodeWork(o, n, j) = ProcessEdge(o, n)
    BY <1>3 DEF NodeWork
  <2> QED  BY <2>1, <2>2, ProcessEdgeGoesOn
<1>4. CASE Chunk(n.acts, j) # {}
  <2> DEFINE I == Chunk(n.acts, j)
             w == [run |-> Contexts("node", n, I), drive |-> <<>>]
  <2>1. Batch(n.acts, I, j)
    BY <1>2, <1>4, ChunkBatch
  <2>2. NodeWork(o, n, j) = w
    BY <1>4 DEF NodeWork
  <2>3. j \in Nat
    BY <1>2
  <2> HIDE DEF I
  <2>4. GoesOn(o, w, Place(n), st, Worked(o, n, j, st))
    BY <1>1, <1>2, <2>1, <2>3, BatchGoesOn
  <2> QED  BY <2>2, <2>4
<1> QED  BY <1>3, <1>4

(* An action ends: c of the contexts xs at p, with statuses s0 before and  *)
(* st then.                                                                *)
Ending(o, xs, p, c, s0, st) ==
    /\ Front(o, xs, <<>>, p) /\ p.seq \in Nat /\ c \in xs
    /\ s0 \in [ActionId -> Status] /\ Matches(s0, xs)
    /\ st = [s0 EXCEPT ![c.act] = "ENDED"]

LEMMA EndingFacts ==
    ASSUME NEW o \in Order, UniqueActions(o), NEW xs, NEW p, NEW c, NEW s0, NEW st,
           Ending(o, xs, p, c, s0, st), NEW k, k = Position(c.at.acts, c.act)
    PROVE  /\ c.at \in Released(o) /\ c.at.seq = Stage(xs, <<>>, p)
           /\ c.scope = "node" => c.at \in o.nodes /\ Place(c.at) = p
           /\ c.scope # "node" => c.scope = "edge" /\ c.at \in o.edges
           /\ k \in DOMAIN c.at.acts /\ c.at.acts[k].id = c.act
           /\ c.act \in ActionId /\ s0[c.act] = "RUNNING"
           /\ \A i \in DOMAIN c.at.acts : c.at.acts[i].id = c.act => i = k
           /\ \A d \in xs : /\ d.at = c.at /\ d.scope = c.scope /\ s0[d.act] = "RUNNING"
                            /\ d # c => /\ d.act # c.act
                                        /\ Position(c.at.acts, d.act) \in Group(c.at.acts, k)
           /\ st \in [ActionId -> Status]
           /\ \A a \in ActionId : st[a] = IF a = c.act THEN "ENDED" ELSE s0[a]
<1> USE DEF Ending
<1>1. \A d \in xs : InFront(o, d, p) /\ Parallel(c, d)
  BY DEF Front
<1>2. \A d \in xs : d \in Context /\ d.at.rel /\ d.act \in ActionIdsOf(d.at)
  BY <1>1 DEF InFront
<1>3. /\ c.scope = "node" => c.at \in o.nodes /\ Place(c.at) = p
      /\ c.scope # "node" => c.scope = "edge" /\ c.at \in o.edges /\ c.at.seq = p.seq + 1
  BY <1>1, <1>2 DEF InFront, Context
<1>4. c.at \in Released(o)
  BY <1>2, <1>3 DEF Released
<1>5. c.at.acts \in Seq(Action) /\ UniqueIds(c.at.acts)
  BY <1>4, ReleasedSite
<1>6. \E i \in DOMAIN c.at.acts : c.at.acts[i].id = c.act
  BY <1>2 DEF ActionIdsOf
<1>7. k \in DOMAIN c.at.acts /\ c.at.acts[k].id = c.act
  BY <1>5, <1>6, PositionExists
<1>8. \A i \in DOMAIN c.at.acts : c.at.acts[i].id = c.act => i = k
  BY <1>5, <1>7 DEF UniqueIds
<1>9. \A d \in xs : d.act \in ActionId /\ s0[d.act] = "RUNNING"
  BY <1>2 DEF Context, Matches
<1>10. ASSUME NEW d \in xs
       PROVE  /\ d.at = c.at /\ d.scope = c.scope
              /\ d # c => /\ d.act # c.act
                          /\ Position(c.at.acts, d.act) \in Group(c.at.acts, k)
  <2>1. d.at = c.at /\ d.scope = c.scope /\ (c = d \/ Position(c.at.acts, d.act) \in Group(c.at.acts, k))
    BY <1>1 DEF Parallel
  <2>2. d.act = c.act => d = c
    BY <1>2, <2>1 DEF Context
  <2> QED  BY <2>1, <2>2
<1>11. c.at.seq = Stage(xs, <<>>, p)
  <2>1. CASE c.scope = "node"
    BY <1>3, <1>10, <2>1 DEF Stage, Place
  <2>2. CASE c.scope # "node"
    BY <1>3, <2>2 DEF Stage
  <2> QED  BY <2>1, <2>2
<1>12. st \in [ActionId -> Status] /\ \A a \in ActionId : st[a] = IF a = c.act THEN "ENDED" ELSE s0[a]
  BY DEF Status
<1> QED  BY <1>3, <1>4, <1>7, <1>8, <1>9, <1>10, <1>11, <1>12

(* Nothing is dispatched while other actions execute, or when there is     *)
(* nothing left to do but appended actions.                                *)
LEMMA OthersGoOn ==
    ASSUME NEW o \in Order, UniqueActions(o), NEW xs, NEW p, NEW c, NEW s0, NEW st,
           Ending(o, xs, p, c, s0, st), Ahead(o, xs, <<>>, p, s0),
           xs # {c} \/ c.scope = "node"
    PROVE  /\ Ahead(o, xs \ {c}, <<>>, p, st)
           /\ xs # {c} /\ Behind(o, xs, <<>>, p, s0) => Behind(o, xs \ {c}, <<>>, p, st)
<1> DEFINE ys == xs \ {c}
<1>0. PICK k : k = Position(c.at.acts, c.act)
  OBVIOUS
<1>1. /\ c.at \in Released(o) /\ c.at.seq = Stage(xs, <<>>, p)
      /\ c.act \in ActionId /\ s0[c.act] = "RUNNING"
      /\ \A d \in xs : d.at = c.at /\ d.scope = c.scope /\ s0[d.act] = "RUNNING"
      /\ \A a \in ActionId : st[a] = IF a = c.act THEN "ENDED" ELSE s0[a]
      /\ c \in xs /\ p.seq \in Nat
  <2>1. c \in xs /\ p.seq \in Nat
    BY DEF Ending
  <2> QED  BY <1>0, <2>1, EndingFacts
<1>2. \A y \in Released(o) : ActionIdsOf(y) \subseteq ActionId
                              /\ \A i \in DOMAIN y.acts : y.acts[i].id \in ActionId
  <2> SUFFICES ASSUME NEW y \in Released(o)
               PROVE  ActionIdsOf(y) \subseteq ActionId
                      /\ \A i \in DOMAIN y.acts : y.acts[i].id \in ActionId
    OBVIOUS
  <2> QED  BY ReleasedSite
<1>3. Stage(ys, <<>>, p) = Stage(xs, <<>>, p)
  <2>1. CASE xs # {c}
    BY <1>1, <2>1 DEF Stage
  <2>2. CASE c.scope = "node"
    BY <1>1, <2>2 DEF Stage
  <2> QED  BY <2>1, <2>2
<1>4. \A a \in ActionId : /\ s0[a] = "WAITING" => st[a] = "WAITING"
                          /\ s0[a] = "ENDED" => st[a] = "ENDED"
                          /\ s0[a] \in {"RUNNING", "ENDED"} => st[a] \in {"RUNNING", "ENDED"}
  BY <1>1
<1>5. Ahead(o, ys, <<>>, p, st)
  <2>1. ASSUME NEW y \in Released(o), y.seq > Stage(ys, <<>>, p)
        PROVE  All(y, "WAITING", st)
    <3>1. All(y, "WAITING", s0)
      BY <1>3, <2>1 DEF Ahead
    <3> QED  BY <1>2, <1>4, <3>1 DEF All
  <2>2. ASSUME NEW d \in ys, NEW i \in DOMAIN d.at.acts
        PROVE  LET h == Position(d.at.acts, d.act) IN
               /\ i > h /\ i \notin Group(d.at.acts, h) => st[d.at.acts[i].id] = "WAITING"
               /\ i \in Group(d.at.acts, h) /\ d.scope = "edge"
                    => st[d.at.acts[i].id] \in {"RUNNING", "ENDED"}
    <3>1. d.at.acts[i].id \in ActionId
      BY <1>1, <1>2
    <3>2. LET h == Position(d.at.acts, d.act) IN
               /\ i > h /\ i \notin Group(d.at.acts, h) => s0[d.at.acts[i].id] = "WAITING"
               /\ i \in Group(d.at.acts, h) /\ d.scope = "edge"
                    => s0[d.at.acts[i].id] \in {"RUNNING", "ENDED"}
      BY DEF Ahead
    <3> QED  BY <1>4, <3>1, <3>2
  <2> HIDE DEF ys
  <2> QED  BY <2>1, <2>2 DEF Ahead
<1>6. ASSUME xs # {c}, Behind(o, xs, <<>>, p, s0) PROVE Behind(o, ys, <<>>, p, st)
  <2>1. ys # {} /\ xs # {}
    BY <1>1, <1>6
  <2>2. ASSUME NEW y \in Released(o), y.seq < Stage(ys, <<>>, p)
        PROVE  All(y, "ENDED", st)
    <3>1. All(y, "ENDED", s0)
      BY <1>3, <1>6, <2>2 DEF Behind
    <3> QED  BY <1>2, <1>4, <3>1 DEF All
  <2>3. ASSUME NEW d \in ys, NEW i \in DOMAIN d.at.acts
        PROVE  LET h == Position(d.at.acts, d.act) IN
               /\ i < h /\ i \notin Group(d.at.acts, h) => st[d.at.acts[i].id] = "ENDED"
               /\ i \in Group(d.at.acts, h) => st[d.at.acts[i].id] \in {"RUNNING", "ENDED"}
    <3>1. d.at.acts[i].id \in ActionId
      BY <1>1, <1>2
    <3>2. LET h == Position(d.at.acts, d.act) IN
               /\ i < h /\ i \notin Group(d.at.acts, h) => s0[d.at.acts[i].id] = "ENDED"
               /\ i \in Group(d.at.acts, h) => s0[d.at.acts[i].id] \in {"RUNNING", "ENDED"}
      BY <1>6 DEF Behind
    <3> QED  BY <1>4, <3>1, <3>2
  <2> HIDE DEF ys
  <2> QED  BY <2>1, <2>2, <2>3 DEF Behind
<1> QED  BY <1>5, <1>6

(* Work begun where the vehicle is: at the node p or on the edge after it. *)
LEMMA MoreGoesOn ==
    ASSUME Started = "RUNNING", NEW o \in Order, OrderShape(o), UniqueActions(o),
           NEW scope, NEW x, NEW p, p.seq \in Nat,
           scope = "node" => x \in o.nodes /\ x.rel /\ Place(x) = p,
           scope # "node" => x \in o.edges /\ x.rel /\ x.seq = p.seq + 1,
           NEW j \in 0..Len(x.acts), Between(x.acts, j),
           NEW st \in [ActionId -> Status], Waiting(o, x, j, st)
    PROVE  LET w == IF scope = "node" THEN NodeWork(o, x, j) ELSE EdgeWork(o, x, j) IN
           GoesOn(o, w, p, st, Worked(o, x, j, st))
<1>1. CASE scope = "node"
  BY <1>1, NodeWorkGoesOn
<1>2. CASE scope # "node"
  BY <1>2, EdgeWorkGoesOn
<1> QED  BY <1>1, <1>2

LEMMA ProceedGoesOn ==
    ASSUME Started = "RUNNING", NEW o \in Order, OrderShape(o), UniqueActions(o),
           NEW scope, NEW x, NEW p, p.seq \in Nat,
           scope = "node" => x \in o.nodes /\ x.rel /\ Place(x) = p,
           scope # "node" => x \in o.edges /\ x.rel /\ x.seq = p.seq + 1,
           NEW st \in [ActionId -> Status], Waiting(o, x, Len(x.acts), st)
    PROVE  LET w == IF scope = "node" THEN ProcessEdge(o, x) ELSE Traverse(o, x) IN
           GoesOn(o, w, p, st, Worked(o, x, Len(x.acts), st))
<1>1. CASE scope = "node"
  BY <1>1, ProcessEdgeGoesOn
<1>2. CASE scope # "node"
  BY <1>2, TraverseGoesOn
<1> QED  BY <1>1, <1>2

LEMMA ContinuationGoesOn ==
    ASSUME Started = "RUNNING", NEW o \in Order, OrderShape(o), UniqueActions(o),
           NEW xs, NEW p, NEW c, NEW s0, NEW st, xs = {c},
           Ending(o, xs, p, c, s0, st), Ahead(o, xs, <<>>, p, s0),
           NEW w, w = Continuation(o, c, st)
    PROVE  \/ w = NoWork /\ c.scope = "node" /\ ~Behind(o, xs, <<>>, p, s0)
           \/ GoesOn(o, w, p, st, Behind(o, xs, <<>>, p, s0))
<1> DEFINE x == c.at
           acts == x.acts
           More(j) == IF c.scope = "node" THEN NodeWork(o, x, j) ELSE EdgeWork(o, x, j)
           Past == Behind(o, xs, <<>>, p, s0)
<1>0. PICK k : k = Position(x.acts, c.act)
  OBVIOUS
<1> DEFINE Ended(I) == \A i \in I : st[acts[i].id] = "ENDED"
           Later == {h \in DOMAIN acts : h > k /\ acts[h].blk = "HARD"}
           NextHard == {h \in Later : \A g \in Later : h <= g}
           Proceed == IF c.scope = "node" THEN ProcessEdge(o, x) ELSE Traverse(o, x)
           Dispatch == [run |-> Contexts(c.scope, x, NextHard), drive |-> <<>>]
<1>1. /\ x \in Released(o) /\ x.seq = Stage(xs, <<>>, p)
      /\ c.scope = "node" => x \in o.nodes /\ Place(x) = p
      /\ c.scope # "node" => c.scope = "edge" /\ x \in o.edges
      /\ k \in DOMAIN acts /\ acts[k].id = c.act
      /\ c.act \in ActionId /\ s0[c.act] = "RUNNING"
      /\ \A i \in DOMAIN acts : acts[i].id = c.act => i = k
      /\ st \in [ActionId -> Status]
      /\ \A a \in ActionId : st[a] = IF a = c.act THEN "ENDED" ELSE s0[a]
  BY <1>0, EndingFacts
<1>2. /\ x.rel /\ x.seq \in Nat /\ acts \in Seq(Action)
      /\ \A y \in Released(o) : ActionIdsOf(y) \subseteq ActionId
      /\ \A i \in DOMAIN acts : acts[i].id \in ActionId
  <2>1. \A y \in Released(o) : ActionIdsOf(y) \subseteq ActionId
    BY ReleasedSite
  <2> QED  BY <1>1, <2>1, ReleasedSite
<1>3. DOMAIN acts = 1..Len(acts) /\ Len(acts) \in Nat /\ k \in Nat
  BY <1>1, <1>2
<1>4. p.seq \in Nat /\ (c.scope # "node" => x.seq = p.seq + 1)
  <2>1. c.scope # "node" => Stage(xs, <<>>, p) = p.seq + 1
    BY <1>1 DEF Stage
  <2> QED  BY <1>1, <2>1 DEF Ending
<1>5. \A y \in Released(o) : y.seq > x.seq => All(y, "WAITING", st)
  <2> SUFFICES ASSUME NEW y \in Released(o), y.seq > x.seq, NEW a \in ActionIdsOf(y)
               PROVE  st[a] = "WAITING"
    BY DEF All
  <2>1. s0[a] = "WAITING" /\ a \in ActionId
    BY <1>1, <1>2 DEF Ahead, All
  <2> QED  BY <1>1, <2>1
<1>6. \A i \in DOMAIN acts : i > k /\ i \notin Group(acts, k) => st[acts[i].id] = "WAITING"
  <2> SUFFICES ASSUME NEW i \in DOMAIN acts, i > k, i \notin Group(acts, k)
               PROVE  st[acts[i].id] = "WAITING"
    OBVIOUS
  <2>1. s0[acts[i].id] = "WAITING"
    BY <1>0 DEF Ahead
  <2> QED  BY <1>1, <1>2, <2>1
<1>7. Past => \A y \in Released(o) : y.seq < x.seq => All(y, "ENDED", st)
  <2> SUFFICES ASSUME Past, NEW y \in Released(o), y.seq < x.seq, NEW a \in ActionIdsOf(y)
               PROVE  st[a] = "ENDED"
    BY DEF All
  <2>1. s0[a] = "ENDED" /\ a \in ActionId
    BY <1>1, <1>2 DEF Behind, All
  <2> QED  BY <1>1, <2>1
<1>8. ASSUME NEW i \in DOMAIN acts
      PROVE  /\ i = k => st[acts[i].id] = "ENDED"
             /\ Past /\ (i < k \/ i \in Group(acts, k)) => st[acts[i].id] = "ENDED"
             /\ i \in Group(acts, k) /\ c.scope = "edge" => st[acts[i].id] = "ENDED"
  <2>1. acts[i].id \in ActionId
    BY <1>2
  <2>2. i # k => s0[acts[i].id] # "RUNNING"
    <3>1. i # k => acts[i].id # c.act
      BY <1>1
    <3> QED  BY <2>1, <3>1 DEF Ending, Matches
  <2>3. i = k => st[acts[i].id] = "ENDED"
    BY <1>1
  <2>4. Past /\ (i < k \/ i \in Group(acts, k)) => s0[acts[i].id] \in {"RUNNING", "ENDED"}
    BY <1>0 DEF Behind
  <2>5. i \in Group(acts, k) /\ c.scope = "edge" => s0[acts[i].id] \in {"RUNNING", "ENDED"}
    BY <1>0 DEF Ahead
  <2> QED  BY <1>1, <2>1, <2>2, <2>3, <2>4, <2>5
<1>9. w = CASE acts[k].blk = "HARD" -> More(k)
            [] acts[k].blk # "HARD" /\ Later # {} ->
                   IF Ended(Group(acts, k)) THEN Dispatch ELSE NoWork
            [] OTHER ->
                   IF Ended({i \in Group(acts, k) : acts[i].blk = "SOFT"})
                   THEN Proceed ELSE NoWork
  BY <1>0 DEF Continuation
<1>10. CASE acts[k].blk = "HARD"
  <2>1. Group(acts, k) = {}
    BY <1>1, <1>2, <1>10, HardGroup
  <2>2. Waiting(o, x, k, st)
    BY <1>5, <1>6, <2>1 DEF Waiting
  <2>3. Past => Worked(o, x, k, st)
    <3>1. \A i \in DOMAIN acts : i <= k => i < k \/ i = k
      BY <1>3
    <3> QED  BY <1>7, <1>8, <3>1 DEF Worked
  <2>4. k \in 0..Len(acts) /\ Between(acts, k)
    BY <1>1, <1>3, <1>10 DEF Between
  <2>5. GoesOn(o, More(k), p, st, Worked(o, x, k, st))
    BY <1>1, <1>2, <1>4, <2>2, <2>4, MoreGoesOn
  <2>6. w = More(k)
    BY <1>9, <1>10
  <2> QED  BY <2>3, <2>5, <2>6 DEF GoesOn
<1>11. CASE acts[k].blk # "HARD" /\ Later # {}
  <2>1. PICK h \in Later : \A g \in Later : h <= g
    <3>1. Later \subseteq Nat /\ Later # {}
      BY <1>3, <1>11
    <3> HIDE DEF Later
    <3> QED  BY <3>1, LeastElement
  <2>2. NextHard = {h}
    <3>1. \A g \in Later : g \in Nat
      BY <1>3
    <3>2. \A g \in NextHard : g = h
      BY <2>1, <3>1
    <3>3. h \in NextHard
      BY <2>1
    <3> HIDE DEF NextHard
    <3> QED  BY <3>2, <3>3
  <2>3. h \in DOMAIN acts /\ h > k /\ acts[h].blk = "HARD" /\ h \in Nat /\ h - 1 \in Nat /\ h - 1 < h
    BY <1>3, <2>1
  <2>4. Group(acts, h) = {}
    BY <1>2, <2>3, HardGroup
  <2>5. Batch(acts, {h}, h - 1)
    <3>1. \A g \in DOMAIN acts : g > h - 1 => g = h \/ h < g
      BY <1>3, <2>3
    <3> QED  BY <2>3, <2>4, <3>1 DEF Batch
  <2>6. Waiting(o, x, h - 1, st)
    <3> SUFFICES ASSUME NEW i \in DOMAIN acts, i > h - 1
                 PROVE  i > k /\ i \notin Group(acts, k)
      BY <1>5, <1>6 DEF Waiting
    <3>1. i > k /\ k <= h /\ h <= i
      BY <1>3, <2>3
    <3> QED  BY <2>3, <3>1 DEF Group
  <2>7. ASSUME Ended(Group(acts, k)), Past PROVE Worked(o, x, h - 1, st)
    <3> SUFFICES ASSUME NEW i \in DOMAIN acts, i <= h - 1
                 PROVE  st[acts[i].id] = "ENDED"
      BY <1>7, <2>7 DEF Worked
    <3>1. CASE i < k
      BY <1>8, <2>7, <3>1
    <3>2. CASE ~(i < k)
      <4>1. \A g \in DOMAIN acts : (i <= g /\ g <= k) \/ (k <= g /\ g <= i) => g \notin Later \/ g = i
        <5>1. \A g \in DOMAIN acts : g <= i => ~(h <= g)
          BY <1>3, <2>3
        <5>2. \A g \in DOMAIN acts : (i <= g /\ g <= k) => g <= i
          BY <1>3, <3>2
        <5> QED  BY <2>1, <5>1, <5>2
      <4>2. i \notin Later
        <5>1. ~(h <= i)
          BY <1>3, <2>3
        <5> QED  BY <2>1, <5>1
      <4>3. i \in Group(acts, k)
        <5> SUFFICES ASSUME NEW g \in DOMAIN acts, (i <= g /\ g <= k) \/ (k <= g /\ g <= i)
                     PROVE  acts[g].blk # "HARD"
          BY DEF Group
        <5>1. g \notin Later
          BY <4>1, <4>2
        <5>2. g > k \/ g = k
          BY <1>3, <3>2
        <5> QED  BY <1>11, <5>1, <5>2
      <4> QED  BY <2>7, <4>3
    <3> QED  BY <3>1, <3>2
  <2>8. GoesOn(o, [run |-> Contexts(c.scope, x, {h}), drive |-> <<>>], p, st, Worked(o, x, h - 1, st))
    <3>1. x.seq = IF c.scope = "edge" THEN p.seq + 1 ELSE p.seq
      BY <1>1, <1>4 DEF Place
    <3> HIDE DEF Later, NextHard
    <3> QED  BY <1>1, <2>3, <2>5, <2>6, <3>1, BatchGoesOn
  <2>9. CASE Ended(Group(acts, k))
    <3>1. w = [run |-> Contexts(c.scope, x, {h}), drive |-> <<>>]
      BY <1>9, <1>11, <2>2, <2>9
    <3> QED  BY <2>7, <2>8, <2>9, <3>1 DEF GoesOn
  <2>10. CASE ~Ended(Group(acts, k))
    <3>1. w = NoWork
      BY <1>9, <1>11, <2>10
    <3>2. \A i \in Group(acts, k) : i \in DOMAIN acts
      BY DEF Group
    <3>3. c.scope = "node" /\ ~Past
      BY <1>1, <1>8, <2>10, <3>2
    <3> QED  BY <3>1, <3>3
  <2> QED  BY <2>9, <2>10
<1>12. CASE acts[k].blk # "HARD" /\ Later = {}
  <2> DEFINE Soft == {i \in Group(acts, k) : acts[i].blk = "SOFT"}
  <2>1. Waiting(o, x, Len(acts), st)
    <3>1. \A i \in DOMAIN acts : ~(i > Len(acts))
      BY <1>3
    <3> QED  BY <1>5, <3>1 DEF Waiting
  <2>2. ASSUME Past PROVE Worked(o, x, Len(acts), st)
    <3> SUFFICES ASSUME NEW i \in DOMAIN acts
                 PROVE  st[acts[i].id] = "ENDED"
      BY <1>7, <2>2 DEF Worked
    <3>1. CASE i < k
      BY <1>8, <2>2, <3>1
    <3>2. CASE ~(i < k)
      <4>1. \A g \in DOMAIN acts : (i <= g /\ g <= k) \/ (k <= g /\ g <= i) => g > k \/ g = k
        BY <1>3, <3>2
      <4>2. i \in Group(acts, k)
        BY <1>12, <4>1 DEF Group
      <4> QED  BY <1>8, <2>2, <4>2
    <3> QED  BY <3>1, <3>2
  <2>3. GoesOn(o, Proceed, p, st, Worked(o, x, Len(acts), st))
    BY <1>1, <1>2, <1>4, <2>1, ProceedGoesOn
  <2>4. CASE Ended(Soft)
    <3>1. w = Proceed
      BY <1>9, <1>12, <2>4
    <3> QED  BY <2>2, <2>3, <3>1 DEF GoesOn
  <2>5. CASE ~Ended(Soft)
    <3>1. w = NoWork
      BY <1>9, <1>12, <2>5
    <3>2. \A i \in Soft : i \in DOMAIN acts /\ i \in Group(acts, k)
      BY DEF Group
    <3>3. c.scope = "node" /\ ~Past
      BY <1>1, <1>8, <2>5, <3>2
    <3> QED  BY <3>1, <3>3
  <2> QED  BY <2>4, <2>5
<1> QED  BY <1>10, <1>11, <1>12

(* The end of an action keeps Ahead, and Behind.                           *)
LEMMA EndingGoesOn ==
    ASSUME Started = "RUNNING", NEW o \in Order, OrderShape(o), UniqueActions(o),
           \A x \in Released(o) : LoneNone(x.acts),
           NEW xs, NEW p, NEW c, NEW s0, NEW st,
           Ending(o, xs, p, c, s0, st), Ahead(o, xs, <<>>, p, s0),
           NEW w, w = Continuation(o, c, st)
    PROVE  /\ Ahead(o, (xs \ {c}) \cup w.run, w.drive, p, Dispatched(w, st))
           /\ \A d \in w.run : d.act \in ActionId /\ s0[d.act] = "WAITING"
           /\ Behind(o, xs, <<>>, p, s0)
                 => Behind(o, (xs \ {c}) \cup w.run, w.drive, p, Dispatched(w, st))
<1>0. PICK k : k = Position(c.at.acts, c.act)
  OBVIOUS
<1>1. /\ c \in xs /\ Front(o, xs, <<>>, p) /\ c.act \in ActionId /\ s0[c.act] = "RUNNING"
      /\ st \in [ActionId -> Status]
      /\ \A a \in ActionId : st[a] = IF a = c.act THEN "ENDED" ELSE s0[a]
      /\ \A d \in xs : s0[d.act] = "RUNNING" /\ (d # c => d.act # c.act)
  <2>1. c \in xs /\ Front(o, xs, <<>>, p)
    BY DEF Ending
  <2> QED  BY <1>0, <2>1, EndingFacts
<1>2. \A d \in xs : d.act \in ActionId
  BY <1>1, InFrontOfBase DEF Front
<1>3. \A d \in xs \ {c} : st[d.act] # "ENDED"
  BY <1>1, <1>2
<1>4. Front(o, w.run, w.drive, p) /\ (w = NoWork \/ xs = {c})
  BY <1>1, <1>3, ContinuationInFront
<1>5. \A d \in w.run : d.act \in ActionId
  BY <1>4, InFrontOfBase DEF Front
<1>6. CASE w = NoWork /\ (xs # {c} \/ (c.scope = "node" /\ ~Behind(o, xs, <<>>, p, s0)))
  <2>1. w.run = {} /\ w.drive = <<>> /\ (xs \ {c}) \cup w.run = xs \ {c}
    BY <1>6 DEF NoWork
  <2>2. Dispatched(w, st) = st
    BY <1>1, <2>1, Undisturbed
  <2>3. /\ Ahead(o, xs \ {c}, <<>>, p, st)
        /\ xs # {c} /\ Behind(o, xs, <<>>, p, s0) => Behind(o, xs \ {c}, <<>>, p, st)
    BY <1>6, OthersGoOn
  <2> QED  BY <1>6, <2>1, <2>2, <2>3
<1>7. CASE xs = {c} /\ GoesOn(o, w, p, st, Behind(o, xs, <<>>, p, s0))
  <2>1. (xs \ {c}) \cup w.run = w.run
    BY <1>7
  <2>2. \A d \in w.run : s0[d.act] = "WAITING"
    BY <1>1, <1>5, <1>7 DEF GoesOn
  <2> QED  BY <1>5, <1>7, <2>1, <2>2 DEF GoesOn
<1>8. xs = {c} => \/ w = NoWork /\ c.scope = "node" /\ ~Behind(o, xs, <<>>, p, s0)
                  \/ GoesOn(o, w, p, st, Behind(o, xs, <<>>, p, s0))
  BY ContinuationGoesOn
<1> QED  BY <1>4, <1>6, <1>7, <1>8

-----------------------------------------------------------------------------
(* The steps keep AheadWaits and BehindEnded, and move statuses forward.   *)

Forward ==
    \A a \in ActionId :
        /\ actionStatus[a] = "ENDED" => actionStatus'[a] = "ENDED" \/ order' # order
        /\ actionStatus[a] = "RUNNING" => actionStatus'[a] \in {"RUNNING", "ENDED"}

Advances == AheadWaits' /\ (BehindEnded => BehindEnded') /\ Forward

LEMMA DispatchForward ==
    ASSUME NEW st \in [ActionId -> Status], NEW w,
           \A c \in w.run : c.act \in ActionId => st[c.act] = "WAITING"
    PROVE  \A a \in ActionId : st[a] # "WAITING" => Dispatched(w, st)[a] = st[a]
  BY DEF Dispatched

LEMMA ReportedStays ==
    ASSUME Started = "RUNNING", NEW st \in [ActionId -> Status], NEW w
    PROVE  \A a \in ActionId : st[a] # "ABSENT" => Dispatched(w, st)[a] # "ABSENT"
  BY DEF Dispatched

(* Node n is visited with no action of it dispatched.                      *)
LEMMA VisitAdvances ==
    ASSUME Obedient, order' \in Order, OrderShape(order'), UniqueActions(order'),
           NEW n \in order'.nodes, n.rel,
           NEW st \in [ActionId -> Status], Waiting(order', n, 0, st),
           NEW w, w = NodeWork(order', n, 0),
           exec' = w.run, trav' = w.drive, lastNode' = Place(n), pausedNode' = {},
           actionStatus' = Dispatched(w, st), ~canceling'
    PROVE  /\ AheadWaits'
           /\ /\ Worked(order', n, 0, st) /\ Connected(order')
              /\ \A a \in BaseActions(order') : a \in ActionId /\ st[a] # "ABSENT"
              => BehindEnded'
           /\ \A a \in ActionId : st[a] # "WAITING" => actionStatus'[a] = st[a]
<1>1. GoesOn(order', w, Place(n), st, Worked(order', n, 0, st))
  <2>1. n.acts \in Seq(Action)
    BY DEF Order, Node
  <2>2. 0 \in 0..Len(n.acts) /\ Between(n.acts, 0)
    BY <2>1 DEF Between
  <2> QED  BY <2>2, ObedientAdapter, NodeWorkGoesOn
<1>2. AheadWaits'
  BY <1>1 DEF GoesOn, AheadWaits
<1>3. \A a \in ActionId : st[a] # "WAITING" => actionStatus'[a] = st[a]
  BY <1>1, DispatchForward DEF GoesOn
<1>4. ASSUME Worked(order', n, 0, st), Connected(order'),
             \A a \in BaseActions(order') : a \in ActionId /\ st[a] # "ABSENT"
      PROVE  BehindEnded'
  <2>1. \A a \in BaseActions(order') : actionStatus'[a] # "ABSENT"
    BY <1>4, ReportedStays, ObedientAdapter
  <2>2. Behind(order', exec', trav', lastNode', actionStatus')
    BY <1>1, <1>4 DEF GoesOn
  <2> QED  BY <1>4, <2>1, <2>2 DEF BehindEnded
<1> QED  BY <1>2, <1>3, <1>4

LEMMA BaseType ==
    ASSUME NEW o \in Order, UniqueActions(o)
    PROVE  BaseActions(o) \subseteq ActionId
<1> SUFFICES ASSUME NEW y \in Released(o) PROVE ActionIdsOf(y) \subseteq ActionId
  BY DEF BaseActions
<1> QED  BY ReleasedSite

(* Nothing of an order comes before its first node.                        *)
LEMMA FirstOfAll ==
    ASSUME NEW o \in Order, OrderShape(o), NEW n, IsFirst(o, n)
    PROVE  \A y \in Released(o) : ~(y.seq < n.seq)
<1>1. \A m \in o.nodes : m.seq \in Nat /\ n.seq <= m.seq
  BY DEF Order, Node, IsFirst
<1>2. n.seq \in Nat
  BY DEF IsFirst, Order, Node
<1>3. ASSUME NEW e \in o.edges PROVE ~(e.seq < n.seq)
  <2>1. PICK m \in o.nodes : e.seq = m.seq + 1
    BY DEF OrderShape
  <2> QED  BY <1>1, <1>2, <2>1
<1>4. \A m \in o.nodes : ~(m.seq < n.seq)
  BY <1>1, <1>2
<1> QED  BY <1>3, <1>4 DEF Released

(* What is dispatched when a node is visited.                              *)
LEMMA WorkDrive ==
    ASSUME NEW o \in Order, OrderShape(o), NEW n
    PROVE  NodeWork(o, n, 0).drive \in Seq(Traversal) /\ ProcessEdge(o, n).drive \in Seq(Traversal)
<1>1. \A e \in o.edges : \A k : EdgeWork(o, e, k).drive \in Seq(Traversal)
  <2> SUFFICES ASSUME NEW e \in o.edges PROVE Traverse(o, e).drive \in Seq(Traversal)
    BY DEF EdgeWork
  <2> DEFINE m == CHOOSE m \in o.nodes : Leads(e, m)
  <2>1. \E k \in o.nodes : Leads(e, k)
    BY DEF OrderShape
  <2>2. m \in o.nodes
    BY <2>1
  <2> HIDE DEF m
  <2>3. [edge |-> e, to |-> m] \in Traversal
    BY <2>2 DEF Traversal, Order
  <2>4. <<[edge |-> e, to |-> m]>> \in Seq(Traversal)
    BY <2>3
  <2> QED  BY <2>4 DEF Traverse, m
<1>2. TrailingEdges(o, n) # {} => (CHOOSE e \in TrailingEdges(o, n) : TRUE) \in o.edges
  BY DEF TrailingEdges
<1>3. ProcessEdge(o, n).drive \in Seq(Traversal)
  BY <1>1, <1>2 DEF ProcessEdge, NoWork
<1> QED  BY <1>3 DEF NodeWork

LEMMA StartAdvances ==
    ASSUME IInv, IInv', Obedient, NEW o \in Orders, StartOrder(o)
    PROVE  Advances
<1>1. PICK st : st = [a \in ActionId |-> IF a \in BaseActions(o) THEN "WAITING" ELSE "ABSENT"]
  OBVIOUS
<1>2. /\ ~canceling /\ ~HasActiveOrder /\ order' = o /\ canceling' = canceling
      /\ paused' = paused /\ (SameOrder(o) => o.upd # order.upd) /\ stops' = stops
  BY DEF StartOrder, Unacceptable, stopping
<1>3. exec = {} /\ trav = <<>> /\ pausedNode = {} /\ stops = 0
  BY <1>2, Consequences
<1>4. o \in Order /\ OrderShape(o) /\ UniqueActions(o) /\ Connected(o)
      /\ \A n : IsFirst(o, n) => n \in o.nodes /\ n.rel
  <2>1. WellFormed(o)
    BY OrdersAssumption
  <2> QED  BY <2>1, OrderMessage DEF WellFormed, Connected
<1>5. PICK n \in o.nodes :
         /\ IsFirst(o, n)
         /\ pausedNode' = IF paused THEN {n} ELSE pausedNode
         /\ ProcessNode(n, {}, {NodeState(m) : m \in o.nodes}, {EdgeState(e) : e \in o.edges},
                        st, trav)
  BY <1>1 DEF StartOrder
<1>6. n.rel
  BY <1>4, <1>5
<1>7. st \in [ActionId -> Status]
  BY <1>1 DEF Status
<1>8. \A a \in BaseActions(o) : a \in ActionId /\ st[a] = "WAITING"
  BY <1>1, <1>4, BaseType
<1>9. \A y \in Released(o) : All(y, "WAITING", st)
  BY <1>8 DEF All, BaseActions
<1>10. Forward
  <2>1. order' # order
    BY <1>2 DEF SameOrder
  <2>2. \A a \in ActionId : actionStatus[a] # "RUNNING"
    BY <1>3 DEF IInv, RunningExecutes
  <2> QED  BY <2>1, <2>2 DEF Forward
<1>11. CASE paused
  <2>1. actionStatus' = Dispatched(NoWork, st)
    BY <1>2, <1>5, <1>11 DEF ProcessNode, Perform, Dispatched
  <2>2. actionStatus' = st
    BY <1>7, <2>1, Undisturbed DEF NoWork
  <2>3. pausedNode' # {}
    BY <1>5, <1>11
  <2>4. AheadWaits'
    BY <1>2, <1>9, <2>2, <2>3 DEF AheadWaits, Proceeding
  <2>5. BehindEnded'
    BY <1>2, <1>4, <1>8, <2>2, <2>3 DEF BehindEnded, Proceeding
  <2> QED  BY <1>10, <2>4, <2>5 DEF Advances
<1>12. CASE ~paused
  <2>1. PICK w : w = NodeWork(order', n, 0)
    OBVIOUS
  <2>2. lastNode' = Place(n) /\ Perform(w, st, exec, trav) /\ pausedNode' = {}
    BY <1>2, <1>3, <1>5, <1>6, <1>12, <2>1 DEF ProcessNode
  <2>3. exec' = {} \cup w.run /\ trav' = <<>> \o w.drive /\ actionStatus' = Dispatched(w, st)
    BY <1>3, <2>2 DEF Perform, Dispatched
  <2>4. w.drive \in Seq(Traversal)
    <3>1. n.acts \in Seq(Action)
      BY <1>4 DEF Order, Node
    <3> QED  BY <1>2, <1>4, <1>6, <2>1, <3>1, WorkDrive
  <2>5. exec' = w.run /\ trav' = w.drive
    BY <2>3, <2>4
  <2>6. Waiting(order', n, 0, st)
    <3>1. n \in Released(o)
      BY <1>6 DEF Released
    <3> QED  BY <1>2, <1>9, <3>1 DEF Waiting, All, ActionIdsOf
  <2>7. Worked(order', n, 0, st)
    <3>1. n.acts \in Seq(Action)
      BY <1>4 DEF Order, Node
    <3>2. \A i \in DOMAIN n.acts : ~(i <= 0)
      BY <3>1
    <3> QED  BY <1>2, <1>4, <1>5, <3>2, FirstOfAll DEF Worked
  <2>8. AheadWaits' /\ BehindEnded'
    <3>1. \A a \in BaseActions(order') : a \in ActionId /\ st[a] # "ABSENT"
      BY <1>2, <1>8
    <3> QED
      BY <1>2, <1>4, <1>6, <1>7, <2>1, <2>2, <2>3, <2>5, <2>6, <2>7, <3>1, VisitAdvances
  <2> QED  BY <1>10, <2>8 DEF Advances
<1> QED  BY <1>11, <1>12

LEMMA EdgeAdvances ==
    ASSUME IInv, IInv', Obedient, AheadWaits, EdgeTraversed
    PROVE  Advances
<1>1. /\ UNCHANGED <<order, paused, canceling, stops>> /\ ~paused /\ trav # <<>>
      /\ exec = {} /\ pausedNode = {}
  BY Consequences, ObedientAdapter DEF EdgeTraversed, stopping
<1>2. CASE canceling
  <2>1. UNCHANGED <<reported, pausedNode, exec>>
    BY <1>2 DEF EdgeTraversed
  <2> QED  BY <1>1, <1>2, <2>1 DEF Advances, AheadWaits, BehindEnded, Proceeding, Forward, reported
<1>3. CASE ~canceling
  <2> DEFINE t == Head(trav)
             n == t.to
  <2>1. /\ Tail(trav) = <<>> /\ InFrontEdge(order, t, lastNode)
        /\ n \in order.nodes /\ n.rel /\ n.seq = lastNode.seq + 2 /\ lastNode.seq \in Nat
        /\ t.edge.seq = lastNode.seq + 1
    BY <1>1, NextNode DEF InFrontEdge
  <2>2. lastNode' = Place(n)
    BY <1>3, EdgeTraversedVisits
  <2>3. HasActiveOrder /\ Proceeding
    BY <1>1, <1>3, Consequences DEF Proceeding
  <2>4. /\ pausedNode' = IF n.rel /\ paused THEN {n} ELSE pausedNode
        /\ ProcessNode(n, {t.edge}, nodeStates, edgeStates, actionStatus, Tail(trav))
    BY <1>3 DEF EdgeTraversed
  <2> HIDE DEF n, t
  <2>5. PICK w : w = NodeWork(order', n, 0)
    OBVIOUS
  <2>6. Perform(w, actionStatus, {}, <<>>) /\ pausedNode' = {}
    BY <1>1, <2>1, <2>4, <2>5 DEF ProcessNode
  <2>7. order' \in Order /\ OrderShape(order') /\ UniqueActions(order')
        /\ actionStatus \in [ActionId -> Status]
    BY <1>1 DEF IInv, TypeOK
  <2>8. n \in order'.nodes /\ n.acts \in Seq(Action)
    BY <1>1, <2>1, <2>7 DEF Order, Node
  <2>9. w.drive \in Seq(Traversal)
    BY <2>1, <2>5, <2>7, <2>8, WorkDrive
  <2>10. exec' = w.run /\ trav' = w.drive /\ actionStatus' = Dispatched(w, actionStatus)
    BY <2>6, <2>9 DEF Perform, Dispatched
  <2>11. Stage(exec, trav, lastNode) = n.seq - 1 /\ Stage(exec, trav, lastNode) \in Nat
    BY <1>1, <2>1 DEF Stage
  <2>12. n \in Released(order) /\ \A y \in Released(order) : y.seq \in Nat
    BY <1>1, <2>1, <2>7, ReleasedSite DEF Released
  <2>13. \A y \in Released(order) : y.seq > n.seq - 1 => All(y, "WAITING", actionStatus)
    BY <2>3, <2>11 DEF AheadWaits, Ahead
  <2>14. Waiting(order', n, 0, actionStatus)
    <3>1. \A y \in Released(order) : y.seq >= n.seq => y.seq > n.seq - 1
      BY <2>12
    <3>2. \A y \in Released(order) : y.seq >= n.seq => All(y, "WAITING", actionStatus)
      BY <2>13, <3>1
    <3>3. All(n, "WAITING", actionStatus)
      BY <2>12, <3>2
    <3>4. \A y \in Released(order) : y.seq > n.seq => All(y, "WAITING", actionStatus)
      BY <2>12, <3>2
    <3> QED  BY <1>1, <3>3, <3>4 DEF Waiting, All, ActionIdsOf
  <2>15. BehindEnded => Worked(order', n, 0, actionStatus)
    <3> SUFFICES ASSUME BehindEnded PROVE Worked(order, n, 0, actionStatus)
      BY <1>1
    <3>1. \A y \in Released(order) :
             y.seq < n.seq - 1 \/ y.seq = n.seq - 1 => All(y, "ENDED", actionStatus)
      BY <1>1, <2>3, <2>11 DEF BehindEnded, Behind
    <3>2. \A y \in Released(order) : y.seq < n.seq => y.seq < n.seq - 1 \/ y.seq = n.seq - 1
      BY <2>12
    <3>3. \A i \in DOMAIN n.acts : ~(i <= 0)
      BY <2>8
    <3> QED  BY <3>1, <3>2, <3>3 DEF Worked
  <2>16. BehindEnded => /\ Connected(order')
                        /\ \A a \in BaseActions(order') : a \in ActionId /\ actionStatus[a] # "ABSENT"
    BY <1>1, <2>7, BaseType DEF BehindEnded
  <2>17. /\ AheadWaits' /\ (BehindEnded => BehindEnded')
         /\ \A a \in ActionId : actionStatus[a] # "WAITING" => actionStatus'[a] = actionStatus[a]
    BY <1>1, <1>3, <2>1, <2>2, <2>5, <2>6, <2>7, <2>8, <2>10, <2>14, <2>15, <2>16, VisitAdvances
  <2> QED  BY <2>17 DEF Advances, Forward
<1> QED  BY <1>2, <1>3

LEMMA StopPauseAdvances ==
    ASSUME IInv, IInv', Obedient, AheadWaits, StopPause
    PROVE  Advances
<1>1. UNCHANGED <<order, canceling, stops>> /\ ~paused' /\ pausedNode' = {}
  BY DEF StopPause, stopping
<1>2. CASE pausedNode = {}
  <2>1. UNCHANGED <<reported, dispatched>>
    BY <1>2 DEF StopPause
  <2> QED
    BY <1>1, <1>2, <2>1 DEF Advances, AheadWaits, BehindEnded, Proceeding, HasActiveOrder, Forward,
       reported, dispatched
<1>3. CASE pausedNode # {}
  <2>1. Suspended
    BY <1>3 DEF IInv, Canceling
  <2>2. PICK n \in order.nodes : n.rel /\ IsFirst(order, n) /\ pausedNode = {n}
    BY <2>1 DEF Suspended
  <2>3. exec = {} /\ trav = <<>> /\ ~canceling
    BY <2>1 DEF Suspended
  <2>4. ProcessNode(n, {}, nodeStates, edgeStates, actionStatus, <<>>)
    BY <2>2, <2>3 DEF StopPause
  <2>5. PICK w : w = NodeWork(order', n, 0)
    OBVIOUS
  <2>6. Perform(w, actionStatus, {}, <<>>) /\ lastNode' = Place(n)
    BY <1>1, <2>2, <2>3, <2>4, <2>5 DEF ProcessNode
  <2>7. order' \in Order /\ OrderShape(order') /\ UniqueActions(order')
        /\ actionStatus \in [ActionId -> Status]
    BY <1>1 DEF IInv, TypeOK
  <2>8. n \in order'.nodes /\ n.acts \in Seq(Action)
    BY <1>1, <2>2, <2>7 DEF Order, Node
  <2>9. w.drive \in Seq(Traversal)
    BY <2>2, <2>5, <2>7, <2>8, WorkDrive
  <2>10. exec' = w.run /\ trav' = w.drive /\ actionStatus' = Dispatched(w, actionStatus)
    BY <2>6, <2>9 DEF Perform, Dispatched
  <2>11. \A y \in Released(order) : All(y, "WAITING", actionStatus)
    BY <1>3 DEF AheadWaits
  <2>12. Waiting(order', n, 0, actionStatus)
    <3>1. n \in Released(order)
      BY <2>2 DEF Released
    <3> QED  BY <1>1, <2>11, <3>1 DEF Waiting, All, ActionIdsOf
  <2>13. Worked(order', n, 0, actionStatus)
    <3>1. \A i \in DOMAIN n.acts : ~(i <= 0)
      BY <2>8
    <3> QED  BY <1>1, <2>2, <2>7, <3>1, FirstOfAll DEF Worked
  <2>14. BehindEnded => /\ Connected(order')
                        /\ \A a \in BaseActions(order') : a \in ActionId /\ actionStatus[a] # "ABSENT"
    BY <1>1, <2>7, BaseType DEF BehindEnded
  <2>15. /\ AheadWaits' /\ (BehindEnded => BehindEnded')
         /\ \A a \in ActionId : actionStatus[a] # "WAITING" => actionStatus'[a] = actionStatus[a]
    BY <1>1, <2>2, <2>3, <2>5, <2>6, <2>7, <2>8, <2>10, <2>12, <2>13, <2>14, VisitAdvances
  <2> QED  BY <2>15 DEF Advances, Forward
<1> QED  BY <1>2, <1>3

LEMMA EndAdvances ==
    ASSUME IInv, IInv', Obedient, LoneNoneOrder, AheadWaits, NEW c \in exec, ActionEnds(c)
    PROVE  Advances
<1>1. PICK st : st = [actionStatus EXCEPT ![c.act] = "ENDED"]
  OBVIOUS
<1>2. /\ HasActiveOrder /\ pausedNode = {} /\ trav = <<>> /\ stops = 0
      /\ c.act \in ActionId /\ actionStatus[c.act] = "RUNNING"
  BY Consequences
<1>3. UNCHANGED <<order, lastNode, nodeStates, edgeStates, pausedNode, canceling>>
  BY DEF ActionEnds
<1>4. /\ actionStatus \in [ActionId -> Status] /\ st \in [ActionId -> Status]
      /\ \A a \in ActionId : st[a] = IF a = c.act THEN "ENDED" ELSE actionStatus[a]
  BY <1>1 DEF IInv, TypeOK, Status
<1>5. BaseActions(order) \subseteq ActionId
  BY BaseType DEF IInv, TypeOK
<1>6. CASE canceling
  <2>1. /\ Perform(NoWork, st, exec \ {c}, trav)
        /\ stops' = IF AllActionsEnded(st) THEN stops + 1 ELSE stops
    BY <1>1, <1>6 DEF ActionEnds
  <2>2. actionStatus' = st
    <3>1. actionStatus' = Dispatched(NoWork, st)
      BY <2>1 DEF Perform, Dispatched
    <3> QED  BY <1>4, <3>1, Undisturbed DEF NoWork
  <2>3. AheadWaits' /\ ~Proceeding'
    BY <1>2, <1>3, <1>6 DEF AheadWaits, Proceeding
  <2>4. ASSUME BehindEnded PROVE BehindEnded'
    <3>1. \A a \in BaseActions(order') : actionStatus'[a] # "ABSENT"
      BY <1>3, <1>4, <1>5, <2>2, <2>4 DEF BehindEnded
    <3>2. ASSUME stops' = 0 PROVE exec' # {}
      <4>1. PICK a \in BaseActions(order) : st[a] # "ENDED"
        BY <1>2, <2>1, <3>2 DEF AllActionsEnded
      <4>2. a \in ActionId /\ st[a] # "WAITING"
        BY <1>3, <1>4, <1>5, <1>6, <2>2 DEF IInv, Canceling
      <4>3. st[a] # "ABSENT"
        BY <1>3, <2>2, <3>1, <4>1
      <4>4. st[a] = "RUNNING"
        BY <1>4, <4>1, <4>2, <4>3 DEF Status
      <4> QED  BY <2>2, <4>2, <4>4 DEF IInv, RunningExecutes
    <3> QED  BY <1>3, <2>3, <2>4, <3>1, <3>2 DEF BehindEnded
  <2> QED  BY <1>2, <1>3, <1>4, <2>2, <2>3, <2>4 DEF Advances, Forward
<1>7. CASE ~canceling
  <2>1. PICK w : w = Continuation(order, c, st)
    OBVIOUS
  <2>2. /\ Perform(w, st, exec \ {c}, <<>>) /\ stops' = stops
    BY <1>1, <1>2, <1>7, <2>1 DEF ActionEnds
  <2>3. Proceeding /\ Ahead(order, exec, <<>>, lastNode, actionStatus)
    BY <1>2, <1>7 DEF AheadWaits, Proceeding
  <2>4. order \in Order /\ OrderShape(order) /\ UniqueActions(order)
        /\ \A x \in Released(order) : LoneNone(x.acts)
    BY DEF IInv, TypeOK, LoneNoneOrder
  <2>5. Ending(order, exec, lastNode, c, actionStatus, st)
    BY <1>1, <1>2, <1>4 DEF Ending, IInv, TypeOK, RunningExecutes, Matches
  <2>6. /\ Ahead(order, (exec \ {c}) \cup w.run, w.drive, lastNode, Dispatched(w, st))
        /\ \A d \in w.run : d.act \in ActionId /\ actionStatus[d.act] = "WAITING"
        /\ Behind(order, exec, <<>>, lastNode, actionStatus)
              => Behind(order, (exec \ {c}) \cup w.run, w.drive, lastNode, Dispatched(w, st))
    BY <2>1, <2>3, <2>4, <2>5, EndingGoesOn, ObedientAdapter
  <2>7. w.drive \in Seq(Traversal)
    <3>1. \A d \in exec \ {c} : st[d.act] # "ENDED"
      BY <1>4, Consequences
    <3> QED  BY <1>2, <2>1, <2>4, <3>1, ContinuationInFront DEF IInv
  <2>8. /\ exec' = (exec \ {c}) \cup w.run /\ trav' = w.drive
        /\ actionStatus' = Dispatched(w, st)
    BY <2>2, <2>7 DEF Perform, Dispatched
  <2>9. AheadWaits'
    BY <1>2, <1>3, <2>6, <2>8 DEF AheadWaits
  <2>10. ASSUME BehindEnded PROVE BehindEnded'
    <3>1. \A a \in BaseActions(order') : actionStatus'[a] # "ABSENT"
      <4>1. \A a \in BaseActions(order) : a \in ActionId /\ st[a] # "ABSENT"
        BY <1>4, <1>5, <2>10 DEF BehindEnded
      <4> QED  BY <1>3, <1>4, <2>8, <4>1, ReportedStays, ObedientAdapter
    <3>2. Behind(order', exec', trav', lastNode', actionStatus')
      BY <1>2, <1>3, <2>3, <2>6, <2>8, <2>10 DEF BehindEnded
    <3> QED  BY <1>3, <1>7, <2>10, <3>1, <3>2 DEF BehindEnded
  <2>11. Forward
    <3>1. \A a \in ActionId : actionStatus'[a] = st[a] \/ actionStatus[a] = "WAITING"
      BY <2>6, <2>8 DEF Dispatched
    <3> QED  BY <1>2, <1>4, <3>1 DEF Forward
  <2> QED  BY <2>9, <2>10, <2>11 DEF Advances
<1> QED  BY <1>6, <1>7

LEMMA CancelAdvances ==
    ASSUME IInv, IInv', Obedient, AheadWaits, CancelOrder \/ DrivingToNextNode \/ Stopped
    PROVE  Advances
<1>1. /\ UNCHANGED <<order, lastNode, pausedNode, exec>>
      /\ actionStatus \in [ActionId -> Status]
  BY DEF CancelOrder, DrivingToNextNode, Stopped, dispatched, IInv, TypeOK
<1>2. pausedNode = {}
  <2>1. stops > 0 => pausedNode = {}
    BY DEF IInv, Canceling, Suspended
  <2>2. CancelOrder => pausedNode = {}
    BY ObedientAdapter DEF IInv, Limits, CancelOrder
  <2> QED  BY <2>1, <2>2 DEF DrivingToNextNode, Stopped
<1>3. CASE CancelOrder
  <2>1. /\ canceling' /\ stops \in Nat
        /\ \A a \in ActionId :
              actionStatus'[a] = IF actionStatus[a] = "WAITING" THEN "ENDED" ELSE actionStatus[a]
        /\ (\A a \in ActionId : actionStatus'[a] # "RUNNING") => stops' = stops + 1
    BY <1>3 DEF CancelOrder, IInv, TypeOK
  <2>2. AheadWaits' /\ ~Proceeding'
    BY <1>1, <1>2, <2>1 DEF AheadWaits, Proceeding
  <2>3. stops' = 0 => exec' # {}
    <3> SUFFICES ASSUME stops' = 0 PROVE exec' # {}
      OBVIOUS
    <3>1. PICK a \in ActionId : actionStatus'[a] = "RUNNING"
      BY <2>1
    <3> QED  BY <3>1 DEF IInv, RunningExecutes
  <2>4. BehindEnded => BehindEnded'
    <3>1. BaseActions(order) \subseteq ActionId
      BY BaseType DEF IInv, TypeOK
    <3> QED  BY <1>1, <2>1, <2>2, <2>3, <3>1 DEF BehindEnded
  <2> QED  BY <2>1, <2>2, <2>4 DEF Advances, Forward
<1>4. CASE DrivingToNextNode
  <2>1. canceling /\ canceling' = canceling /\ actionStatus' = actionStatus /\ stops' = stops
    BY <1>4, Consequences DEF DrivingToNextNode
  <2> QED  BY <1>1, <1>2, <2>1 DEF Advances, AheadWaits, BehindEnded, Proceeding, Forward
<1>5. CASE Stopped
  <2>1. canceling /\ exec = {} /\ ~canceling' /\ actionStatus' = actionStatus
        /\ nodeStates' = {} /\ edgeStates' = {}
    BY <1>5, Consequences DEF Stopped
  <2>2. \A a \in ActionId : actionStatus[a] \notin {"WAITING", "RUNNING"}
    BY <2>1 DEF IInv, Canceling, RunningExecutes
  <2>3. ~Proceeding'
    BY <2>1, <2>2 DEF Proceeding, HasActiveOrder, Active
  <2> QED  BY <1>1, <1>2, <2>1, <2>3 DEF Advances, AheadWaits, BehindEnded, Forward
<1> QED  BY <1>3, <1>4, <1>5

LEMMA QuietAdvances ==
    ASSUME IInv, IInv', AheadWaits,
           \/ \E o \in Orders : RejectOrder(o) \/ DiscardOrder(o)
           \/ StartPause \/ PauseButton \/ UNCHANGED vars
    PROVE  Advances
<1>1. UNCHANGED <<order, lastNode, nodeStates, edgeStates, actionStatus, exec, trav, pausedNode,
                  canceling, stops>>
  BY DEF RejectOrder, DiscardOrder, StartPause, PauseButton, vars, reported, dispatched, stopping
<1> QED
  BY <1>1 DEF Advances, AheadWaits, BehindEnded, Proceeding, HasActiveOrder, Forward

-----------------------------------------------------------------------------
(* Stitching: o joined to p at end is q, and fresh are the statuses then.  *)

Freshened(p, o, s0, fresh) ==
    /\ s0 \in [ActionId -> Status] /\ fresh \in [ActionId -> Status]
    /\ \A a \in ActionId : fresh[a] = IF a \in BaseActions(o) THEN "WAITING" ELSE s0[a]

LEMMA JoinedSites ==
    ASSUME NEW p, NEW o, NEW end, NEW first, NEW new, Joins(p, o, end, first, new),
           NEW q, q = Joined(p, o, end, first, new), NEW y \in Released(q)
    PROVE  \/ y \in Released(p) /\ y.seq < end.seq
           \/ y = new
           \/ y \in Released(o) /\ y.seq > end.seq
<1>1. /\ \A k \in q.nodes : \/ k \in p.nodes /\ k.rel /\ k.seq < end.seq
                            \/ k = new
                            \/ k \in o.nodes /\ k.seq > end.seq
      /\ q.edges = {e \in p.edges : e.rel} \cup o.edges
      /\ \A e \in p.edges : e.rel => e.seq < end.seq
      /\ \A e \in o.edges : e.seq > end.seq
  BY JoinedRoute
<1>2. y.rel /\ (y \in q.nodes \/ y \in q.edges)
  BY DEF Released
<1> QED  BY <1>1, <1>2 DEF Released

LEMMA FreshStatuses ==
    ASSUME NEW p, NEW o, NEW end, NEW first, NEW new, Joins(p, o, end, first, new),
           NEW s0, NEW fresh, Freshened(p, o, s0, fresh)
    PROVE  /\ \A y \in Released(p) : \A a \in ActionIdsOf(y) : a \in ActionId /\ fresh[a] = s0[a]
           /\ \A y \in Released(o) : All(y, "WAITING", fresh)
           /\ end \in Released(p) /\ first \in Released(o)
<1>1. p \in Order /\ o \in Order /\ UniqueActions(p) /\ UniqueActions(o)
      /\ BaseActions(o) \cap BaseActions(p) = {}
  BY DEF Joins
<1>2. ASSUME NEW y \in Released(p), NEW a \in ActionIdsOf(y)
      PROVE  a \in ActionId /\ fresh[a] = s0[a]
  <2>1. a \in ActionId /\ a \in BaseActions(p)
    BY <1>1, BaseType DEF BaseActions
  <2> QED  BY <1>1, <2>1 DEF Freshened
<1>3. ASSUME NEW y \in Released(o), NEW a \in ActionIdsOf(y) PROVE fresh[a] = "WAITING"
  <2>1. a \in ActionId /\ a \in BaseActions(o)
    BY <1>1, BaseType DEF BaseActions
  <2> QED  BY <2>1 DEF Freshened
<1>4. end \in Released(p) /\ first \in Released(o)
  BY DEF Joins, IsBaseEnd, Base, IsFirst, Released
<1> QED  BY <1>2, <1>3, <1>4 DEF All

LEMMA NothingAppended ==
    ASSUME NEW p, NEW o, NEW end, NEW first, NEW new, Joins(p, o, end, first, new),
           first.acts = <<>>
    PROVE  new = end
<1>1. end \in Node /\ end.acts \in Seq(Action)
  BY JointActions
<1>2. end.acts \o <<>> = end.acts
  BY <1>1
<1>3. new = [end EXCEPT !.acts = @ \o <<>>]
  BY DEF Joins
<1>4. new = [end EXCEPT !.acts = end.acts]
  BY <1>1, <1>2, <1>3 DEF Node
<1> QED  BY <1>1, <1>4 DEF Node

(* Contexts and traversals are as many as before, at the same stage.       *)
LEMMA MovedStage ==
    ASSUME NEW p, NEW o, NEW end, NEW first, NEW new, Joins(p, o, end, first, new),
           NEW xs, NEW ts, NEW loc, Front(p, xs, ts, loc), loc.seq \in Nat,
           NEW ys, ys = {Moved(end, new, c) : c \in xs},
           NEW us, us = [i \in DOMAIN ts |-> MovedTraversal(end, new, ts[i])]
    PROVE  /\ Stage(ys, us, loc) = Stage(xs, ts, loc)
           /\ ys = {} <=> xs = {}
           /\ us = <<>> <=> ts = <<>>
           /\ \/ Stage(xs, ts, loc) = loc.seq
              \/ Stage(xs, ts, loc) = loc.seq + 1 /\ loc.seq + 1 < end.seq
<1>1. PICK q : q = Joined(p, o, end, first, new)
  OBVIOUS
<1>2. \A c \in xs : Moved(end, new, c).scope = c.scope
  BY <1>1, MovedContext DEF Front
<1>3. (\E c \in xs : c.scope = "edge") <=> (\E d \in ys : d.scope = "edge")
  BY <1>2
<1>4. us = <<>> <=> ts = <<>>
  <2>1. ts = <<>> => DOMAIN ts = {}
    OBVIOUS
  <2>2. ts = <<>> => us = <<>>
    BY <2>1
  <2>3. ASSUME ts # <<>> PROVE us # <<>>
    <3>1. PICK t : ts = <<t>>
      BY <2>3 DEF Front
    <3>2. 1 \in DOMAIN us
      BY <3>1
    <3> QED  BY <3>2
  <2> QED  BY <2>2, <2>3
<1>5. \A e \in p.edges : e.rel => e.seq < end.seq
  BY <1>1, JoinedRoute
<1>6. ts # <<>> => loc.seq + 1 < end.seq
  BY <1>5 DEF Front, InFrontEdge
<1>7. ASSUME NEW c \in xs, c.scope = "edge" PROVE loc.seq + 1 < end.seq
  BY <1>5, <1>7 DEF Front, InFront
<1> QED  BY <1>3, <1>4, <1>6, <1>7 DEF Stage

LEMMA JoinedAhead ==
    ASSUME NEW p, NEW o, NEW end, NEW first, NEW new, Joins(p, o, end, first, new),
           NEW q, q = Joined(p, o, end, first, new),
           NEW s0, NEW fresh, Freshened(p, o, s0, fresh),
           NEW xs, NEW ts, NEW loc, Front(p, xs, ts, loc), loc.seq \in Nat,
           NEW ys, ys = {Moved(end, new, c) : c \in xs},
           NEW us, us = [i \in DOMAIN ts |-> MovedTraversal(end, new, ts[i])],
           Ahead(p, xs, ts, loc, s0)
    PROVE  Ahead(q, ys, us, loc, fresh)
<1>1. /\ \A y \in Released(p) : \A a \in ActionIdsOf(y) : a \in ActionId /\ fresh[a] = s0[a]
      /\ \A y \in Released(o) : All(y, "WAITING", fresh)
      /\ end \in Released(p) /\ first \in Released(o)
  BY FreshStatuses
<1>2. Stage(ys, us, loc) = Stage(xs, ts, loc)
  BY MovedStage
<1>3. /\ new.seq = end.seq /\ ActionIdsOf(new) = ActionIdsOf(end) \cup ActionIdsOf(first)
      /\ end.acts \in Seq(Action) /\ first.acts \in Seq(Action)
      /\ Appended(end.acts, first.acts, new.acts)
  BY JointNode, JointActions
<1>4. ASSUME NEW y \in Released(q), y.seq > Stage(ys, us, loc)
      PROVE  All(y, "WAITING", fresh)
  <2>1. \A x \in Released(p) : x.seq > Stage(xs, ts, loc) => All(x, "WAITING", fresh)
    BY <1>1 DEF Ahead, All
  <2>2. y = new => All(y, "WAITING", fresh)
    BY <1>1, <1>2, <1>3, <1>4, <2>1 DEF All
  <2> QED  BY <1>1, <1>2, <1>4, <2>1, <2>2, JoinedSites
<1>5. ASSUME NEW c \in xs, NEW d, d = Moved(end, new, c), NEW i \in DOMAIN d.at.acts
      PROVE  LET k == Position(d.at.acts, d.act) IN
             /\ i > k /\ i \notin Group(d.at.acts, k) => fresh[d.at.acts[i].id] = "WAITING"
             /\ i \in Group(d.at.acts, k) /\ d.scope = "edge"
                  => fresh[d.at.acts[i].id] \in {"RUNNING", "ENDED"}
  <2>1. InFront(p, c, loc)
    BY DEF Front
  <2>2. /\ InFront(q, d, loc) /\ d.act = c.act /\ d.scope = c.scope
        /\ (d.at = c.at \/ (c.at = end /\ d.at = new))
        /\ (c.scope = "node" => d.at = IF c.at = end THEN new ELSE c.at)
    BY <1>5, <2>1, MovedContext
  <2>3. LET k == Position(c.at.acts, c.act) IN
        \A h \in DOMAIN c.at.acts :
           /\ h > k /\ h \notin Group(c.at.acts, k) => s0[c.at.acts[h].id] = "WAITING"
           /\ h \in Group(c.at.acts, k) /\ c.scope = "edge"
                => s0[c.at.acts[h].id] \in {"RUNNING", "ENDED"}
    BY DEF Ahead
  <2>4. c.at \in Released(p)
    BY <2>1 DEF InFront, Context, Released
  <2>5. \A h \in DOMAIN c.at.acts : fresh[c.at.acts[h].id] = s0[c.at.acts[h].id]
    BY <1>1, <2>4 DEF ActionIdsOf
  <2>6. CASE d.at = c.at
    BY <2>2, <2>3, <2>5, <2>6
  <2>7. CASE c.at = end /\ d.at = new /\ new # end
    <3>1. c.scope = "node"
      <4>1. c \in Context
        BY <2>1 DEF InFront
      <4>2. c.scope # "node" => d.at = c.at
        BY <1>5, <4>1 DEF Moved, Context
      <4> QED  BY <2>7, <4>2
    <3>2. PICK k : k = Position(end.acts, c.act)
      OBVIOUS
    <3>3. UniqueIds(end.acts) /\ UniqueIds(new.acts)
      <4>1. UniqueActions(q) /\ q \in Order
        BY JoinedActions, JoinedShape
      <4>2. d.at \in Released(q)
        BY <2>2 DEF InFront, Context, Released
      <4>3. UniqueActions(p) /\ p \in Order
        BY DEF Joins
      <4> QED  BY <1>1, <2>7, <4>1, <4>2, <4>3, ReleasedSite
    <3>4. k \in DOMAIN end.acts /\ end.acts[k].id = c.act
      <4>1. \E h \in DOMAIN end.acts : end.acts[h].id = c.act
        BY <2>1, <2>7 DEF InFront, ActionIdsOf
      <4> QED  BY <1>3, <3>2, <3>3, <4>1, PositionExists
    <3>5. Position(new.acts, c.act) = k /\ Group(end.acts, k) \subseteq Group(new.acts, k)
      BY <1>3, <3>3, <3>4, AppendedGroup
    <3>6. \/ i \in DOMAIN end.acts /\ new.acts[i] = end.acts[i]
          \/ \E j \in DOMAIN first.acts : new.acts[i] = first.acts[j]
      BY <1>3, <1>5, <2>7, AppendedElements
    <3>7. CASE i \in DOMAIN end.acts /\ new.acts[i] = end.acts[i]
      BY <2>2, <2>3, <2>5, <2>7, <3>1, <3>2, <3>5, <3>7
    <3>8. CASE \E j \in DOMAIN first.acts : new.acts[i] = first.acts[j]
      <4>1. new.acts[i].id \in ActionIdsOf(first)
        BY <3>8 DEF ActionIdsOf
      <4>2. fresh[new.acts[i].id] = "WAITING"
        BY <1>1, <4>1 DEF All
      <4> QED  BY <2>2, <2>7, <3>1, <4>2
    <3> QED  BY <3>6, <3>7, <3>8
  <2> QED  BY <2>2, <2>6, <2>7
<1> QED  BY <1>4, <1>5 DEF Ahead

LEMMA JoinedBehind ==
    ASSUME NEW p, NEW o, NEW end, NEW first, NEW new, Joins(p, o, end, first, new),
           NEW q, q = Joined(p, o, end, first, new),
           NEW s0, NEW fresh, Freshened(p, o, s0, fresh),
           NEW xs, NEW ts, NEW loc, Front(p, xs, ts, loc), loc.seq \in Nat,
           NEW ys, ys = {Moved(end, new, c) : c \in xs},
           NEW us, us = [i \in DOMAIN ts |-> MovedTraversal(end, new, ts[i])],
           loc.seq <= end.seq, first.acts = <<>> \/ loc.seq < end.seq,
           xs # {} \/ ts # <<>>,
           Behind(p, xs, ts, loc, s0)
    PROVE  Behind(q, ys, us, loc, fresh)
<1>1. /\ \A y \in Released(p) : \A a \in ActionIdsOf(y) : a \in ActionId /\ fresh[a] = s0[a]
      /\ end \in Released(p)
  BY FreshStatuses
<1>2. /\ Stage(ys, us, loc) = Stage(xs, ts, loc)
      /\ ys = {} <=> xs = {}
      /\ us = <<>> <=> ts = <<>>
      /\ \/ Stage(xs, ts, loc) = loc.seq
         \/ Stage(xs, ts, loc) = loc.seq + 1 /\ loc.seq + 1 < end.seq
  BY MovedStage
<1>3. end \in Node /\ end.seq \in Nat /\ new.seq = end.seq /\ new \in Node
  BY JointNode DEF Node
<1>4. first.acts = <<>> => new = end
  BY NothingAppended
<1>5. ASSUME NEW y \in Released(q),
             y.seq < Stage(ys, us, loc) \/ (ys = {} /\ y.seq = Stage(ys, us, loc))
      PROVE  All(y, "ENDED", fresh)
  <2>1. \A x \in Released(p) :
           x.seq < Stage(xs, ts, loc) \/ (xs = {} /\ x.seq = Stage(xs, ts, loc))
              => All(x, "ENDED", fresh)
    BY <1>1 DEF Behind, All
  <2>2. ~(y.seq > end.seq)
    <3>1. y \in Released(o) /\ y.seq > end.seq => y.seq \in Nat
      BY ReleasedSite DEF Joins
    <3>2. y \in Released(o) /\ y.seq > end.seq => ~(y.seq < Stage(ys, us, loc))
                                                  /\ y.seq # Stage(ys, us, loc)
      BY <1>2, <1>3, <3>1
    <3>3. y.seq > end.seq => y \in Released(o)
      <4>1. y \in Released(p) => y.seq \in Nat
        BY ReleasedSite DEF Joins
      <4> QED  BY <1>3, <4>1, JoinedSites
    <3> QED  BY <1>5, <3>2, <3>3
  <2>3. y = new => y = end
    <3>1. ASSUME y = new, loc.seq < end.seq PROVE FALSE
      BY <1>2, <1>3, <1>5, <3>1
    <3> QED  BY <1>4, <3>1
  <2>4. y \in Released(p)
    BY <1>1, <2>2, <2>3, JoinedSites
  <2> QED  BY <1>2, <1>5, <2>1, <2>4
<1>6. ASSUME NEW c \in xs, NEW d, d = Moved(end, new, c), NEW i \in DOMAIN d.at.acts
      PROVE  LET k == Position(d.at.acts, d.act) IN
             /\ i < k /\ i \notin Group(d.at.acts, k) => fresh[d.at.acts[i].id] = "ENDED"
             /\ i \in Group(d.at.acts, k) => fresh[d.at.acts[i].id] \in {"RUNNING", "ENDED"}
  <2>1. InFront(p, c, loc)
    BY DEF Front
  <2>2. d.act = c.act /\ (d.at = c.at \/ (c.at = end /\ d.at = new))
        /\ (c.scope = "node" => d.at = IF c.at = end THEN new ELSE c.at)
    BY <1>6, <2>1, MovedContext
  <2>3. d.at = c.at
    <3>1. CASE c.scope = "node"
      <4>1. c.at.seq = loc.seq
        BY <2>1, <3>1 DEF InFront, Place
      <4> QED  BY <1>3, <1>4, <2>2, <3>1, <4>1
    <3>2. CASE c.scope # "node"
      <4>1. c \in Context
        BY <2>1 DEF InFront
      <4> QED  BY <1>6, <3>2, <4>1 DEF Moved, Context
    <3> QED  BY <3>1, <3>2
  <2>4. c.at \in Released(p)
    BY <2>1 DEF InFront, Context, Released
  <2>5. fresh[c.at.acts[i].id] = s0[c.at.acts[i].id]
    BY <1>1, <1>6, <2>3, <2>4 DEF ActionIdsOf
  <2>6. LET k == Position(c.at.acts, c.act) IN
        /\ i < k /\ i \notin Group(c.at.acts, k) => s0[c.at.acts[i].id] = "ENDED"
        /\ i \in Group(c.at.acts, k) => s0[c.at.acts[i].id] \in {"RUNNING", "ENDED"}
    BY <1>6, <2>3 DEF Behind
  <2> QED  BY <2>2, <2>3, <2>5, <2>6
<1>7. ~(ys = {} /\ us = <<>>)
  BY <1>2
<1> QED  BY <1>5, <1>6, <1>7 DEF Behind

(* The joined order is connected if both orders are.                       *)
LEMMA JoinedConnected ==
    ASSUME NEW p, NEW o, NEW end, NEW first, NEW new, Joins(p, o, end, first, new),
           NEW q, q = Joined(p, o, end, first, new), Connected(p), Connected(o)
    PROVE  Connected(q)
<1>1. /\ \A k \in q.nodes : \/ k \in p.nodes /\ k.rel /\ k.seq < end.seq
                            \/ k = new
                            \/ k \in o.nodes /\ k.seq > end.seq
      /\ q.edges = {e \in p.edges : e.rel} \cup o.edges
  BY JoinedRoute
<1>2. /\ end \in p.nodes /\ end.rel /\ end.seq \in Nat /\ first \in o.nodes
      /\ new.id = end.id /\ new.seq = end.seq /\ new.seq = first.seq
  BY JointNode DEF Node
<1>3. p \in Order /\ OrderShape(p) /\ o \in Order /\ OrderShape(o) /\ IsFirst(o, first)
  BY DEF Joins
<1>4. \A k \in p.nodes \cup o.nodes : k.seq \in Nat
  BY <1>3 DEF Order, Node
<1>5. ASSUME NEW k \in q.nodes, NEW m \in p.nodes, m.rel, m.id = k.id, m.seq = k.seq,
             m.seq <= end.seq
      PROVE  IsFirst(q, k) \/ \E e \in q.edges : Leads(e, k)
  <2>1. CASE IsFirst(p, m)
    <3> SUFFICES ASSUME NEW j \in q.nodes PROVE k.seq <= j.seq
      BY DEF IsFirst
    <3>1. \A i \in p.nodes : m.seq <= i.seq
      BY <2>1 DEF IsFirst
    <3> QED  BY <1>1, <1>2, <1>4, <1>5, <3>1
  <2>2. CASE ~IsFirst(p, m)
    <3>1. PICK e \in p.edges : Leads(e, m)
      BY <2>2 DEF Connected
    <3>2. PICK n \in p.nodes : Leads(e, n) /\ e.rel = n.rel
      BY <1>3 DEF OrderShape
    <3>3. n = m
      BY <1>3, <3>1, <3>2 DEF OrderShape, Leads
    <3>4. e \in q.edges
      BY <1>1, <1>5, <3>2, <3>3
    <3>5. Leads(e, k)
      BY <1>5, <3>1 DEF Leads
    <3> QED  BY <3>4, <3>5
  <2> QED  BY <2>1, <2>2
<1>6. ASSUME NEW k \in q.nodes, k \in o.nodes, k.seq > end.seq
      PROVE  \E e \in q.edges : Leads(e, k)
  <2>1. ~IsFirst(o, k)
    BY <1>2, <1>4, <1>6 DEF IsFirst
  <2> QED  BY <1>1, <1>6, <2>1 DEF Connected
<1> SUFFICES ASSUME NEW k \in q.nodes PROVE IsFirst(q, k) \/ \E e \in q.edges : Leads(e, k)
  BY DEF Connected
<1>7. CASE k \in p.nodes /\ k.rel /\ k.seq < end.seq
  <2>1. k.seq <= end.seq
    BY <1>2, <1>4, <1>7
  <2> QED  BY <1>5, <1>7, <2>1
<1>8. CASE k = new
  <2>1. end.seq <= end.seq
    BY <1>2
  <2> QED  BY <1>2, <1>5, <1>8, <2>1
<1> QED  BY <1>1, <1>6, <1>7, <1>8

(* Ahead of a node of a connected order that is not the end of its base a  *)
(* released edge follows.                                                  *)
LEMMA EdgeFollows ==
    ASSUME NEW o \in Order, OrderShape(o), Connected(o), NEW n \in o.nodes,
           NEW end \in o.nodes, end.rel, n.seq < end.seq
    PROVE  \E e \in Released(o) : e.seq = n.seq + 1
<1>1. \A m \in o.nodes : m.seq \in Nat
  BY DEF Order, Node
<1> DEFINE S == {m.seq : m \in {k \in o.nodes : k.seq > n.seq}}
<1>2. PICK h \in S : \A g \in S : h <= g
  <2>1. S \subseteq Nat /\ end.seq \in S
    BY <1>1
  <2>2. S # {}
    BY <2>1
  <2> HIDE DEF S
  <2> QED  BY <2>1, <2>2, LeastElement
<1>3. PICK m \in o.nodes : m.seq > n.seq /\ h = m.seq
  OBVIOUS
<1>4. \A k \in o.nodes : k.seq > n.seq => m.seq <= k.seq
  BY <1>2, <1>3
<1>5. m.rel
  <2>1. m.seq <= end.seq
    BY <1>1, <1>4
  <2>2. CASE m.seq = end.seq
    BY <2>2 DEF OrderShape
  <2>3. CASE m.seq < end.seq
    BY <2>3 DEF OrderShape
  <2> QED  BY <1>1, <2>1, <2>2, <2>3
<1>6. ~IsFirst(o, m)
  BY <1>1, <1>3 DEF IsFirst
<1>7. PICK e \in o.edges : Leads(e, m)
  BY <1>6 DEF Connected
<1>8. PICK k \in o.nodes, j \in o.nodes : e.seq = k.seq + 1 /\ Leads(e, j) /\ e.rel = j.rel
  BY DEF OrderShape
<1>9. j = m
  BY <1>7, <1>8 DEF OrderShape, Leads
<1>10. m.seq = k.seq + 2
  BY <1>1, <1>7, <1>8 DEF Leads
<1>11. n.seq + 2 <= m.seq
  BY <1>1, <1>3 DEF OrderShape
<1>12. ~(k.seq > n.seq)
  BY <1>1, <1>4, <1>10
<1>13. e.seq = n.seq + 1
  BY <1>1, <1>8, <1>10, <1>11, <1>12
<1> QED  BY <1>5, <1>8, <1>9, <1>13 DEF Released

(* What a step does that stitches o to the active order.                   *)
Idles(end, new) ==
    /\ \A s \in nodeStates : Place(s) # Place(end)
    /\ \A a \in ActionIdsOf(new) : actionStatus[a] = "ENDED"

Stitches(o, end, first, new, w, fresh) ==
    /\ Joins(order, o, end, first, new) /\ IsFirst(o, first)
    /\ order' = Joined(order, o, end, first, new)
    /\ Freshened(order, o, actionStatus, fresh)
    /\ w = IF Idles(end, new) THEN ProcessEdge(order', new) ELSE NoWork
    /\ exec' = {Moved(end, new, c) : c \in exec} \cup w.run
    /\ trav' = [i \in DOMAIN trav |-> MovedTraversal(end, new, trav[i])] \o w.drive
    /\ actionStatus' = Dispatched(w, fresh)
    /\ pausedNode' = {IF n = end THEN new ELSE n : n \in pausedNode}
    /\ HasActiveOrder /\ ~canceling /\ ~canceling' /\ lastNode' = lastNode /\ stops' = stops

LEMMA StitchFacts ==
    ASSUME IInv, NEW o \in Orders, StitchOrder(o)
    PROVE  \E end, first, new, w, fresh : Stitches(o, end, first, new, w, fresh)
<1>1. PICK fresh : fresh = [a \in ActionId |->
                               IF a \in BaseActions(o) THEN "WAITING" ELSE actionStatus[a]]
  OBVIOUS
<1>2. PICK end \in order.nodes, first \in o.nodes :
         LET new == [end EXCEPT !.acts = @ \o first.acts]
             idle == /\ \A s \in nodeStates : Place(s) # Place(end)
                     /\ \A a \in ActionIdsOf(new) : actionStatus[a] = "ENDED"
         IN  /\ IsBaseEnd(order, end) /\ IsFirst(o, first) /\ Place(end) = Place(first)
             /\ order' = Stitched(o, end, first)
             /\ pausedNode' = {IF n = end THEN new ELSE n : n \in pausedNode}
             /\ Perform(IF idle THEN ProcessEdge(order', new) ELSE NoWork, fresh,
                        {Moved(end, new, c) : c \in exec},
                        [i \in DOMAIN trav |-> MovedTraversal(end, new, trav[i])])
  BY <1>1 DEF StitchOrder, Moved, MovedTraversal
<1>3. PICK new : new = [end EXCEPT !.acts = @ \o first.acts]
  OBVIOUS
<1>4. order' = Joined(order, o, end, first, new)
  BY <1>2, <1>3 DEF Stitched, Joined
<1>5. PICK w : w = IF Idles(end, new) THEN ProcessEdge(order', new) ELSE NoWork
  OBVIOUS
<1>6. /\ exec' = {Moved(end, new, c) : c \in exec} \cup w.run
      /\ trav' = [i \in DOMAIN trav |-> MovedTraversal(end, new, trav[i])] \o w.drive
      /\ actionStatus' = Dispatched(w, fresh)
  <2>1. Perform(w, fresh, {Moved(end, new, c) : c \in exec},
                [i \in DOMAIN trav |-> MovedTraversal(end, new, trav[i])])
    BY <1>2, <1>3, <1>5 DEF Idles
  <2> QED  BY <2>1 DEF Perform, Dispatched
<1>7. /\ lastNode' = lastNode /\ canceling' = canceling /\ stops' = stops
      /\ HasActiveOrder /\ ~canceling /\ BaseActions(o) \cap BaseActions(order) = {}
  BY DEF StitchOrder, Unacceptable, stopping
<1>8. Joins(order, o, end, first, new)
  <2>1. o \in Order /\ OrderShape(o) /\ UniqueActions(o) /\ first.rel
    BY <1>2, OrderMessage
  <2> QED  BY <1>2, <1>3, <1>7, <2>1 DEF Joins, IInv, TypeOK
<1>9. Freshened(order, o, actionStatus, fresh)
  BY <1>1 DEF Freshened, IInv, TypeOK, Status
<1>10. Stitches(o, end, first, new, w, fresh)
  BY <1>2, <1>3, <1>4, <1>5, <1>6, <1>7, <1>8, <1>9 DEF Stitches
<1> QED  BY <1>10

(* An order that idles waits at the end of its base with nothing to do.    *)
LEMMA IdlesAtEnd ==
    ASSUME IInv, NEW o, NEW end, NEW first, NEW new, Joins(order, o, end, first, new),
           HasActiveOrder, ~canceling, Idles(end, new)
    PROVE  pausedNode = {} /\ lastNode = Place(end) /\ exec = {} /\ trav = <<>>
<1>1. end \in order.nodes /\ end.rel /\ end \in Node /\ end.seq \in Nat
      /\ ActionIdsOf(new) = ActionIdsOf(end) \cup ActionIdsOf(first)
  BY JointNode DEF Node
<1>2. /\ \A n \in order.nodes : n.rel => n.seq <= end.seq
      /\ \A e \in order.edges : e.rel => e.seq < end.seq
  <2>1. PICK q : q = Joined(order, o, end, first, new)
    OBVIOUS
  <2> QED  BY <2>1, JoinedRoute
<1>3. (pausedNode = {} => Underway) /\ (pausedNode # {} => Suspended)
  BY DEF IInv, Canceling
<1>4. Place(NodeState(end)) = Place(end)
  BY DEF Place, NodeState
<1>5. NodeState(end) \notin nodeStates
  BY <1>4 DEF Idles
<1>6. pausedNode = {} /\ Underway
  BY <1>1, <1>3, <1>5 DEF Suspended
<1>7. lastNode = Place(end) /\ lastNode.seq = end.seq
  <2>1. PICK n \in order.nodes : n.rel /\ Place(n) = lastNode
    BY <1>6 DEF Underway
  <2>2. ~(end.seq > lastNode.seq)
    BY <1>1, <1>5, <1>6 DEF Underway
  <2>3. n.seq = lastNode.seq /\ n.seq \in Nat
    BY <2>1 DEF Place, IInv, TypeOK, Order, Node
  <2>4. n.seq = end.seq
    BY <1>1, <1>2, <2>1, <2>2, <2>3
  <2>5. n = end
    BY <1>1, <2>1, <2>4 DEF IInv, OrderShape
  <2> QED  BY <2>1, <2>5 DEF Place
<1>8. \A e \in order.edges : e.rel => e.seq # lastNode.seq + 1
  BY <1>1, <1>2, <1>7 DEF IInv, TypeOK, Order, Edge
<1>9. Front(order, exec, trav, lastNode)
  BY DEF IInv
<1>10. exec = {}
  <2> SUFFICES ASSUME NEW c \in exec PROVE FALSE
    OBVIOUS
  <2>1. InFront(order, c, lastNode) /\ actionStatus[c.act] = "RUNNING"
    BY <1>9, Consequences DEF Front
  <2>2. c.scope = "node" /\ c.at \in order.nodes /\ Place(c.at) = lastNode
        /\ c.act \in ActionIdsOf(c.at)
    BY <1>8, <2>1 DEF InFront, Context
  <2>3. c.at = end
    BY <1>1, <1>7, <2>2 DEF IInv, OrderShape, Place
  <2> QED  BY <1>1, <2>1, <2>2, <2>3 DEF Idles
<1>11. trav = <<>>
  BY <1>8, <1>9 DEF Front, InFrontEdge
<1> QED  BY <1>6, <1>7, <1>10, <1>11

(* Conversely, an order whose base has been traversed idles, unless        *)
(* actions are appended where it waits.                                    *)
LEMMA IdlesWhenDone ==
    ASSUME IInv, NEW o, NEW end, NEW first, NEW new, Joins(order, o, end, first, new),
           HasActiveOrder, ~canceling, pausedNode = {}, BehindEnded,
           exec = {}, trav = <<>>,
           first.acts = <<>> \/ \E s \in nodeStates : Place(s) = Place(first)
    PROVE  Idles(end, new)
<1>1. end \in order.nodes /\ end.rel /\ end.seq \in Nat /\ end \in Released(order)
  BY JointNode DEF Node, Released
<1>2. Underway /\ Behind(order, {}, <<>>, lastNode, actionStatus) /\ Connected(order)
      /\ order \in Order /\ OrderShape(order) /\ lastNode.seq \in Nat
      /\ \A n \in order.nodes : n.seq \in Nat
  BY DEF IInv, TypeOK, BehindEnded, Proceeding, Order, Node
<1>3. PICK n \in order.nodes : n.rel /\ Place(n) = lastNode
  BY <1>2 DEF Underway
<1>4. n.seq = lastNode.seq
  BY <1>3 DEF Place
<1>5. \A y \in Released(order) : y.seq # lastNode.seq + 1
  BY <1>2 DEF Behind
<1>6. ~(n.seq < end.seq)
  BY <1>1, <1>2, <1>4, <1>5, EdgeFollows
<1>7. n.seq <= end.seq
  BY <1>3 DEF Joins, IsBaseEnd, Base
<1>8. n.seq = end.seq
  BY <1>1, <1>2, <1>6, <1>7
<1>9. Place(end) = Place(first)
  BY DEF Joins
<1>10. \A s \in nodeStates : Place(s) # Place(end)
  <2> SUFFICES ASSUME NEW m \in order.nodes, m.seq > lastNode.seq
               PROVE  Place(NodeState(m)) # Place(end)
    BY <1>2 DEF Underway
  <2>1. m.seq # end.seq
    BY <1>2, <1>4, <1>8
  <2> QED  BY <2>1 DEF Place, NodeState
<1>11. first.acts = <<>>
  BY <1>9, <1>10
<1>12. new = end
  BY <1>11, NothingAppended
<1>13. All(end, "ENDED", actionStatus)
  <2>1. Stage({}, <<>>, lastNode) = lastNode.seq
    BY DEF Stage
  <2> QED  BY <1>1, <1>2, <1>4, <1>8, <2>1 DEF Behind
<1> QED  BY <1>10, <1>12, <1>13 DEF Idles, All

LEMMA StitchAdvances ==
    ASSUME IInv, IInv', Obedient, AheadWaits, NEW o \in Orders, StitchOrder(o)
    PROVE  /\ AheadWaits' /\ Forward
           /\ BehindEnded /\ AppendsAhead => BehindEnded'
           /\ \A a \in ActionId : actionStatus[a] = "ENDED" => actionStatus'[a] = "ENDED"
<1>1. PICK end, first, new, w, fresh : Stitches(o, end, first, new, w, fresh)
  BY StitchFacts
<1>2. /\ Joins(order, o, end, first, new) /\ IsFirst(o, first)
      /\ order' = Joined(order, o, end, first, new)
      /\ Freshened(order, o, actionStatus, fresh)
      /\ w = IF Idles(end, new) THEN ProcessEdge(order', new) ELSE NoWork
      /\ actionStatus' = Dispatched(w, fresh)
      /\ pausedNode' = {IF n = end THEN new ELSE n : n \in pausedNode}
      /\ HasActiveOrder /\ ~canceling /\ ~canceling' /\ lastNode' = lastNode /\ stops' = stops
  BY <1>1 DEF Stitches
<1>3. PICK q, ys, us : /\ q = order'
                       /\ ys = {Moved(end, new, c) : c \in exec}
                       /\ us = [i \in DOMAIN trav |-> MovedTraversal(end, new, trav[i])]
  OBVIOUS
<1>4. exec' = ys \cup w.run /\ trav' = us \o w.drive
  BY <1>1, <1>3 DEF Stitches
<1>5. /\ q = Joined(order, o, end, first, new)
      /\ q \in Order /\ OrderShape(q) /\ UniqueActions(q)
      /\ BaseActions(q) = BaseActions(order) \cup BaseActions(o)
      /\ new \in q.nodes /\ new.rel /\ new.seq = end.seq /\ end.seq \in Nat /\ new \in Node
      /\ Place(new) = Place(end)
  <2>1. q = Joined(order, o, end, first, new)
    BY <1>2, <1>3
  <2>2. q \in Order /\ OrderShape(q)
    BY <1>2, <2>1, JoinedShape
  <2>3. UniqueActions(q) /\ BaseActions(q) = BaseActions(order) \cup BaseActions(o)
    BY <1>2, <2>1, JoinedActions
  <2>4. new \in q.nodes
    BY <1>2, <2>1, JoinedRoute
  <2>5. end \in Node /\ new.rel /\ new.seq = end.seq /\ new \in Node /\ Place(new) = Place(end)
    BY <1>2, JointNode
  <2> QED  BY <2>1, <2>2, <2>3, <2>4, <2>5 DEF Node
<1>6. fresh \in [ActionId -> Status] /\ actionStatus \in [ActionId -> Status]
      /\ \A a \in ActionId : fresh[a] = IF a \in BaseActions(o) THEN "WAITING" ELSE actionStatus[a]
  BY <1>2 DEF Freshened
<1>7. /\ \A y \in Released(order) : \A a \in ActionIdsOf(y) : a \in ActionId /\ fresh[a] = actionStatus[a]
      /\ \A y \in Released(o) : All(y, "WAITING", fresh)
      /\ end \in Released(order) /\ first \in Released(o)
  BY <1>2, FreshStatuses
<1>8. \A a \in ActionId : actionStatus[a] # "ABSENT" => fresh[a] = actionStatus[a]
  BY <1>2, <1>6 DEF IInv, CancelFindsActions, Joins
<1>9. Front(order, exec, trav, lastNode) /\ lastNode.seq \in Nat /\ trav \in Seq(Traversal)
  BY DEF IInv, TypeOK, Traversal
<1>10. us \in Seq(Traversal)
  <2>1. us = [i \in DOMAIN trav |-> MovedTraversal(end, new, trav[i])]
    BY <1>3
  <2>2. Front(q, {Moved(end, new, c) : c \in exec}, us, lastNode) /\ us \in Seq(Traversal)
    BY <1>2, <1>5, <1>9, <2>1, JoinedFront
  <2> QED  BY <2>2
<1>11. Forward
  <2>1. order' # order
    <3>1. order'.orderId = o.orderId /\ order'.upd = o.upd
      BY <1>2 DEF Joined
    <3> QED  BY <3>1 DEF StitchOrder, SameOrder
  <2>2. \A a \in ActionId : actionStatus[a] = "RUNNING" => actionStatus'[a] = "RUNNING"
    BY <1>2, <1>8, ObedientAdapter DEF Dispatched
  <2> QED  BY <2>1, <2>2 DEF Forward
<1>12. ASSUME BehindEnded
       PROVE  Connected(q) /\ \A a \in BaseActions(q) : actionStatus'[a] # "ABSENT"
  <2>1. Connected(o)
    BY OrdersAssumption DEF WellFormed, Connected
  <2>2. Connected(q)
    BY <1>2, <1>5, <1>12, <2>1, JoinedConnected DEF BehindEnded
  <2>3. BaseActions(q) \subseteq ActionId
    BY <1>5, BaseType
  <2>4. \A a \in BaseActions(q) : fresh[a] # "ABSENT"
    BY <1>5, <1>6, <1>12, <2>3 DEF BehindEnded
  <2> QED  BY <1>2, <1>6, <2>2, <2>3, <2>4, ReportedStays, ObedientAdapter
<1>13. CASE Idles(end, new)
  <2>1. pausedNode = {} /\ lastNode = Place(end) /\ exec = {} /\ trav = <<>>
    BY <1>2, <1>13, IdlesAtEnd
  <2>2. w = ProcessEdge(q, new) /\ w.drive \in Seq(Traversal)
    BY <1>2, <1>3, <1>5, <1>13, WorkDrive
  <2>3. exec' = w.run /\ trav' = w.drive /\ pausedNode' = {}
    <3>1. ys = {} /\ us = <<>>
      BY <1>3, <2>1
    <3> QED  BY <1>2, <1>4, <2>1, <2>2, <3>1
  <2>4. \A y \in Released(q) : y.seq \in Nat
    BY <1>5, ReleasedSite
  <2>5. Waiting(q, new, Len(new.acts), fresh)
    <3>1. \A y \in Released(q) : y.seq > new.seq => All(y, "WAITING", fresh)
      <4> SUFFICES ASSUME NEW y \in Released(q), y.seq > new.seq PROVE All(y, "WAITING", fresh)
        OBVIOUS
      <4>1. y \in Released(o)
        BY <1>2, <1>5, <2>4, JoinedSites
      <4> QED  BY <1>7, <4>1
    <3>2. \A i \in DOMAIN new.acts : ~(i > Len(new.acts))
      <4>1. new.acts \in Seq(Action)
        BY <1>5 DEF Node
      <4> QED  BY <4>1
    <3> QED  BY <3>1, <3>2 DEF Waiting
  <2>6. GoesOn(q, w, Place(new), fresh, Worked(q, new, Len(new.acts), fresh))
    BY <1>5, <1>6, <2>2, <2>5, ProcessEdgeGoesOn, ObedientAdapter
  <2>7. AheadWaits'
    BY <1>2, <1>3, <1>5, <2>1, <2>3, <2>6 DEF GoesOn, AheadWaits
  <2>8. ASSUME BehindEnded PROVE BehindEnded'
    <3>1. Behind(order, {}, <<>>, lastNode, actionStatus)
      BY <1>2, <2>1, <2>8 DEF BehindEnded, Proceeding
    <3>2. Stage({}, <<>>, lastNode) = end.seq
      BY <2>1 DEF Stage, Place
    <3>3. \A y \in Released(q) : y.seq < new.seq => All(y, "ENDED", fresh)
      <4> SUFFICES ASSUME NEW y \in Released(q), y.seq < new.seq PROVE All(y, "ENDED", fresh)
        OBVIOUS
      <4>1. y \in Released(order) /\ y.seq < end.seq
        BY <1>2, <1>5, <2>4, JoinedSites
      <4>2. All(y, "ENDED", actionStatus)
        BY <3>1, <3>2, <4>1 DEF Behind
      <4> QED  BY <1>7, <4>1, <4>2 DEF All
    <3>4. \A i \in DOMAIN new.acts : fresh[new.acts[i].id] = "ENDED"
      <4> SUFFICES ASSUME NEW i \in DOMAIN new.acts PROVE fresh[new.acts[i].id] = "ENDED"
        OBVIOUS
      <4>1. new.acts[i].id \in ActionId
        BY <1>5, ReleasedSite DEF Released
      <4>2. actionStatus[new.acts[i].id] = "ENDED"
        BY <1>13 DEF Idles, ActionIdsOf
      <4> QED  BY <1>8, <4>1, <4>2
    <3>5. Worked(q, new, Len(new.acts), fresh)
      BY <3>3, <3>4 DEF Worked
    <3>6. Behind(order', exec', trav', lastNode', actionStatus')
      BY <1>2, <1>3, <1>5, <2>1, <2>3, <2>6, <3>5 DEF GoesOn
    <3> QED  BY <1>2, <1>3, <1>12, <2>8, <3>6 DEF BehindEnded
  <2>9. \A a \in ActionId : actionStatus[a] = "ENDED" => actionStatus'[a] = "ENDED"
    <3>1. \A c \in w.run : c.act \in ActionId => fresh[c.act] = "WAITING"
      BY <2>6 DEF GoesOn
    <3> QED  BY <1>2, <1>6, <1>8, <3>1, DispatchForward
  <2> QED  BY <1>11, <2>7, <2>8, <2>9
<1>14. CASE ~Idles(end, new)
  <2>1. w.run = {} /\ w.drive = <<>>
    BY <1>2, <1>14 DEF NoWork
  <2>2. exec' = ys /\ trav' = us
    BY <1>4, <1>10, <2>1
  <2>3. actionStatus' = fresh
    BY <1>2, <1>6, <2>1, Undisturbed
  <2>9. \A a \in ActionId : actionStatus[a] = "ENDED" => actionStatus'[a] = "ENDED"
    BY <1>8, <2>3
  <2>4. CASE pausedNode # {}
    <3>1. pausedNode' # {}
      BY <1>2, <2>4
    <3>2. \A y \in Released(order) : All(y, "WAITING", fresh)
      BY <1>7, <2>4 DEF AheadWaits, All
    <3>3. All(new, "WAITING", fresh)
      <4>1. ActionIdsOf(new) = ActionIdsOf(end) \cup ActionIdsOf(first)
        BY <1>2, JointNode
      <4> QED  BY <1>7, <3>2, <4>1 DEF All
    <3>4. \A y \in Released(q) : All(y, "WAITING", fresh)
      BY <1>2, <1>5, <1>7, <3>2, <3>3, JoinedSites
    <3>5. AheadWaits'
      BY <1>3, <2>3, <3>1, <3>4 DEF AheadWaits, Proceeding
    <3>6. BehindEnded => BehindEnded'
      BY <1>2, <1>3, <1>12, <3>1 DEF BehindEnded, Proceeding
    <3> QED  BY <1>11, <2>9, <3>5, <3>6
  <2>5. CASE pausedNode = {}
    <3>1. Proceeding /\ Underway /\ pausedNode' = {}
      BY <1>2, <2>5 DEF Proceeding, IInv
    <3>2. Ahead(q, ys, us, lastNode, fresh)
      BY <1>2, <1>3, <1>5, <1>9, <3>1, JoinedAhead DEF AheadWaits
    <3>3. AheadWaits'
      BY <1>2, <1>3, <2>2, <2>3, <3>1, <3>2 DEF AheadWaits
    <3>4. ASSUME BehindEnded, AppendsAhead PROVE BehindEnded'
      <4>1. first.acts = <<>> \/ \E s \in nodeStates : Place(s) = Place(first)
        BY <1>2, <3>4 DEF AppendsAhead, IsFirst
      <4>2. exec # {} \/ trav # <<>>
        BY <1>2, <1>14, <2>5, <3>4, <4>1, IdlesWhenDone
      <4>3. \A n \in order.nodes : n.seq \in Nat
        BY DEF IInv, TypeOK, Order, Node
      <4>4. lastNode.seq <= end.seq
        <5>1. PICK n \in order.nodes : n.rel /\ Place(n) = lastNode
          BY <3>1 DEF Underway
        <5>2. n.seq <= end.seq /\ n.seq = lastNode.seq
          BY <1>2, <5>1 DEF Joins, IsBaseEnd, Base, Place
        <5> QED  BY <5>2
      <4>5. first.acts = <<>> \/ lastNode.seq < end.seq
        <5> SUFFICES ASSUME NEW s \in nodeStates, Place(s) = Place(first)
                     PROVE  lastNode.seq < end.seq
          BY <4>1
        <5>1. PICK m \in order.nodes : m.seq > lastNode.seq /\ s = NodeState(m)
          BY <3>1 DEF Underway
        <5>2. Place(end) = Place(first)
          BY <1>2 DEF Joins
        <5>3. m.seq = end.seq
          BY <5>1, <5>2 DEF Place, NodeState
        <5> QED  BY <1>9, <4>3, <5>1, <5>3
      <4>6. Behind(order, exec, trav, lastNode, actionStatus)
        BY <3>1, <3>4 DEF BehindEnded
      <4>7. Behind(q, ys, us, lastNode, fresh)
        BY <1>2, <1>3, <1>5, <1>9, <4>2, <4>4, <4>5, <4>6, JoinedBehind
      <4> QED  BY <1>2, <1>3, <1>12, <2>2, <2>3, <3>4, <4>7 DEF BehindEnded
    <3> QED  BY <1>11, <2>9, <3>3, <3>4
  <2> QED  BY <2>4, <2>5
<1> QED  BY <1>13, <1>14

LEMMA InitProgress == Init => AheadWaits /\ BehindEnded
<1> SUFFICES ASSUME Init PROVE AheadWaits /\ BehindEnded
  OBVIOUS
<1>1. ~Proceeding /\ pausedNode = {} /\ ~canceling
  BY DEF Init, Proceeding, HasActiveOrder, Active
<1>2. order.nodes = {} /\ order.edges = {}
  BY DEF Init
<1>3. BaseActions(order) = {} /\ Connected(order)
  BY <1>2 DEF BaseActions, Released, Connected
<1> QED  BY <1>1, <1>3 DEF AheadWaits, BehindEnded

LEMMA ProgressStep ==
    ASSUME IInv, IInv', Obedient, LoneNoneOrder, AheadWaits, [Next]_vars
    PROVE  /\ AheadWaits' /\ Forward
           /\ BehindEnded /\ [AppendsAhead]_vars => BehindEnded'
<1>1. ASSUME Advances
      PROVE  /\ AheadWaits' /\ Forward
             /\ BehindEnded /\ [AppendsAhead]_vars => BehindEnded'
  BY <1>1 DEF Advances
<1>2. CASE UNCHANGED vars
  BY <1>1, <1>2, QuietAdvances
<1>3. CASE ~UNCHANGED vars
  <2>1. ASSUME NEW o \in Orders, StitchOrder(o)
        PROVE  /\ AheadWaits' /\ Forward
               /\ BehindEnded /\ [AppendsAhead]_vars => BehindEnded'
    <3>1. AheadWaits' /\ Forward /\ (BehindEnded /\ AppendsAhead => BehindEnded')
      BY <2>1, StitchAdvances
    <3> QED  BY <1>3, <3>1
  <2>2. ASSUME NEW o \in Orders, RejectOrder(o) \/ DiscardOrder(o) \/ StartOrder(o)
        PROVE  Advances
    BY <2>2, StartAdvances, QuietAdvances
  <2>3. ASSUME NEW c \in exec, ActionBegins(c) \/ ActionEnds(c) PROVE Advances
    <3>1. ~ActionBegins(c)
      BY ObedientAdapter DEF ActionBegins
    <3> QED  BY <2>3, <3>1, EndAdvances
  <2>4. CASE EdgeTraversed
    BY <1>1, <2>4, EdgeAdvances
  <2>5. CASE CancelOrder \/ DrivingToNextNode \/ Stopped
    BY <1>1, <2>5, CancelAdvances
  <2>6. CASE StartPause \/ PauseButton
    BY <1>1, <2>6, QuietAdvances
  <2>7. CASE StopPause
    BY <1>1, <2>7, StopPauseAdvances
  <2> QED  BY <1>1, <1>3, <2>1, <2>2, <2>3, <2>4, <2>5, <2>6, <2>7 DEF Next
<1> QED  BY <1>2, <1>3

(* No action of an order is executed twice, or revived after it has ended  *)
(* or has been canceled: executeAction is invoked for waiting actions      *)
(* only, even for those stitched to a node whose actions are being         *)
(* executed.                                                               *)
THEOREM StatusForward ==
    ASSUME Obedient
    PROVE  Spec /\ []LoneNoneOrder => StatusMovesForward
<1>1. Init => AheadWaits
  BY InitProgress
<1>2. IInv /\ IInv' /\ LoneNoneOrder /\ AheadWaits /\ [Next]_vars => AheadWaits' /\ [Forward]_vars
  BY ProgressStep
<1>3. StatusMovesForward <=> [][Forward]_vars
  BY PTL DEF StatusMovesForward, Forward
<1> QED  BY <1>1, <1>2, <1>3, Invariance, PTL DEF Spec

LEMMA NoHandlerStops == IInv /\ BehindEnded => NeverHangs
<1> SUFFICES ASSUME IInv, BehindEnded, HasActiveOrder,
                    exec = {}, trav = <<>>, ~(stops > 0), pausedNode = {}
             PROVE  AtHorizon
  BY DEF NeverHangs
<1>1. stops = 0 /\ ~canceling
  BY DEF IInv, TypeOK, BehindEnded
<1>2. /\ Underway /\ Behind(order, {}, <<>>, lastNode, actionStatus) /\ Connected(order)
      /\ order \in Order /\ OrderShape(order) /\ UniqueActions(order) /\ lastNode.seq \in Nat
      /\ \A n \in order.nodes \cup order.edges : n.seq \in Nat
  BY <1>1 DEF IInv, TypeOK, BehindEnded, Proceeding, Order, Node, Edge
<1>3. PICK n \in order.nodes : n.rel /\ Place(n) = lastNode /\ n.seq = lastNode.seq
  BY <1>2 DEF Underway, Place
<1>4. ASSUME NEW m \in order.nodes, m.rel PROVE ~(m.seq > lastNode.seq)
  <2>1. \A e \in Released(order) : e.seq # n.seq + 1
    BY <1>2, <1>3 DEF Behind
  <2>2. ~(n.seq < m.seq)
    BY <1>2, <1>4, <2>1, EdgeFollows
  <2> QED  BY <1>2, <1>3, <2>2
<1>5. ASSUME NEW e \in order.edges
      PROVE  \E m \in order.nodes : m.seq = e.seq + 1 /\ m.rel = e.rel
  BY <1>2 DEF OrderShape, Leads
<1>6. ASSUME NEW y \in Released(order) PROVE All(y, "ENDED", actionStatus)
  <2>1. y.seq <= lastNode.seq
    <3>1. CASE y \in order.nodes
      BY <1>2, <1>4, <3>1 DEF Released
    <3>2. CASE y \in order.edges
      <4>1. PICK m \in order.nodes : m.seq = y.seq + 1 /\ m.rel = y.rel
        BY <1>5, <3>2
      <4>2. ~(m.seq > lastNode.seq)
        BY <1>4, <4>1 DEF Released
      <4> QED  BY <1>2, <3>2, <4>1, <4>2
    <3> QED  BY <3>1, <3>2 DEF Released
  <2>2. y.seq \in Nat
    BY <1>2 DEF Released
  <2>3. Stage({}, <<>>, lastNode) = lastNode.seq
    BY DEF Stage
  <2>4. y.seq < lastNode.seq \/ y.seq = lastNode.seq
    BY <1>2, <2>1, <2>2
  <2> QED  BY <1>2, <2>3, <2>4 DEF Behind
<1>7. \A a \in ActionId : actionStatus[a] \in {"ABSENT", "ENDED"}
  <2> SUFFICES ASSUME NEW a \in ActionId, actionStatus[a] # "ABSENT"
               PROVE  actionStatus[a] = "ENDED"
    OBVIOUS
  <2>1. a \in BaseActions(order)
    BY DEF IInv, CancelFindsActions
  <2> QED  BY <1>6, <2>1 DEF BaseActions, All
<1>8. \A s \in nodeStates : ~s.rel
  BY <1>2, <1>4 DEF Underway, NodeState
<1>9. nodeStates # {}
  <2>1. nodeStates # {} \/ edgeStates # {}
    BY <1>7 DEF HasActiveOrder, Active
  <2>2. ASSUME edgeStates # {} PROVE nodeStates # {}
    <3>1. PICK e \in order.edges : e.seq > lastNode.seq
      BY <1>2, <2>2 DEF Underway
    <3>2. PICK m \in order.nodes : m.seq = e.seq + 1
      BY <1>5
    <3>3. m.seq > lastNode.seq
      BY <1>2, <3>1, <3>2
    <3> QED  BY <1>2, <3>3 DEF Underway
  <2> QED  BY <2>1, <2>2
<1> QED  BY <1>7, <1>8, <1>9 DEF AtHorizon

(* No handler returns without having started the next step: an active      *)
(* order always waits for a callback of the adapter, for the release of    *)
(* its horizon, or for stopPause.  Actions must not be appended to the     *)
(* node where the vehicle is (run stitch_actions shows why).               *)
THEOREM OrderNeverHangs ==
    ASSUME Obedient
    PROVE  Spec /\ []LoneNoneOrder /\ [][AppendsAhead]_vars => []NeverHangs
<1>1. Init => AheadWaits /\ BehindEnded
  BY InitProgress
<1>2. IInv /\ IInv' /\ LoneNoneOrder /\ AheadWaits /\ BehindEnded
      /\ [Next]_vars /\ [AppendsAhead]_vars => AheadWaits' /\ BehindEnded'
  BY ProgressStep
<1>3. IInv /\ BehindEnded => NeverHangs
  BY NoHandlerStops
<1> QED  BY <1>1, <1>2, <1>3, Invariance, PTL DEF Spec
-----------------------------------------------------------------------------
(* What one report tells of the next one. *)

InExecution(st) == {a \in ActionId : st[a] \in {"WAITING", "RUNNING"}}

(* No action that is reported is left out of the next report. *)
StaysReported == \A a \in ActionId : actionStatus[a] # "ABSENT" => actionStatus'[a] # "ABSENT"

LEMMA PerformReports ==
    ASSUME NEW w, NEW st, NEW xs, NEW ts, Perform(w, st, xs, ts), NEW a \in ActionId,
           st[a] # "ABSENT"
    PROVE  actionStatus'[a] # "ABSENT"
  BY DEF Perform, Started

LEMMA VisitReports ==
    ASSUME NEW n, NEW left, NEW ns, NEW es, NEW st, NEW ts,
           ProcessNode(n, left, ns, es, st, ts)
    PROVE  /\ nodeStates' \subseteq ns /\ edgeStates' \subseteq es
           /\ \A a \in ActionId : st[a] # "ABSENT" => actionStatus'[a] # "ABSENT"
<1>1. \E w : Perform(w, st, exec, ts)
  BY DEF ProcessNode
<1>2. nodeStates' \subseteq ns /\ edgeStates' \subseteq es
  BY DEF ProcessNode
<1> QED  BY <1>1, <1>2, PerformReports

(* A step that receives no order reports no more nodes, edges or actions   *)
(* than before, and leaves out no action.                                  *)
LEMMA OrderStays ==
    ASSUME IInv, Obedient, [Next]_vars, order' = order
    PROVE  nodeStates' \subseteq nodeStates /\ edgeStates' \subseteq edgeStates /\ StaysReported
<1>1. CASE \/ UNCHANGED vars \/ StartPause \/ PauseButton
           \/ \E o \in Orders : RejectOrder(o) \/ DiscardOrder(o)
  BY <1>1 DEF vars, StartPause, PauseButton, RejectOrder, DiscardOrder, reported, StaysReported
<1>2. ASSUME NEW o \in Orders, StartOrder(o) \/ StitchOrder(o) PROVE FALSE
  <2>1. order'.orderId = o.orderId /\ order'.upd = o.upd
    <3>1. CASE StartOrder(o)
      BY <3>1 DEF StartOrder
    <3>2. CASE StitchOrder(o)
      <4>1. PICK end \in order.nodes, first \in o.nodes : order' = Stitched(o, end, first)
        BY <3>2 DEF StitchOrder
      <4> QED  BY <4>1 DEF Stitched
    <3> QED  BY <1>2, <3>1, <3>2
  <2>2. ~(SameOrder(o) /\ o.upd = order.upd)
    BY <1>2 DEF StartOrder, StitchOrder
  <2> QED  BY <2>1, <2>2 DEF SameOrder
<1>3. CASE EdgeTraversed
  <2>1. CASE canceling
    BY <1>3, <2>1 DEF EdgeTraversed, reported, StaysReported
  <2>2. CASE ~canceling
    <3>1. ProcessNode(Head(trav).to, {Head(trav).edge}, nodeStates, edgeStates, actionStatus,
                      Tail(trav))
      BY <1>3, <2>2 DEF EdgeTraversed
    <3> QED  BY <3>1, VisitReports DEF StaysReported
  <2> QED  BY <2>1, <2>2
<1>4. ASSUME NEW c \in exec, ActionBegins(c) \/ ActionEnds(c)
      PROVE  nodeStates' \subseteq nodeStates /\ edgeStates' \subseteq edgeStates /\ StaysReported
  <2>1. ~ActionBegins(c)
    BY ObedientAdapter DEF ActionBegins
  <2>2. PICK st : st = [actionStatus EXCEPT ![c.act] = "ENDED"]
    OBVIOUS
  <2>3. \E w : Perform(w, st, exec \ {c}, trav)
    BY <1>4, <2>1, <2>2 DEF ActionEnds
  <2>4. \A a \in ActionId : actionStatus[a] # "ABSENT" => st[a] # "ABSENT"
    BY <2>2 DEF IInv, TypeOK
  <2> QED  BY <1>4, <2>1, <2>3, <2>4, PerformReports DEF ActionEnds, StaysReported
<1>5. CASE CancelOrder \/ DrivingToNextNode \/ Stopped
  BY <1>5 DEF CancelOrder, DrivingToNextNode, Stopped, StaysReported
<1>6. CASE StopPause
  <2>1. CASE pausedNode = {} \/ canceling
    BY <1>6, <2>1 DEF StopPause, reported, StaysReported
  <2>2. CASE ~(pausedNode = {} \/ canceling)
    <3>1. PICK n : ProcessNode(n, {}, nodeStates, edgeStates, actionStatus, trav)
      BY <1>6, <2>2 DEF StopPause
    <3> QED  BY <3>1, VisitReports DEF StaysReported
  <2> QED  BY <2>1, <2>2
<1> QED  BY <1>1, <1>2, <1>3, <1>4, <1>5, <1>6 DEF Next

(* What is reported first of an order that replaces an inactive one. *)
LEMMA StartReports ==
    ASSUME IInv', Obedient, NEW o \in Orders, StartOrder(o)
    PROVE  /\ ~HasActiveOrder /\ order' = o /\ rejected' = {}
           /\ nodeStates' \subseteq {NodeState(n) : n \in o.nodes}
           /\ edgeStates' \subseteq {EdgeState(e) : e \in o.edges}
           /\ BaseActions(o) \subseteq ActionId
           /\ \A a \in BaseActions(o) : actionStatus'[a] # "ABSENT"
           /\ InExecution(actionStatus') \subseteq BaseActions(o)
<1>1. ~HasActiveOrder /\ order' = o /\ rejected' = {}
  BY DEF StartOrder
<1>2. PICK st : st = [a \in ActionId |-> IF a \in BaseActions(o) THEN "WAITING" ELSE "ABSENT"]
  OBVIOUS
<1>3. PICK n : ProcessNode(n, {}, {NodeState(m) : m \in o.nodes}, {EdgeState(e) : e \in o.edges},
                           st, trav)
  BY <1>2 DEF StartOrder
<1>4. BaseActions(o) \subseteq ActionId
  BY BaseType, OrdersAssumption
<1>5. \A a \in BaseActions(o) : actionStatus'[a] # "ABSENT"
  BY <1>2, <1>3, <1>4, VisitReports
<1>6. InExecution(actionStatus') \subseteq BaseActions(o)
  BY <1>1 DEF IInv, CancelFindsActions, InExecution
<1> QED  BY <1>1, <1>3, <1>4, <1>5, <1>6, VisitReports

(* What is reported first of an order that is stitched to an active one.   *)
LEMMA StitchReports ==
    ASSUME IInv, IInv', Obedient, AheadWaits, Reported, NEW o \in Orders, StitchOrder(o)
    PROVE  /\ order'.orderId = o.orderId /\ order'.upd = o.upd /\ rejected' = {}
           /\ BaseActions(o) \subseteq ActionId
           /\ \A a \in BaseActions(o) : actionStatus'[a] # "ABSENT"
           /\ InExecution(actionStatus') \subseteq InExecution(actionStatus) \cup BaseActions(o)
           /\ StaysReported /\ Reported'
<1>1. PICK end, first, new, w, fresh : Stitches(o, end, first, new, w, fresh)
  BY StitchFacts
<1>2. /\ Joins(order, o, end, first, new)
      /\ order' = Joined(order, o, end, first, new)
      /\ Freshened(order, o, actionStatus, fresh)
      /\ actionStatus' = Dispatched(w, fresh)
  BY <1>1 DEF Stitches
<1>3. order'.orderId = o.orderId /\ order'.upd = o.upd /\ rejected' = {}
  BY <1>2 DEF Joined, StitchOrder
<1>4. BaseActions(o) \subseteq ActionId
  BY BaseType, OrdersAssumption
<1>5. PICK q : q = order'
  OBVIOUS
<1>6. BaseActions(order') = BaseActions(order) \cup BaseActions(o)
  BY <1>2, <1>5, JoinedActions
<1>7. /\ fresh \in [ActionId -> Status]
      /\ \A a \in ActionId : fresh[a] = IF a \in BaseActions(o) THEN "WAITING" ELSE actionStatus[a]
  BY <1>2 DEF Freshened
<1>8. \A a \in ActionId : fresh[a] # "ABSENT" => actionStatus'[a] # "ABSENT"
  BY <1>2, <1>7, ReportedStays, ObedientAdapter
<1>9. StaysReported /\ \A a \in BaseActions(o) : actionStatus'[a] # "ABSENT"
  BY <1>4, <1>7, <1>8 DEF StaysReported
<1>10. BaseActions(order) \subseteq ActionId
  BY BaseType DEF IInv, TypeOK
<1>11. Reported'
  BY <1>6, <1>9, <1>10 DEF Reported, StaysReported
<1>12. \A a \in ActionId : actionStatus[a] = "ENDED" => actionStatus'[a] = "ENDED"
  BY StitchAdvances
<1>13. ASSUME NEW a \in ActionId, actionStatus'[a] \in {"WAITING", "RUNNING"},
              actionStatus[a] \notin {"WAITING", "RUNNING"}
       PROVE  a \in BaseActions(o)
  <2>1. actionStatus[a] = "ABSENT"
    BY <1>12, <1>13 DEF IInv, TypeOK, Status
  <2>2. a \in BaseActions(order')
    BY <1>13 DEF IInv, CancelFindsActions
  <2> QED  BY <1>6, <2>1, <2>2 DEF Reported
<1> QED  BY <1>3, <1>4, <1>9, <1>11, <1>13 DEF InExecution

(* Between two orders only less remains to be done. *)
LEMMA LessRemains ==
    ASSUME IInv, IInv', Obedient, LoneNoneOrder, AheadWaits, Reported, [Next]_vars, order' = order
    PROVE  InExecution(actionStatus') \subseteq InExecution(actionStatus)
<1> SUFFICES ASSUME NEW a \in ActionId, actionStatus'[a] \in {"WAITING", "RUNNING"},
                    actionStatus[a] \notin {"WAITING", "RUNNING"}
             PROVE  FALSE
  BY DEF InExecution
<1>1. Forward
  BY ProgressStep
<1>2. actionStatus[a] = "ABSENT"
  BY <1>1 DEF Forward, IInv, TypeOK, Status
<1>3. a \in BaseActions(order)
  BY DEF IInv, CancelFindsActions
<1> QED  BY <1>2, <1>3 DEF Reported

LEMMA ReportedStep ==
    ASSUME IInv, IInv', Obedient, AheadWaits, Reported, [Next]_vars
    PROVE  Reported'
<1>1. ASSUME NEW o \in Orders, StartOrder(o) PROVE Reported'
  BY <1>1, StartReports DEF Reported
<1>2. ASSUME NEW o \in Orders, StitchOrder(o) PROVE Reported'
  BY <1>2, StitchReports
<1>3. CASE order' = order
  <2>1. BaseActions(order) \subseteq ActionId
    BY BaseType DEF IInv, TypeOK
  <2> QED  BY <1>3, <2>1, OrderStays DEF Reported, StaysReported
<1>4. \/ order' = order \/ \E o \in Orders : StartOrder(o) \/ StitchOrder(o)
  BY DEF Next, vars, RejectOrder, DiscardOrder, EdgeTraversed, ActionBegins, ActionEnds,
         CancelOrder, DrivingToNextNode, Stopped, StartPause, StopPause, PauseButton
<1> QED  BY <1>1, <1>2, <1>3, <1>4

LEMMA InitReported == Init => Reported
  BY DEF Init, Reported, BaseActions, Released

(* At the horizon no released edge is reported either. *)
LEMMA HorizonEdges ==
    ASSUME IInv, AtHorizon, ~canceling, pausedNode = {}
    PROVE  \A e \in edgeStates : ~e.rel
<1>1. Underway
  BY DEF IInv, AtHorizon, HasActiveOrder, Active
<1> SUFFICES ASSUME NEW f \in order.edges, f.seq > lastNode.seq, f.rel PROVE FALSE
  BY <1>1 DEF Underway, EdgeState
<1>2. PICK n \in order.nodes : Leads(f, n) /\ f.rel = n.rel
  BY DEF IInv, OrderShape
<1>3. n.seq > lastNode.seq
  BY <1>2 DEF IInv, TypeOK, Order, Node, Edge, Leads
<1>4. NodeState(n) \in nodeStates /\ NodeState(n).rel
  BY <1>1, <1>2, <1>3 DEF Underway, NodeState
<1> QED  BY <1>4 DEF AtHorizon

(* An action the adapter executes is RUNNING. *)
LEMMA ExecutedRuns ==
    ASSUME IInv, NEW c \in exec
    PROVE  c.act \in ActionId /\ actionStatus[c.act] = "RUNNING"
<1>1. c.act \in ActionId
  BY DEF IInv, TypeOK, Context
<1> QED  BY <1>1 DEF IInv, RunningExecutes
=============================================================================
