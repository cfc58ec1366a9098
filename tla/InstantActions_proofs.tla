------------------------- MODULE InstantActions_proofs -------------------------
(***************************************************************************)
(* The order in which instant actions are executed, for any messages: a    *)
(* HARD action is executed alone, actions begin in their order, none waits *)
(* without a reason, and a cancelOrder that need not wait finds an order.  *)
(*                                                                         *)
(* All is proved of behaviours in which an action that ends within the     *)
(* call that executes it comes last in its loop, as HARD ones do.          *)
(* Otherwise the loop goes on in an array that has changed: run            *)
(* request_in_loop shows what then happens.                                *)
(***************************************************************************)
EXTENDS InstantActions, SequenceTheorems, FiniteSetTheorems,
        WellFoundedInduction, TLAPS

EndsLast ==
    calls # <<>> /\ Ends(queue[Head(calls).next]) => Head(calls).next = Head(calls).last

(* The actions of q up to position p are those that may be executed.       *)
Triggered(q, p) ==
    /\ q # <<>> => p >= 1
    /\ \A i \in 1..p : IsHard(q[i]) => p = 1
    /\ p < Len(q) => IsHard(q[1]) \/ IsHard(q[p + 1])

(* The loop that executes the actions beyond position b up to position p.  *)
Loop(b, p) == IF b = p THEN <<>> ELSE <<[next |-> b + 1, last |-> p]>>

(* Of the actions that may be executed those at the front have begun, and  *)
(* the loop in progress executes the others.                               *)
InOrder ==
    \E p \in 0..Len(queue) : \E b \in 0..p :
        /\ \A i \in DOMAIN queue : queue[i] \in begun <=> i <= b
        /\ Triggered(queue, p)
        /\ calls = Loop(b, p)

Came == UNION {{m[i] : i \in DOMAIN m} : m \in received}

(* The queue holds each action once, and none that has ended.              *)
Members ==
    /\ \A i \in DOMAIN queue : queue[i] \in Came /\ queue[i] \notin ended
    /\ \A i, j \in DOMAIN queue : queue[i] = queue[j] => i = j
    /\ begun \subseteq Came /\ ended \subseteq begun
    /\ \A a \in begun : a \in ended \/ \E i \in DOMAIN queue : queue[i] = a
    /\ canceling # NoAction => canceling \in begun \ ended /\ canceling.type = "cancelOrder"

IInv == TypeOK /\ Members /\ InOrder

-----------------------------------------------------------------------------
(* What the queue's operators compute. *)

LEMMA RemoveAtMoves ==
    ASSUME NEW S, NEW seq \in Seq(S), NEW i \in 1..Len(seq)
    PROVE  /\ RemoveAt(seq, i) \in Seq(S)
           /\ Len(RemoveAt(seq, i)) = Len(seq) - 1
           /\ \A k \in 1..(Len(seq) - 1) : RemoveAt(seq, i)[k] = seq[IF k < i THEN k ELSE k + 1]
<1> DEFINE p == SubSeq(seq, 1, i - 1)
           q == SubSeq(seq, i + 1, Len(seq))
<1>1. i \in Nat /\ Len(seq) \in Nat /\ 1 <= i /\ i <= Len(seq)
  BY LenProperties
<1>2. /\ p \in Seq(S) /\ Len(p) = i - 1
      /\ \A k \in 1..(i - 1) : p[k] = seq[k]
  BY SubSeqProperties
<1>3. /\ q \in Seq(S) /\ Len(q) = Len(seq) - i
      /\ \A k \in 1..(Len(seq) - i) : q[k] = seq[i + k]
  BY SubSeqProperties
<1>4. RemoveAt(seq, i) = p \o q
  BY DEF RemoveAt
<1>5. /\ p \o q \in Seq(S) /\ Len(p \o q) = Len(p) + Len(q)
      /\ \A k \in 1..(Len(p) + Len(q)) :
            (p \o q)[k] = IF k <= Len(p) THEN p[k] ELSE q[k - Len(p)]
  BY <1>2, <1>3, ConcatProperties
<1> HIDE DEF p, q
<1>6. ASSUME NEW k \in 1..(Len(seq) - 1)
      PROVE  (p \o q)[k] = seq[IF k < i THEN k ELSE k + 1]
  <2>1. CASE k < i
    BY <1>1, <1>2, <1>3, <1>5, <2>1
  <2>2. CASE ~(k < i)
    <3>1. (p \o q)[k] = q[k - (i - 1)]
      BY <1>1, <1>2, <1>3, <1>5, <2>2
    <3>2. k - (i - 1) \in 1..(Len(seq) - i) /\ i + (k - (i - 1)) = k + 1
      BY <1>1, <2>2
    <3> QED  BY <1>3, <2>2, <3>1, <3>2
  <2> QED  BY <2>1, <2>2
<1> QED  BY <1>1, <1>2, <1>3, <1>4, <1>5, <1>6

(* The first of the HARD actions of a part of the queue.                   *)
LEMMA FirstExists ==
    ASSUME NEW S, S \subseteq Nat, S # {}
    PROVE  LET h == CHOOSE h \in S : \A g \in S : h <= g IN
           h \in S /\ \A g \in S : h <= g
<1> DEFINE R == OpToRel(<, Nat)
<1>1. IsWellFoundedOn(R, Nat)
  BY NatLessThanWellFounded, Zenon
<1>2. \A x, y \in Nat : x < y => <<x, y>> \in R
  BY DEF OpToRel
<1> HIDE DEF R
<1>3. PICK h \in S : \A y \in S : <<y, h>> \notin R
  BY <1>1, WFMin
<1>4. \A y \in S : ~(y < h)
  BY <1>2, <1>3
<1>5. \A y \in S : h <= y
  BY <1>4
<1> QED  BY <1>5

(* The actions that a message, or the end of a HARD action, triggers.      *)
LEMMA ChunkTriggers ==
    ASSUME NEW q \in Seq(Action), NEW after \in 0..Len(q),
           \A i \in 1..after : ~IsHard(q[i])
    PROVE  \E p \in after..Len(q) :
              Triggered(q, p) /\ Chunk(q, after, after # 0) = Loop(after, p)
<1> DEFINE Hard == {i \in (after + 1)..Len(q) : IsHard(q[i])}
           first == CHOOSE h \in Hard : \A g \in Hard : h <= g
           stop == IF Hard = {} THEN Len(q) + 1 ELSE first
<1>1. Len(q) \in Nat /\ after \in Nat /\ after <= Len(q)
  BY LenProperties
<1>2. Hard \subseteq Nat
  BY <1>1
<1>3. Hard # {} => first \in Hard /\ \A g \in Hard : first <= g
  BY <1>2, FirstExists
<1>4. /\ stop \in (after + 1)..(Len(q) + 1)
      /\ stop <= Len(q) => IsHard(q[stop])
      /\ \A i \in 1..(stop - 1) : ~IsHard(q[i])
  <2>1. CASE Hard = {}
    BY <1>1, <2>1
  <2>2. CASE Hard # {}
    <3>1. /\ first \in (after + 1)..Len(q) /\ IsHard(q[first])
          /\ \A g \in Hard : first <= g
      BY <1>3, <2>2
    <3>2. ASSUME NEW i \in 1..(first - 1), IsHard(q[i])  PROVE FALSE
      <4>1. i \in 1..Len(q) /\ i < first
        BY <1>1, <3>1
      <4>2. CASE i <= after
        BY <3>2, <4>2, <1>1
      <4>3. CASE i > after
        <5>1. i \in Hard
          BY <1>1, <3>2, <4>1, <4>3
        <5>2. first <= i
          BY <3>1, <5>1
        <5>3. first \in Nat
          BY <1>1, <3>1
        <5> HIDE DEF first, Hard
        <5> QED  BY <4>1, <5>2, <5>3
      <4> QED  BY <1>1, <4>2, <4>3
    <3>3. stop = first
      BY <2>2
    <3> HIDE DEF stop, first
    <3> QED  BY <1>1, <3>1, <3>2, <3>3
  <2> QED  BY <2>1, <2>2
<1>5. Chunk(q, after, after # 0) =
          IF stop # after + 1 THEN <<[next |-> after + 1, last |-> stop - 1]>>
          ELSE IF Hard # {} /\ after = 0 THEN <<[next |-> stop, last |-> stop]>>
          ELSE <<>>
  BY DEF Chunk
<1>6. Hard = {} => stop = Len(q) + 1
  OBVIOUS
<1>7. Hard # {} => stop <= Len(q)
  <2>1. Hard # {} => stop \in Hard
    BY <1>3
  <2>2. \A h \in Hard : h <= Len(q)
    BY <1>1
  <2> QED  BY <2>1, <2>2
<1>8. q # <<>> <=> Len(q) # 0
  BY EmptySeq
<1> HIDE DEF Hard, stop
<1>9. CASE stop # after + 1
  <2>1. stop - 1 \in after..Len(q) /\ Triggered(q, stop - 1)
    BY <1>1, <1>4, <1>8, <1>9 DEF Triggered
  <2>2. Chunk(q, after, after # 0) = Loop(after, stop - 1)
    BY <1>1, <1>4, <1>5, <1>9 DEF Loop
  <2> QED  BY <2>1, <2>2
<1>10. CASE stop = after + 1 /\ Hard # {} /\ after = 0
  <2>1. stop \in after..Len(q) /\ Triggered(q, stop)
    BY <1>1, <1>4, <1>7, <1>8, <1>10 DEF Triggered
  <2>2. Chunk(q, after, after # 0) = Loop(after, stop)
    BY <1>1, <1>4, <1>5, <1>10 DEF Loop
  <2> QED  BY <2>1, <2>2
<1>11. CASE stop = after + 1 /\ ~(Hard # {} /\ after = 0)
  <2>1. after \in after..Len(q) /\ Triggered(q, after)
    BY <1>1, <1>4, <1>6, <1>7, <1>8, <1>11 DEF Triggered
  <2>2. Chunk(q, after, after # 0) = Loop(after, after)
    BY <1>1, <1>4, <1>5, <1>11 DEF Loop
  <2> QED  BY <2>1, <2>2
<1> QED  BY <1>9, <1>10, <1>11

(* The end of an action at position k of those up to position p, which     *)
(* have all begun: the others have begun still, and more may be executed.  *)
LEMMA EndTriggers ==
    ASSUME NEW q \in Seq(Action), NEW p \in 1..Len(q), NEW k \in 1..p, NEW done,
           Triggered(q, p), \A i \in DOMAIN q : q[i] \in done <=> i = k
    PROVE  \E r \in (p - 1)..(Len(q) - 1) :
              Triggered(RemoveAt(q, k), r) /\ AfterEnd(q, k, done) = Loop(p - 1, r)
<1> DEFINE rest == RemoveAt(q, k)
           Later == {i \in k..Len(rest) : IsHard(rest[i])}
           hard == CHOOSE h \in Later : \A g \in Later : h <= g
<1>0. rest = RemoveAt(q, k)
  OBVIOUS
<1>1. /\ Len(q) \in Nat /\ k \in Nat /\ p \in Nat
      /\ 1 <= k /\ k <= p /\ p <= Len(q) /\ DOMAIN q = 1..Len(q)
  BY LenProperties
<1>2. /\ rest \in Seq(Action) /\ Len(rest) = Len(q) - 1
      /\ \A i \in 1..(Len(q) - 1) : rest[i] = q[IF i < k THEN i ELSE i + 1]
  <2>1. k \in 1..Len(q)
    BY <1>1
  <2> QED  BY <2>1, RemoveAtMoves
<1>3. AfterEnd(q, k, done) =
          IF IsHard(q[k]) THEN Chunk(rest, 0, FALSE)
          ELSE IF Later # {} /\ ParallelEnded(q, k, done) THEN <<[next |-> hard, last |-> hard]>>
          ELSE <<>>
  BY DEF AfterEnd
<1>4. rest # <<>> <=> Len(rest) # 0
  BY <1>2, EmptySeq
<1>5. CASE IsHard(q[k])
  <2>1. p = 1 /\ k = 1
    BY <1>1, <1>5 DEF Triggered
  <2>2. 0 \in 0..Len(rest) /\ \A i \in 1..0 : ~IsHard(rest[i])
    BY <1>1, <1>2
  <2>3. PICK r \in 0..Len(rest) :
            Triggered(rest, r) /\ Chunk(rest, 0, 0 # 0) = Loop(0, r)
    BY <1>2, <2>2, ChunkTriggers
  <2>4. (0 # 0) = FALSE
    OBVIOUS
  <2>5. AfterEnd(q, k, done) = Loop(p - 1, r)
    <3>1. Chunk(rest, 0, 0 # 0) = Chunk(rest, 0, FALSE)
      BY <2>4
    <3>2. p - 1 = 0
      BY <2>1
    <3>3. AfterEnd(q, k, done) = Chunk(rest, 0, FALSE)
      BY <1>3, <1>5
    <3> QED  BY <2>3, <3>1, <3>2, <3>3
  <2>6. r \in (p - 1)..(Len(q) - 1)
    BY <1>2, <2>1
  <2> HIDE DEF rest
  <2> QED  BY <1>0, <2>3, <2>5, <2>6
<1>6. CASE ~IsHard(q[k])
  <2>1. \A i \in 1..p : ~IsHard(q[i])
    BY <1>1, <1>6 DEF Triggered
  <2>2. p < Len(q) => IsHard(q[p + 1])
    BY <1>1, <2>1 DEF Triggered
  <2>3. CASE Later # {} /\ ParallelEnded(q, k, done)
    <3>1. \A i \in 1..p : i = k
      <4>1. SUFFICES ASSUME NEW i \in 1..p PROVE q[i] \in done
        BY <1>1
      <4>2. \A j \in DOMAIN q : (i <= j /\ j <= k) \/ (k <= j /\ j <= i) => ~IsHard(q[j])
        BY <1>1, <2>1
      <4> QED  BY <1>1, <2>3, <4>2 DEF ParallelEnded
    <3>2. p = 1 /\ k = 1
      <4>1. 1 \in 1..p /\ p \in 1..p
        BY <1>1
      <4> QED  BY <3>1, <4>1
    <3>3. PICK h \in Later : TRUE
      BY <2>3
    <3>4. Len(rest) >= 1
      BY <1>1, <1>2, <3>3
    <3>5. IsHard(rest[1])
      BY <1>1, <1>2, <2>2, <3>2, <3>4
    <3>6. 1 \in Later
      BY <1>1, <1>2, <3>2, <3>4, <3>5
    <3>7. hard \in Later /\ \A g \in Later : hard <= g
      <4>1. Later \subseteq Nat
        BY <1>1, <1>2
      <4> QED  BY <2>3, <4>1, FirstExists
    <3>8. hard = 1
      <4>1. hard \in 1..Len(rest) /\ hard <= 1
        BY <3>2, <3>6, <3>7
      <4> HIDE DEF hard, rest
      <4> QED  BY <1>1, <1>2, <4>1
    <3>9. Triggered(rest, 1)
      BY <1>1, <1>2, <3>4, <3>5 DEF Triggered
    <3>10. AfterEnd(q, k, done) = Loop(0, 1)
      <4>1. AfterEnd(q, k, done) = <<[next |-> hard, last |-> hard]>>
        BY <1>3, <1>6, <2>3
      <4> HIDE DEF hard
      <4> QED  BY <3>8, <4>1 DEF Loop
    <3>11. 1 \in (p - 1)..(Len(q) - 1) /\ p - 1 = 0
      BY <1>1, <1>2, <3>2, <3>4
    <3> HIDE DEF rest
    <3> QED  BY <1>0, <3>9, <3>10, <3>11
  <2>4. CASE ~(Later # {} /\ ParallelEnded(q, k, done))
    <3>1. AfterEnd(q, k, done) = Loop(p - 1, p - 1)
      BY <1>3, <1>6, <2>4 DEF Loop
    <3>2. ASSUME NEW i \in 1..(p - 1) PROVE ~IsHard(rest[i])
      <4>1. i \in 1..(Len(q) - 1) /\ i \in 1..p /\ i + 1 \in 1..p
        BY <1>1
      <4> HIDE DEF rest
      <4>2. rest[i] = q[i] \/ rest[i] = q[i + 1]
        BY <1>2, <4>1
      <4> QED  BY <2>1, <4>1, <4>2
    <3>3. p - 1 < Len(rest) => IsHard(rest[p])
      BY <1>1, <1>2, <2>2
    <3>4. Len(rest) # 0 => p - 1 >= 1
      <4>1. SUFFICES ASSUME Len(rest) # 0, p = 1 PROVE FALSE
        BY <1>1
      <4>2. k = 1 /\ 1 \in k..Len(rest) /\ IsHard(rest[1])
        BY <1>1, <1>2, <3>3, <4>1
      <4>3. Later # {}
        BY <4>2
      <4>4. ParallelEnded(q, k, done)
        <5>1. SUFFICES ASSUME NEW i \in DOMAIN q,
                          \A j \in DOMAIN q : (i <= j /\ j <= k) \/ (k <= j /\ j <= i)
                              => ~IsHard(q[j])
                       PROVE  i = k
          BY DEF ParallelEnded
        <5>2. SUFFICES ASSUME i > 1 PROVE FALSE
          BY <1>1, <4>2
        <5>3. 2 \in DOMAIN q /\ k <= 2 /\ 2 <= i
          BY <1>1, <4>2, <5>2
        <5>4. IsHard(q[2])
          BY <1>1, <2>2, <4>1, <5>3
        <5> QED  BY <5>1, <5>3, <5>4
      <4> QED  BY <2>4, <4>3, <4>4
    <3>5. Triggered(rest, p - 1)
      BY <1>1, <1>2, <1>4, <3>2, <3>3, <3>4 DEF Triggered
    <3>6. p - 1 \in (p - 1)..(Len(q) - 1)
      BY <1>1
    <3> HIDE DEF rest
    <3> QED  BY <1>0, <3>1, <3>5, <3>6
  <2> QED  BY <2>3, <2>4
<1> QED  BY <1>5, <1>6

LEMMA LoopTyped ==
    ASSUME NEW p \in Nat, NEW b \in 0..p
    PROVE  Loop(b, p) \in Seq({c \in [next : Nat, last : Nat] : c.next <= c.last})
<1> DEFINE C == {c \in [next : Nat, last : Nat] : c.next <= c.last}
<1>1. CASE b = p
  <2>1. <<>> \in Seq(C)
    OBVIOUS
  <2> QED  BY <1>1, <2>1 DEF Loop
<1>2. CASE b # p
  <2> DEFINE d == [next |-> b + 1, last |-> p]
  <2>1. d \in [next : Nat, last : Nat] /\ d.next <= d.last
    BY <1>2
  <2>2. d \in C
    BY <2>1
  <2> HIDE DEF d, C
  <2>3. <<d>> \in Seq(C)
    BY <2>2
  <2> QED  BY <1>2, <2>3 DEF Loop, d, C
<1> QED  BY <1>1, <1>2

LEMMA LoopAppended ==
    ASSUME NEW p \in Nat, NEW b \in 0..p
    PROVE  Loop(b, p) \o <<>> = Loop(b, p)
BY LoopTyped, ConcatEmptySeq

-----------------------------------------------------------------------------
(* The steps. *)

LEMMA PositionRight ==
    ASSUME Members, TypeOK, NEW k \in DOMAIN queue
    PROVE  Position(queue, queue[k]) = k
BY DEF Members, TypeOK, Position

(* An action of those that have begun ends, and no loop goes on.           *)
LEMMA EndKeeps ==
    ASSUME TypeOK, Members, NEW p \in 1..Len(queue), NEW k \in 1..p,
           Triggered(queue, p), begun' = begun \cup {queue[k]},
           \A i \in DOMAIN queue : queue[i] \in begun' <=> i <= p,
           End(queue[k], <<>>), received' = received,
           canceling' \in {canceling, NoAction}, canceling' # queue[k]
    PROVE  /\ Members' /\ InOrder' /\ queue' \in Seq(Action)
           /\ calls' \in Seq({c \in [next : Nat, last : Nat] : c.next <= c.last})
           /\ ended' = ended \cup {queue[k]}
<1> DEFINE a == queue[k]
<1>1. /\ Len(queue) \in Nat /\ k \in Nat /\ p \in Nat /\ queue \in Seq(Action)
      /\ 1 <= k /\ k <= p /\ p <= Len(queue) /\ DOMAIN queue = 1..Len(queue)
      /\ k \in 1..Len(queue)
  BY LenProperties DEF TypeOK
<1>2. /\ ended' = ended \cup {a}
      /\ queue' = RemoveAt(queue, k)
      /\ calls' = AfterEnd(queue, k, ended') \o <<>>
  BY <1>1, PositionRight DEF End
<1>3. /\ queue' \in Seq(Action) /\ Len(queue') = Len(queue) - 1
      /\ \A i \in 1..(Len(queue) - 1) : queue'[i] = queue[IF i < k THEN i ELSE i + 1]
  BY <1>1, <1>2, RemoveAtMoves
<1>4. /\ \A i \in DOMAIN queue : queue[i] \in Came /\ queue[i] \notin ended
      /\ \A i, j \in DOMAIN queue : queue[i] = queue[j] => i = j
      /\ begun \subseteq Came /\ ended \subseteq begun
      /\ \A c \in begun : c \in ended \/ \E i \in DOMAIN queue : queue[i] = c
      /\ canceling # NoAction =>
            canceling \in begun \ ended /\ canceling.type = "cancelOrder"
  BY DEF Members
<1>5. \A i \in DOMAIN queue : queue[i] \in ended' <=> i = k
  BY <1>1, <1>2, <1>4
<1>6. PICK r \in (p - 1)..(Len(queue) - 1) :
          Triggered(queue', r) /\ AfterEnd(queue, k, ended') = Loop(p - 1, r)
  BY <1>1, <1>2, <1>5, EndTriggers
<1>7. r \in Nat /\ p - 1 \in 0..r /\ r \in 0..Len(queue')
  BY <1>1, <1>3
<1>8. calls' = Loop(p - 1, r)
  BY <1>2, <1>6, <1>7, LoopAppended
<1>9. DOMAIN queue' = 1..(Len(queue) - 1)
  BY <1>3, LenProperties
<1>10. \A i \in DOMAIN queue' :
           /\ (IF i < k THEN i ELSE i + 1) \in DOMAIN queue \ {k}
           /\ queue'[i] = queue[IF i < k THEN i ELSE i + 1]
  BY <1>1, <1>3, <1>9
<1>11. \A i \in DOMAIN queue' : queue'[i] \in begun' <=> i <= p - 1
  <2>1. SUFFICES ASSUME NEW i \in DOMAIN queue' PROVE queue'[i] \in begun' <=> i <= p - 1
    OBVIOUS
  <2>2. i \in Nat
    BY <1>1, <1>9
  <2>3. CASE i < k
    <3>1. i \in DOMAIN queue /\ queue'[i] = queue[i]
      BY <1>10, <2>3
    <3> QED  BY <1>1, <2>2, <2>3, <3>1
  <2>4. CASE ~(i < k)
    <3>1. i + 1 \in DOMAIN queue /\ queue'[i] = queue[i + 1]
      BY <1>10, <2>4
    <3>2. queue[i + 1] \in begun' <=> i + 1 <= p
      BY <3>1
    <3> QED  BY <1>1, <2>2, <3>1, <3>2
  <2> QED  BY <2>3, <2>4
<1>12. InOrder'
  BY <1>6, <1>7, <1>8, <1>11 DEF InOrder
<1>13. Came' = Came /\ a \in Came
  BY <1>1, <1>4 DEF Came
<1>14. Members'
  <2>1. \A i \in DOMAIN queue' : queue'[i] \in Came' /\ queue'[i] \notin ended'
    BY <1>4, <1>5, <1>10, <1>13
  <2>2. \A i, j \in DOMAIN queue' : queue'[i] = queue'[j] => i = j
    <3>1. SUFFICES ASSUME NEW i \in DOMAIN queue', NEW j \in DOMAIN queue',
                          queue'[i] = queue'[j]
                   PROVE  i = j
      OBVIOUS
    <3>2. (IF i < k THEN i ELSE i + 1) = (IF j < k THEN j ELSE j + 1)
      BY <1>4, <1>10, <3>1
    <3> QED  BY <1>1, <1>9, <3>2
  <2>3. begun' \subseteq Came' /\ ended' \subseteq begun'
    BY <1>2, <1>4, <1>13
  <2>4. ASSUME NEW c \in begun'
        PROVE  c \in ended' \/ \E i \in DOMAIN queue' : queue'[i] = c
    <3>1. CASE c = a \/ c \in ended
      BY <1>2, <3>1
    <3>2. CASE c # a /\ c \notin ended
      <4>1. PICK i \in DOMAIN queue : queue[i] = c
        BY <1>4, <3>2
      <4>2. i # k
        BY <3>2, <4>1
      <4>3. CASE i < k
        <5>1. i \in DOMAIN queue' /\ queue'[i] = queue[i]
          BY <1>1, <1>3, <1>9, <4>3
        <5> QED  BY <4>1, <5>1
      <4>4. CASE i > k
        <5>1. i - 1 \in 1..(Len(queue) - 1) /\ ~(i - 1 < k) /\ (i - 1) + 1 = i
          BY <1>1, <4>4
        <5>2. queue'[i - 1] = queue[i]
          BY <1>3, <5>1
        <5> QED  BY <1>9, <4>1, <5>1, <5>2
      <4> QED  BY <1>1, <4>2, <4>3, <4>4
    <3> QED  BY <3>1, <3>2
  <2>5. canceling' # NoAction =>
            canceling' \in begun' \ ended' /\ canceling'.type = "cancelOrder"
    BY <1>2, <1>4
  <2> QED  BY <2>1, <2>2, <2>3, <2>4, <2>5 DEF Members
<1>15. calls' \in Seq({c \in [next : Nat, last : Nat] : c.next <= c.last})
  BY <1>7, <1>8, LoopTyped
<1> QED  BY <1>2, <1>3, <1>12, <1>14, <1>15

(* The accepted actions of a message are appended in their order.          *)
LEMMA ReceiveAppends ==
    ASSUME TypeOK, NEW m \in Messages, ProcessInstantActions(m)
    PROVE  \E refused \in SUBSET Refusable, n \in Nat : \E pos \in [1..n -> DOMAIN m] :
              /\ \A i, j \in 1..n : i < j => pos[i] < pos[j]
              /\ \A i \in 1..n : Executable(m[pos[i]], refused)
              /\ queue' \in Seq(Action) /\ Len(queue') = Len(queue) + n
              /\ \A i \in 1..Len(queue') :
                    queue'[i] = IF i <= Len(queue) THEN queue[i] ELSE m[pos[i - Len(queue)]]
<1>1. m \in Seq(Action) /\ DOMAIN m = 1..Len(m) /\ Len(m) \in Nat
  BY MessagesAssumption, LenProperties
<1>2. PICK refused \in SUBSET Refusable :
          LET Accepted == {i \in DOMAIN m : Executable(m[i], refused)} IN
          \E pos \in [1..Cardinality(Accepted) -> Accepted] :
             /\ \A i, j \in DOMAIN pos : i < j => pos[i] < pos[j]
             /\ queue' = queue \o [i \in DOMAIN pos |-> m[pos[i]]]
  BY DEF ProcessInstantActions
<1> DEFINE Accepted == {i \in DOMAIN m : Executable(m[i], refused)}
           n == Cardinality(Accepted)
<1>3. PICK pos \in [1..n -> Accepted] :
          /\ \A i, j \in DOMAIN pos : i < j => pos[i] < pos[j]
          /\ queue' = queue \o [i \in DOMAIN pos |-> m[pos[i]]]
  BY <1>2
<1>4. n \in Nat
  <2>1. IsFiniteSet(1..Len(m))
    BY <1>1, FS_Interval
  <2>2. Accepted \subseteq 1..Len(m)
    BY <1>1
  <2> QED  BY <2>1, <2>2, FS_Subset, FS_CardinalityType
<1>5. \A i \in Accepted : i \in DOMAIN m /\ Executable(m[i], refused)
  OBVIOUS
<1> HIDE DEF n, Accepted
<1>6. /\ pos \in [1..n -> DOMAIN m] /\ DOMAIN pos = 1..n
      /\ \A i \in 1..n : pos[i] \in DOMAIN m /\ Executable(m[pos[i]], refused)
  BY <1>3, <1>5
<1> DEFINE sub == [i \in 1..n |-> m[pos[i]]]
<1>7. sub \in Seq(Action) /\ Len(sub) = n /\ \A i \in 1..n : sub[i] = m[pos[i]]
  <2>1. \A i \in 1..n : m[pos[i]] \in Action
    BY <1>1, <1>6, ElementOfSeq
  <2>2. sub \in [1..n -> Action]
    BY <2>1
  <2>3. sub \in Seq(Action)
    BY <1>4, <2>2, SeqDef
  <2>4. DOMAIN sub = 1..n
    OBVIOUS
  <2> HIDE DEF sub
  <2>5. Len(sub) = n
    BY <1>4, <2>3, <2>4, LenProperties
  <2> QED  BY <2>3, <2>5 DEF sub
<1>8. queue' = queue \o sub
  BY <1>3, <1>6
<1> HIDE DEF sub
<1>9. /\ queue' \in Seq(Action) /\ Len(queue') = Len(queue) + n
      /\ \A i \in 1..(Len(queue) + n) :
            queue'[i] = IF i <= Len(queue) THEN queue[i] ELSE sub[i - Len(queue)]
  BY <1>7, <1>8, ConcatProperties DEF TypeOK
<1>10. Len(queue) \in Nat
  BY LenProperties DEF TypeOK
<1>11. \A i \in 1..Len(queue') :
           queue'[i] = IF i <= Len(queue) THEN queue[i] ELSE m[pos[i - Len(queue)]]
  <2>1. \A i \in 1..Len(queue') : ~(i <= Len(queue)) => i - Len(queue) \in 1..n
    BY <1>4, <1>9, <1>10
  <2> QED  BY <1>7, <1>9, <2>1
<1>12. \A i, j \in 1..n : i < j => pos[i] < pos[j]
  BY <1>3, <1>6
<1> QED  BY <1>4, <1>6, <1>9, <1>11, <1>12

LEMMA ReceiveKeeps ==
    ASSUME IInv, NEW m \in Messages, ProcessInstantActions(m)
    PROVE  IInv'
<1>1. TypeOK /\ Members /\ InOrder
  BY DEF IInv
<1>2. PICK refused \in SUBSET Refusable, n \in Nat : \E pos \in [1..n -> DOMAIN m] :
          /\ \A i, j \in 1..n : i < j => pos[i] < pos[j]
          /\ \A i \in 1..n : Executable(m[pos[i]], refused)
          /\ queue' \in Seq(Action) /\ Len(queue') = Len(queue) + n
          /\ \A i \in 1..Len(queue') :
                queue'[i] = IF i <= Len(queue) THEN queue[i] ELSE m[pos[i - Len(queue)]]
  BY <1>1, ReceiveAppends
<1>3. PICK pos \in [1..n -> DOMAIN m] :
          /\ \A i, j \in 1..n : i < j => pos[i] < pos[j]
          /\ queue' \in Seq(Action) /\ Len(queue') = Len(queue) + n
          /\ \A i \in 1..Len(queue') :
                queue'[i] = IF i <= Len(queue) THEN queue[i] ELSE m[pos[i - Len(queue)]]
  BY <1>2
<1>4. /\ calls = <<>> /\ m \notin received /\ received' = received \cup {m}
      /\ calls' = IF HasPendingHardAction THEN <<>>
                  ELSE Chunk(queue', Len(queue), queue # <<>>)
      /\ UNCHANGED <<begun, ended, orderVars, paused, crashed>>
  BY DEF ProcessInstantActions
<1>5. /\ Len(queue) \in Nat /\ DOMAIN queue = 1..Len(queue)
      /\ DOMAIN queue' = 1..Len(queue')
  BY <1>1, <1>3, LenProperties DEF TypeOK
<1>6. \A i \in DOMAIN queue' :
          \/ i \in DOMAIN queue /\ queue'[i] = queue[i]
          \/ /\ i > Len(queue) /\ i - Len(queue) \in 1..n
             /\ pos[i - Len(queue)] \in DOMAIN m /\ queue'[i] = m[pos[i - Len(queue)]]
  <2>1. SUFFICES ASSUME NEW i \in DOMAIN queue'
                 PROVE  \/ i \in DOMAIN queue /\ queue'[i] = queue[i]
                        \/ /\ i > Len(queue) /\ i - Len(queue) \in 1..n
                           /\ pos[i - Len(queue)] \in DOMAIN m
                           /\ queue'[i] = m[pos[i - Len(queue)]]
    OBVIOUS
  <2>2. CASE i <= Len(queue)
    BY <1>3, <1>5, <2>1, <2>2
  <2>3. CASE ~(i <= Len(queue))
    <3>1. i > Len(queue) /\ i - Len(queue) \in 1..n
      BY <1>3, <1>5, <2>3
    <3> QED  BY <1>3, <1>5, <2>3, <3>1
  <2> QED  BY <2>2, <2>3
<1>7. \A i \in DOMAIN queue : i \in DOMAIN queue' /\ queue'[i] = queue[i]
  BY <1>3, <1>5
<1>8. \A i \in DOMAIN m : m[i] \notin Came
  <2>1. \A x \in received : x \in Messages /\ x # m
    BY <1>1, <1>4 DEF TypeOK
  <2>2. \A x \in received : \A i \in DOMAIN m, j \in DOMAIN x : m[i] # x[j]
    BY <2>1, MessagesAssumption
  <2> QED  BY <2>2 DEF Came
<1>9. /\ Came \subseteq Came' /\ \A i \in DOMAIN m : m[i] \in Came'
  BY <1>4 DEF Came
<1>10. Members'
  <2>1. \A i \in DOMAIN queue' : queue'[i] \in Came' /\ queue'[i] \notin ended'
    BY <1>1, <1>4, <1>6, <1>8, <1>9 DEF Members
  <2>2. \A i, j \in DOMAIN queue' : queue'[i] = queue'[j] => i = j
    <3>1. SUFFICES ASSUME NEW i \in DOMAIN queue', NEW j \in DOMAIN queue',
                          queue'[i] = queue'[j], i < j
                   PROVE  FALSE
      BY <1>3, <1>5
    <3>2. CASE j \in DOMAIN queue
      <4>1. i \in DOMAIN queue
        BY <1>5, <3>1, <3>2
      <4>2. queue[i] = queue[j]
        BY <1>7, <3>1, <3>2, <4>1
      <4> QED  BY <1>1, <1>5, <3>1, <3>2, <4>1, <4>2 DEF Members
    <3>3. CASE j \notin DOMAIN queue
      <4>1. /\ j - Len(queue) \in 1..n /\ pos[j - Len(queue)] \in DOMAIN m
            /\ queue'[j] = m[pos[j - Len(queue)]] /\ j > Len(queue)
        BY <1>6, <3>3
      <4>2. CASE i \in DOMAIN queue
        BY <1>1, <1>7, <1>8, <3>1, <4>1, <4>2 DEF Members
      <4>3. CASE i \notin DOMAIN queue
        <5>1. /\ i - Len(queue) \in 1..n /\ pos[i - Len(queue)] \in DOMAIN m
              /\ queue'[i] = m[pos[i - Len(queue)]]
          BY <1>6, <4>3
        <5>2. i - Len(queue) < j - Len(queue)
          BY <1>3, <1>5, <3>1
        <5>3. pos[i - Len(queue)] < pos[j - Len(queue)]
          BY <1>3, <4>1, <5>1, <5>2
        <5>4. pos[i - Len(queue)] = pos[j - Len(queue)]
          BY <3>1, <4>1, <5>1, MessagesAssumption
        <5>5. pos[j - Len(queue)] \in Nat
          BY <4>1, MessagesAssumption, LenProperties
        <5> QED  BY <5>3, <5>4, <5>5
      <4> QED  BY <4>2, <4>3
    <3> QED  BY <3>2, <3>3
  <2>3. begun' \subseteq Came' /\ ended' \subseteq begun'
    BY <1>1, <1>4, <1>9 DEF Members
  <2>4. \A c \in begun' : c \in ended' \/ \E i \in DOMAIN queue' : queue'[i] = c
    BY <1>1, <1>4, <1>7 DEF Members
  <2>5. canceling' # NoAction =>
            canceling' \in begun' \ ended' /\ canceling'.type = "cancelOrder"
    BY <1>1, <1>4 DEF Members, orderVars
  <2> QED  BY <2>1, <2>2, <2>3, <2>4, <2>5 DEF Members
<1>11. PICK p \in 0..Len(queue) : \E b \in 0..p :
           /\ \A i \in DOMAIN queue : queue[i] \in begun <=> i <= b
           /\ Triggered(queue, p)
           /\ calls = Loop(b, p)
  BY <1>1 DEF InOrder
<1>12. /\ \A i \in DOMAIN queue : queue[i] \in begun <=> i <= p
       /\ Triggered(queue, p)
  BY <1>4, <1>11 DEF Loop
<1>13. p \in Nat /\ p <= Len(queue)
  BY <1>5
<1>13a. p < Len(queue) \/ p = Len(queue)
  <2>1. \A l \in Nat : p \in 0..l => p < l \/ p = l
    OBVIOUS
  <2> QED  BY <1>5, <2>1
<1>14. \A i \in DOMAIN queue' : queue'[i] \in begun' <=> i <= p
  <2>1. \A i \in DOMAIN m : m[i] \notin begun
    BY <1>1, <1>8 DEF Members
  <2>2. SUFFICES ASSUME NEW i \in DOMAIN queue' PROVE queue'[i] \in begun <=> i <= p
    BY <1>4
  <2>3. CASE i \in DOMAIN queue
    BY <1>7, <1>12, <2>3
  <2>4. CASE i \notin DOMAIN queue
    <3>1. i > Len(queue) /\ queue'[i] \notin begun
      BY <1>6, <2>1, <2>4
    <3> QED  BY <1>5, <1>13, <3>1, <1>3
  <2> QED  BY <2>3, <2>4
<1>15. \E r \in p..Len(queue') : Triggered(queue', r) /\ calls' = Loop(p, r)
  <2>1. \A i \in 1..Len(queue) : queue'[i] = queue[i]
    BY <1>5, <1>7
  <2>2. queue' = <<>> <=> Len(queue') = 0
    BY <1>3, EmptySeq
  <2>3. queue = <<>> <=> Len(queue) = 0
    BY <1>1, EmptySeq DEF TypeOK
  <2>4. CASE HasPendingHardAction
    <3>1. PICK h \in 1..Len(queue) : IsHard(queue[h])
      BY <1>5, <2>4 DEF HasPendingHardAction
    <3>2. p >= 1
      BY <1>12, <2>3, <3>1 DEF Triggered
    <3>3. p < Len(queue') => IsHard(queue'[1]) \/ IsHard(queue'[p + 1])
      <4>1. CASE p < Len(queue)
        BY <1>12, <1>13, <2>1, <4>1 DEF Triggered
      <4>2. CASE p = Len(queue)
        <5>1. p = 1 /\ h = 1
          BY <1>12, <3>1, <4>2 DEF Triggered
        <5> QED  BY <2>1, <3>1, <5>1
      <4> QED  BY <1>13a, <4>1, <4>2
    <3>4. Triggered(queue', p)
      BY <1>5, <1>12, <1>13, <2>1, <3>2, <3>3 DEF Triggered
    <3>5. p \in p..Len(queue') /\ calls' = Loop(p, p)
      BY <1>3, <1>4, <1>5, <1>13, <2>4 DEF Loop
    <3> QED  BY <3>4, <3>5
  <2>5. CASE ~HasPendingHardAction
    <3>1. \A i \in 1..Len(queue) : ~IsHard(queue[i])
      BY <1>5, <2>5 DEF HasPendingHardAction
    <3>2. p = Len(queue)
      <4>1. SUFFICES ASSUME p < Len(queue) PROVE FALSE
        BY <1>13a
      <4>2. IsHard(queue[1]) \/ IsHard(queue[p + 1])
        BY <1>12, <4>1 DEF Triggered
      <4>3. 1 \in 1..Len(queue) /\ p + 1 \in 1..Len(queue)
        BY <1>5, <1>13, <4>1
      <4> QED  BY <3>1, <4>2, <4>3
    <3>3. \A i \in 1..p : ~IsHard(queue'[i])
      BY <2>1, <3>1, <3>2
    <3>4. p \in 0..Len(queue')
      BY <1>3, <1>5, <3>2
    <3>5. \E r \in p..Len(queue') :
              Triggered(queue', r) /\ Chunk(queue', p, p # 0) = Loop(p, r)
      BY <1>3, <3>3, <3>4, ChunkTriggers
    <3>6. calls' = Chunk(queue', p, p # 0)
      <4>1. (queue # <<>>) = (p # 0)
        BY <2>3, <3>2
      <4> QED  BY <1>4, <2>5, <3>2, <4>1
    <3> QED  BY <3>5, <3>6
  <2> QED  BY <2>4, <2>5
<1>16. PICK r \in p..Len(queue') : Triggered(queue', r) /\ calls' = Loop(p, r)
  BY <1>15
<1>17. r \in Nat /\ r \in 0..Len(queue') /\ p \in 0..r
  BY <1>3, <1>5, <1>13
<1>18. InOrder'
  BY <1>14, <1>16, <1>17 DEF InOrder
<1>19. TypeOK'
  <2>1. calls' \in Seq({c \in [next : Nat, last : Nat] : c.next <= c.last})
    BY <1>16, <1>17, LoopTyped
  <2> QED  BY <1>1, <1>3, <1>4, <2>1 DEF TypeOK, orderVars
<1> QED  BY <1>10, <1>18, <1>19 DEF IInv

(* The action that the loop in progress executes next.                     *)
LEMMA NextInLoop ==
    ASSUME IInv, calls # <<>>
    PROVE  LET i == Head(calls).next
               p == Head(calls).last
           IN  /\ calls = <<[next |-> i, last |-> p]>>
               /\ i \in 1..p /\ p \in 1..Len(queue) /\ Len(queue) \in Nat
               /\ i \in DOMAIN queue
               /\ \A j \in DOMAIN queue : queue[j] \in begun <=> j < i
               /\ Triggered(queue, p)
<1>1. TypeOK /\ Members /\ InOrder
  BY DEF IInv
<1>2. PICK p \in 0..Len(queue) : \E b \in 0..p :
           /\ \A i \in DOMAIN queue : queue[i] \in begun <=> i <= b
           /\ Triggered(queue, p)
           /\ calls = Loop(b, p)
  BY <1>1 DEF InOrder
<1>3. PICK b \in 0..p :
           /\ \A i \in DOMAIN queue : queue[i] \in begun <=> i <= b
           /\ Triggered(queue, p)
           /\ calls = Loop(b, p)
  BY <1>2
<1>4. Len(queue) \in Nat /\ DOMAIN queue = 1..Len(queue)
  BY <1>1, LenProperties DEF TypeOK
<1>5. b # p /\ calls = <<[next |-> b + 1, last |-> p]>>
  BY <1>3 DEF Loop
<1>6. Head(calls).next = b + 1 /\ Head(calls).last = p
  BY <1>5
<1>7. b + 1 \in 1..p /\ p \in 1..Len(queue)
  BY <1>4, <1>5
<1>8. \A j \in DOMAIN queue : queue[j] \in begun <=> j < b + 1
  BY <1>3, <1>4
<1>9. b + 1 \in DOMAIN queue
  BY <1>4, <1>7
<1> QED  BY <1>3, <1>4, <1>5, <1>6, <1>7, <1>8, <1>9

(* One iteration, of an action that does not end: the loop goes on.        *)
LEMMA IterationKeeps ==
    ASSUME IInv, calls # <<>>, UNCHANGED <<queue, ended, received>>,
           begun' = begun \cup {queue[Head(calls).next]},
           calls' = IF Head(calls).next = Head(calls).last THEN <<>>
                    ELSE <<[Head(calls) EXCEPT !.next = Head(calls).next + 1]>>,
           \/ canceling' = canceling
           \/ /\ canceling' = queue[Head(calls).next]
              /\ canceling'.type = "cancelOrder"
    PROVE  /\ Members' /\ InOrder' /\ begun' \subseteq Action
           /\ calls' \in Seq({c \in [next : Nat, last : Nat] : c.next <= c.last})
<1> DEFINE i == Head(calls).next
           p == Head(calls).last
<1>1. /\ calls = <<[next |-> i, last |-> p]>>
      /\ i \in 1..p /\ p \in 1..Len(queue) /\ Len(queue) \in Nat
      /\ i \in DOMAIN queue
      /\ \A j \in DOMAIN queue : queue[j] \in begun <=> j < i
      /\ Triggered(queue, p)
  BY NextInLoop
<1>2. TypeOK /\ Members
  BY DEF IInv
<1>3. DOMAIN queue = 1..Len(queue) /\ queue[i] \in Action
  BY <1>1, <1>2, LenProperties, ElementOfSeq DEF TypeOK
<1>4. begun' = begun \cup {queue[i]}
  OBVIOUS
<1>5. calls' = Loop(i, p)
  <2>1. Head(calls) = [next |-> i, last |-> p]
    BY <1>1
  <2> HIDE DEF i, p
  <2>2. [Head(calls) EXCEPT !.next = i + 1] = [next |-> i + 1, last |-> p]
    BY <2>1
  <2> QED  BY <2>2 DEF Loop, i, p
<1>6. canceling' = canceling \/ (canceling' = queue[i] /\ canceling'.type = "cancelOrder")
  OBVIOUS
<1> HIDE DEF i, p
<1>7. \A j \in DOMAIN queue' : queue'[j] \in begun' <=> j <= i
  <2>1. \A j \in DOMAIN queue : queue[j] = queue[i] => j = i
    BY <1>1, <1>2 DEF Members
  <2> QED  BY <1>1, <1>3, <1>4, <2>1
<1>8. i \in 0..p /\ p \in 0..Len(queue') /\ p \in Nat
  BY <1>1
<1>9. InOrder'
  BY <1>1, <1>5, <1>7, <1>8 DEF InOrder
<1>10. Members'
  <2>1. Came' = Came
    BY DEF Came
  <2> QED  BY <1>1, <1>2, <1>4, <1>6, <2>1 DEF Members
<1>11. calls' \in Seq({c \in [next : Nat, last : Nat] : c.next <= c.last})
  BY <1>5, <1>8, LoopTyped
<1> QED  BY <1>2, <1>3, <1>4, <1>9, <1>10, <1>11 DEF TypeOK

LEMMA ProcessKeeps ==
    ASSUME IInv, EndsLast, ProcessInstantAction
    PROVE  IInv'
<1> DEFINE i == Head(calls).next
           p == Head(calls).last
           a == queue[i]
           cs == IF i = p THEN Tail(calls)
                 ELSE <<[Head(calls) EXCEPT !.next = i + 1]>> \o Tail(calls)
<1>1. calls # <<>> /\ received' = received
  BY DEF ProcessInstantAction
<1>2. /\ calls = <<[next |-> i, last |-> p]>>
      /\ i \in 1..p /\ p \in 1..Len(queue) /\ Len(queue) \in Nat
      /\ i \in DOMAIN queue
      /\ \A j \in DOMAIN queue : queue[j] \in begun <=> j < i
      /\ Triggered(queue, p)
  BY <1>1, NextInLoop
<1>3. TypeOK /\ Members
  BY DEF IInv
<1>4. DOMAIN queue = 1..Len(queue) /\ a \in Action /\ a # NoAction
  BY <1>2, <1>3, LenProperties, ElementOfSeq, IdsAssumption DEF TypeOK
<1>5. /\ begun' = begun \cup {a} /\ UNCHANGED <<paused, crashed>>
      /\ IF a.type = "cancelOrder" THEN CancelOrder(a, cs)
         ELSE /\ UNCHANGED orderVars
              /\ IF Ends(a) THEN End(a, cs)
                 ELSE calls' = cs /\ UNCHANGED <<queue, ended>>
  <2>1. ~(i > Len(queue))
    BY <1>2
  <2> QED  BY <2>1 DEF ProcessInstantAction
<1>6. Tail(calls) = <<>>
  <2>1. \A c : Tail(<<c>>) = <<>>
    OBVIOUS
  <2> HIDE DEF i, p
  <2> QED  BY <1>2, <2>1
<1>7. cs = IF i = p THEN <<>> ELSE <<[Head(calls) EXCEPT !.next = i + 1]>>
  <2>1. [Head(calls) EXCEPT !.next = i + 1] \in [next : Nat, last : Nat]
    <3>1. Head(calls) = [next |-> i, last |-> p] /\ i \in Nat /\ p \in Nat
      BY <1>2
    <3> QED  BY <3>1
  <2> DEFINE d == [Head(calls) EXCEPT !.next = i + 1]
  <2> HIDE DEF d
  <2>2. <<d>> \in Seq([next : Nat, last : Nat])
    BY <2>1 DEF d
  <2>3. <<d>> \o <<>> = <<d>>
    BY <2>2, ConcatEmptySeq
  <2> QED  BY <1>6, <2>3 DEF d
<1>8. ASSUME End(a, cs), Ends(a), canceling' \in {canceling, NoAction}, canceling' # a
      PROVE  /\ Members' /\ InOrder' /\ queue' \in Seq(Action)
             /\ calls' \in Seq({c \in [next : Nat, last : Nat] : c.next <= c.last})
             /\ ended' \in {ended, ended \cup {a}}
  <2>1. i = p
    BY <1>1, <1>8 DEF EndsLast
  <2>2. \A j \in DOMAIN queue : queue[j] \in begun' <=> j <= p
    <3>1. \A j \in DOMAIN queue : queue[j] = queue[i] => j = i
      BY <1>2, <1>3 DEF Members
    <3>2. \A j \in DOMAIN queue : queue[j] \in begun' <=> queue[j] \in begun \/ queue[j] = queue[i]
      BY <1>5
    <3> HIDE DEF i, p
    <3> QED  BY <1>2, <1>4, <2>1, <3>1, <3>2
  <2>3. End(queue[p], <<>>) /\ p \in 1..p
    BY <1>2, <1>7, <1>8, <2>1
  <2>4. begun' = begun \cup {queue[p]} /\ canceling' # queue[p]
    BY <1>5, <1>8, <2>1
  <2> HIDE DEF i, p, a, cs
  <2>5. /\ Members' /\ InOrder' /\ queue' \in Seq(Action)
        /\ calls' \in Seq({c \in [next : Nat, last : Nat] : c.next <= c.last})
        /\ ended' = ended \cup {queue[p]}
    BY <1>1, <1>2, <1>3, <1>8, <2>2, <2>3, <2>4, EndKeeps
  <2> QED  BY <2>1, <2>5 DEF a
<1>9. ASSUME UNCHANGED <<queue, ended>>, calls' = cs,
             canceling' = canceling \/ (canceling' = a /\ canceling'.type = "cancelOrder")
      PROVE  /\ Members' /\ InOrder' /\ queue' \in Seq(Action)
             /\ calls' \in Seq({c \in [next : Nat, last : Nat] : c.next <= c.last})
             /\ ended' \in {ended, ended \cup {a}}
  <2>1. calls' = IF i = p THEN <<>> ELSE <<[Head(calls) EXCEPT !.next = i + 1]>>
    BY <1>7, <1>9
  <2>2. /\ Members' /\ InOrder'
        /\ calls' \in Seq({c \in [next : Nat, last : Nat] : c.next <= c.last})
    BY <1>1, <1>5, <1>9, <2>1, IterationKeeps
  <2>3. queue' \in Seq(Action) /\ ended' = ended
    BY <1>3, <1>9 DEF TypeOK
  <2> QED  BY <2>2, <2>3
<1>10. \/ End(a, cs) /\ Ends(a) /\ canceling' \in {canceling, NoAction} /\ canceling' # a
       \/ /\ UNCHANGED <<queue, ended>> /\ calls' = cs
          /\ (canceling' = canceling \/ (canceling' = a /\ canceling'.type = "cancelOrder"))
  <2> HIDE DEF i, p, a, cs
  <2>1. CASE a.type = "cancelOrder"
    BY <1>4, <1>5, <2>1 DEF CancelOrder
  <2>2. CASE a.type # "cancelOrder"
    <3>1. canceling' # a
      BY <1>3, <1>4, <1>5, <2>2 DEF Members, orderVars
    <3> QED  BY <1>5, <2>2, <3>1 DEF orderVars
  <2> QED  BY <2>1, <2>2
<1>11. /\ Members' /\ InOrder' /\ queue' \in Seq(Action)
       /\ calls' \in Seq({c \in [next : Nat, last : Nat] : c.next <= c.last})
       /\ ended' \in {ended, ended \cup {a}}
  <2> HIDE DEF i, p, a, cs
  <2> QED  BY <1>8, <1>9, <1>10
<1>12. /\ active' \in BOOLEAN /\ dying' \in BOOLEAN /\ stops' \in Nat
       /\ canceling' \in Action \cup {NoAction}
  <2> HIDE DEF i, p, a, cs
  <2>1. CASE a.type = "cancelOrder"
    <3>1. CancelOrder(a, cs)
      BY <1>5, <2>1
    <3>2. /\ active \in BOOLEAN /\ dying \in BOOLEAN /\ stops \in Nat
          /\ canceling \in Action \cup {NoAction}
      BY <1>3 DEF TypeOK
    <3>3. dying' \in BOOLEAN
      BY <3>1, <3>2 DEF CancelOrder
    <3>4. active' \in {active, FALSE} /\ canceling' \in {NoAction, a}
      BY <3>1 DEF CancelOrder
    <3>5. stops' = stops \/ stops' = stops + 1
      BY <3>1 DEF CancelOrder
    <3>6. active' \in BOOLEAN
      BY <3>2, <3>4
    <3>7. canceling' \in Action \cup {NoAction}
      BY <1>4, <3>4
    <3>8. stops' \in Nat
      BY <3>2, <3>5
    <3> QED  BY <3>3, <3>6, <3>7, <3>8
  <2>2. CASE a.type # "cancelOrder"
    BY <1>3, <1>5, <2>2 DEF orderVars, TypeOK
  <2> QED  BY <2>1, <2>2
<1>13. TypeOK'
  <2> HIDE DEF i, p, a, cs
  <2>1. begun' \subseteq Action /\ ended' \subseteq Action
    BY <1>3, <1>4, <1>5, <1>11 DEF TypeOK
  <2>2. received' \subseteq Messages /\ paused' \in BOOLEAN /\ crashed' \in BOOLEAN
    BY <1>1, <1>3, <1>5 DEF TypeOK
  <2> QED  BY <1>11, <1>12, <2>1, <2>2 DEF TypeOK
<1> QED  BY <1>11, <1>13 DEF IInv

(* An action ends between handlers. *)
LEMMA EndedBetween ==
    ASSUME IInv, calls = <<>>, NEW a \in begun \ ended, End(a, <<>>),
           UNCHANGED <<begun, received>>,
           canceling' \in {canceling, NoAction}, canceling' # a
    PROVE  /\ Members' /\ InOrder' /\ queue' \in Seq(Action) /\ ended' \subseteq Action
           /\ calls' \in Seq({c \in [next : Nat, last : Nat] : c.next <= c.last})
<1>1. TypeOK /\ Members /\ InOrder
  BY DEF IInv
<1>2. PICK k \in DOMAIN queue : queue[k] = a
  BY <1>1 DEF Members
<1>3. PICK p \in 0..Len(queue) :
           /\ \A i \in DOMAIN queue : queue[i] \in begun <=> i <= p
           /\ Triggered(queue, p)
  BY <1>1 DEF InOrder, Loop
<1>4. DOMAIN queue = 1..Len(queue) /\ Len(queue) \in Nat /\ a \in Action
  BY <1>1, <1>2, LenProperties, ElementOfSeq DEF TypeOK
<1>5. k <= p
  BY <1>2, <1>3
<1>6. p \in 1..Len(queue) /\ k \in 1..p
  BY <1>2, <1>4, <1>5
<1>7. begun' = begun \cup {queue[k]}
  BY <1>2
<1>8. \A i \in DOMAIN queue : queue[i] \in begun' <=> i <= p
  BY <1>3
<1>9. End(queue[k], <<>>) /\ canceling' # queue[k]
  BY <1>2
<1>10. /\ Members' /\ InOrder' /\ queue' \in Seq(Action)
       /\ calls' \in Seq({c \in [next : Nat, last : Nat] : c.next <= c.last})
       /\ ended' = ended \cup {queue[k]}
  BY <1>1, <1>3, <1>6, <1>7, <1>8, <1>9, EndKeeps
<1> QED  BY <1>1, <1>2, <1>4, <1>10 DEF TypeOK

LEMMA ActionEndsKeeps ==
    ASSUME IInv, NEW a \in Executing, ActionEnds(a)
    PROVE  IInv'
<1>1. TypeOK /\ Members
  BY DEF IInv
<1>2. /\ calls = <<>> /\ a.type # "cancelOrder" /\ End(a, <<>>)
      /\ UNCHANGED <<begun, received, orderVars, crashed>>
      /\ paused' \in {TRUE, FALSE, paused}
  BY DEF ActionEnds
<1>3. canceling' = canceling /\ (canceling # NoAction => canceling.type = "cancelOrder")
  BY <1>1, <1>2 DEF Members, orderVars
<1>4. a # NoAction
  BY <1>1, IdsAssumption DEF TypeOK, Executing
<1>5. canceling' # a
  BY <1>2, <1>3, <1>4
<1>6. a \in begun \ ended
  BY DEF Executing
<1>7. /\ Members' /\ InOrder' /\ queue' \in Seq(Action) /\ ended' \subseteq Action
      /\ calls' \in Seq({c \in [next : Nat, last : Nat] : c.next <= c.last})
  BY <1>2, <1>3, <1>5, <1>6, EndedBetween
<1> QED  BY <1>1, <1>2, <1>7 DEF IInv, TypeOK, orderVars

LEMMA StoppedKeeps ==
    ASSUME IInv, Stopped
    PROVE  IInv'
<1>1. TypeOK /\ Members /\ InOrder
  BY DEF IInv
<1>2. /\ calls = <<>> /\ stops > 0 /\ stops' = stops - 1 /\ active' = FALSE
      /\ canceling' = NoAction /\ paused' \in {paused, FALSE}
      /\ UNCHANGED <<begun, received, dying>>
  BY DEF Stopped
<1>3. CASE canceling = NoAction
  <2>1. crashed' = TRUE /\ UNCHANGED <<queue, calls, ended>>
    BY <1>3 DEF Stopped
  <2>2. Members'
    BY <1>1, <1>2, <2>1 DEF Members, Came
  <2>3. InOrder'
    BY <1>1, <1>2, <2>1 DEF InOrder
  <2>4a. /\ active' \in BOOLEAN /\ dying' \in BOOLEAN /\ paused' \in BOOLEAN
        /\ crashed' \in BOOLEAN
    BY <1>1, <1>2, <2>1 DEF TypeOK
  <2>4b. stops' \in Nat
    BY <1>1, <1>2, <2>1 DEF TypeOK
  <2>4c. canceling' \in Action \cup {NoAction}
    BY <1>1, <1>2, <2>1 DEF TypeOK
  <2>4. TypeOK'
    BY <1>1, <1>2, <2>1, <2>4a, <2>4b, <2>4c DEF TypeOK
  <2> QED  BY <2>2, <2>3, <2>4 DEF IInv
<1>4. CASE canceling # NoAction
  <2>1. End(canceling, <<>>) /\ UNCHANGED crashed
    BY <1>4 DEF Stopped
  <2>2. canceling \in begun \ ended
    BY <1>1, <1>4 DEF Members
  <2>3. canceling' # canceling
    BY <1>2, <1>4
  <2>4. /\ Members' /\ InOrder' /\ queue' \in Seq(Action) /\ ended' \subseteq Action
        /\ calls' \in Seq({c \in [next : Nat, last : Nat] : c.next <= c.last})
    BY <1>2, <2>1, <2>2, <2>3, EndedBetween
  <2>5a. /\ active' \in BOOLEAN /\ dying' \in BOOLEAN /\ paused' \in BOOLEAN
        /\ crashed' \in BOOLEAN
    BY <1>1, <1>2, <2>1 DEF TypeOK
  <2>5b. stops' \in Nat
    BY <1>1, <1>2, <2>1 DEF TypeOK
  <2>5c. canceling' \in Action \cup {NoAction}
    BY <1>1, <1>2, <2>1 DEF TypeOK
  <2>5. TypeOK'
    BY <1>1, <1>2, <2>4, <2>5a, <2>5b, <2>5c DEF TypeOK
  <2> QED  BY <2>4, <2>5 DEF IInv
<1> QED  BY <1>3, <1>4

LEMMA IInvInit == Init => IInv
<1> SUFFICES ASSUME Init PROVE IInv
  OBVIOUS
<1>1. TypeOK
  <2>1. <<>> \in Seq(Action) /\ <<>> \in Seq({c \in [next : Nat, last : Nat] : c.next <= c.last})
    OBVIOUS
  <2> QED  BY <2>1 DEF Init, TypeOK
<1>2. Members
  BY DEF Init, Members
<1>3. InOrder
  <2>1. Len(<<>>) = 0 /\ DOMAIN <<>> = {}
    OBVIOUS
  <2>2. Triggered(<<>>, 0) /\ Loop(0, 0) = <<>>
    BY <2>1 DEF Triggered, Loop
  <2>3. 0 \in 0..Len(<<>>) /\ 0 \in 0..0
    BY <2>1
  <2> QED  BY <2>1, <2>2, <2>3 DEF Init, InOrder
<1> QED  BY <1>1, <1>2, <1>3 DEF IInv

LEMMA IInvStep == IInv /\ EndsLast /\ [Next]_vars => IInv'
<1> SUFFICES ASSUME IInv, EndsLast, [Next]_vars PROVE IInv'
  OBVIOUS
<1>1. ASSUME NEW m \in Messages, ProcessInstantActions(m) PROVE IInv'
  BY <1>1, ReceiveKeeps
<1>2. ASSUME ProcessInstantAction PROVE IInv'
  BY <1>2, ProcessKeeps
<1>3. ASSUME NEW a \in Executing, ActionEnds(a) PROVE IInv'
  BY <1>3, ActionEndsKeeps
<1>4. ASSUME OrderActionsCanceled \/ OrderChanges \/ UNCHANGED vars PROVE IInv'
  <2>1. /\ UNCHANGED <<queue, calls, begun, ended, received, canceling, paused, crashed>>
        /\ active' \in {active, ~active} /\ dying' \in {dying, FALSE}
        /\ stops' \in {stops, stops + 1}
    BY <1>4 DEF OrderActionsCanceled, OrderChanges, vars, orderVars
  <2>2a. /\ active' \in BOOLEAN /\ dying' \in BOOLEAN /\ paused' \in BOOLEAN
        /\ crashed' \in BOOLEAN
    BY <2>1 DEF IInv, TypeOK
  <2>2b. stops' \in Nat
    BY <2>1 DEF IInv, TypeOK
  <2>2c. canceling' \in Action \cup {NoAction}
    BY <2>1 DEF IInv, TypeOK
  <2>2. TypeOK'
    BY <2>1, <2>2a, <2>2b, <2>2c DEF IInv, TypeOK
  <2>3. Members' /\ InOrder'
    BY <2>1 DEF IInv, Members, Came, InOrder
  <2> QED  BY <2>2, <2>3 DEF IInv
<1>5. ASSUME Stopped PROVE IInv'
  BY <1>5, StoppedKeeps
<1> QED  BY <1>1, <1>2, <1>3, <1>4, <1>5 DEF Next

-----------------------------------------------------------------------------
(* The properties. *)

(* The invariant holds of any messages, whatever the adapter refuses.      *)
THEOREM InstantInvariance == Spec /\ []EndsLast => []IInv
<1> QED  BY IInvInit, IInvStep, PTL DEF Spec

(* All variables keep their types. *)
THEOREM InstantTypes == Spec /\ []EndsLast => []TypeOK
<1>1. IInv => TypeOK  BY DEF IInv
<1> QED  BY <1>1, InstantInvariance, PTL

(* Between and within handlers, the actions that have begun are the first  *)
(* of those that may be executed.                                          *)
LEMMA BegunTriggered ==
    ASSUME IInv
    PROVE  \E p \in 0..Len(queue) :
              /\ Triggered(queue, p) /\ Len(queue) \in Nat /\ DOMAIN queue = 1..Len(queue)
              /\ \A i \in DOMAIN queue : queue[i] \in begun => i <= p
              /\ calls = <<>> => \A i \in DOMAIN queue : i <= p => queue[i] \in begun
<1>1. PICK p \in 0..Len(queue) : \E b \in 0..p :
           /\ \A i \in DOMAIN queue : queue[i] \in begun <=> i <= b
           /\ Triggered(queue, p)
           /\ calls = Loop(b, p)
  BY DEF IInv, InOrder
<1>2. PICK b \in 0..p :
           /\ \A i \in DOMAIN queue : queue[i] \in begun <=> i <= b
           /\ Triggered(queue, p)
           /\ calls = Loop(b, p)
  BY <1>1
<1>3. Len(queue) \in Nat /\ DOMAIN queue = 1..Len(queue)
  BY LenProperties DEF IInv, TypeOK
<1>4. calls = <<>> => b = p
  BY <1>2 DEF Loop
<1>5. \A i \in DOMAIN queue : i <= b => i <= p
  BY <1>3
<1> QED  BY <1>2, <1>3, <1>4, <1>5

(* A HARD instant action is executed alone. *)
THEOREM HardInstantsAlone == Spec /\ []EndsLast => []HardInstantAlone
<1>1. ASSUME IInv PROVE HardInstantAlone
  <2>1. PICK p \in 0..Len(queue) :
            /\ Triggered(queue, p) /\ Len(queue) \in Nat /\ DOMAIN queue = 1..Len(queue)
            /\ \A i \in DOMAIN queue : queue[i] \in begun => i <= p
    BY <1>1, BegunTriggered
  <2>2. SUFFICES ASSUME NEW a \in Executing, NEW b \in Executing, IsHard(a)
                 PROVE  a = b
    BY DEF HardInstantAlone
  <2>3. PICK i \in DOMAIN queue : queue[i] = a
    BY <1>1 DEF IInv, Members, Executing
  <2>4. PICK j \in DOMAIN queue : queue[j] = b
    BY <1>1 DEF IInv, Members, Executing
  <2>5. i <= p /\ j <= p
    BY <2>1, <2>3, <2>4 DEF Executing
  <2>6. p = 1
    BY <2>1, <2>2, <2>3, <2>5 DEF Triggered
  <2>7. i = j
    BY <2>1, <2>5, <2>6
  <2> QED  BY <2>3, <2>4, <2>7
<1> QED  BY <1>1, InstantInvariance, PTL

(* "Trigger all newly added NONE and SOFT actions up to but not including  *)
(* the first new HARD blocking action": none waits without a HARD one      *)
(* before it, and the first of the queue has always begun.                 *)
THEOREM AllTriggered == Spec /\ []EndsLast => []TriggersAll
<1>1. ASSUME IInv PROVE TriggersAll
  <2>1. PICK p \in 0..Len(queue) :
            /\ Triggered(queue, p) /\ Len(queue) \in Nat /\ DOMAIN queue = 1..Len(queue)
            /\ calls = <<>> => \A i \in DOMAIN queue : i <= p => queue[i] \in begun
    BY <1>1, BegunTriggered
  <2>2. SUFFICES ASSUME calls = <<>>
                 PROVE  /\ \A i \in DOMAIN queue :
                              (\A j \in 1..i : ~IsHard(queue[j])) => queue[i] \in begun
                        /\ queue # <<>> => queue[1] \in begun
    BY DEF TriggersAll
  <2>3. ASSUME NEW i \in DOMAIN queue, \A j \in 1..i : ~IsHard(queue[j])
        PROVE  queue[i] \in begun
    <3>1. SUFFICES ASSUME p < i PROVE FALSE
      BY <2>1, <2>2
    <3>2. p < Len(queue) /\ 1 \in 1..i /\ p + 1 \in 1..i
      BY <2>1, <3>1
    <3> QED  BY <2>1, <2>3, <3>2 DEF Triggered
  <2>4. ASSUME queue # <<>> PROVE queue[1] \in begun
    <3>1. Len(queue) # 0
      BY <1>1, <2>4, EmptySeq DEF IInv, TypeOK
    <3>2. 1 \in DOMAIN queue /\ 1 <= p
      BY <2>1, <2>4, <3>1 DEF Triggered
    <3> QED  BY <2>1, <2>2, <3>2
  <2> QED  BY <2>3, <2>4
<1> QED  BY <1>1, InstantInvariance, PTL

(* Instant actions begin in the order in which they came. *)
THEOREM InstantsInOrder == Spec /\ []EndsLast => []BegunInOrder
<1>1. ASSUME IInv PROVE BegunInOrder
  <2>1. PICK p \in 0..Len(queue) :
            /\ Triggered(queue, p) /\ Len(queue) \in Nat /\ DOMAIN queue = 1..Len(queue)
            /\ \A i \in DOMAIN queue : queue[i] \in begun => i <= p
            /\ calls = <<>> => \A i \in DOMAIN queue : i <= p => queue[i] \in begun
    BY <1>1, BegunTriggered
  <2>2. SUFFICES ASSUME NEW i \in DOMAIN queue, NEW j \in DOMAIN queue,
                        i < j, queue[j] \in begun, calls = <<>>
                 PROVE  queue[i] \in begun /\ ~IsHard(queue[i])
    BY DEF BegunInOrder
  <2>3. i <= p /\ p # 1 /\ i \in 1..p
    BY <2>1, <2>2
  <2> QED  BY <2>1, <2>2, <2>3 DEF Triggered
<1> QED  BY <1>1, InstantInvariance, PTL

-----------------------------------------------------------------------------
(* The hypothesis holds if only HARD actions end within the call that      *)
(* executes them, whatever else is sent: a HARD action has a loop of its   *)
(* own.                                                                    *)
THEOREM HardEndsLast ==
    ASSUME \A m \in Messages : \A i \in DOMAIN m : Ends(m[i]) => IsHard(m[i])
    PROVE  Spec => []EndsLast
<1>1. IInv => EndsLast
  <2> SUFFICES ASSUME IInv, calls # <<>>, Ends(queue[Head(calls).next])
               PROVE  Head(calls).next = Head(calls).last
    BY DEF EndsLast
  <2> DEFINE i == Head(calls).next
             p == Head(calls).last
  <2>1. i \in 1..p /\ p \in 1..Len(queue) /\ Len(queue) \in Nat /\ i \in DOMAIN queue
        /\ Triggered(queue, p)
    BY NextInLoop
  <2>2. queue[i] \in Came /\ received \subseteq Messages
    BY <2>1 DEF IInv, Members, TypeOK
  <2>3. IsHard(queue[i])
    BY <2>2 DEF Came
  <2> HIDE DEF i, p
  <2>4. p = 1
    BY <2>1, <2>3 DEF Triggered
  <2>5. i = p
    BY <2>1, <2>4
  <2> QED  BY <2>5 DEF i, p
<1> QED  BY <1>1, IInvInit, IInvStep, PTL DEF Spec

=============================================================================
