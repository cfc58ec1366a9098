--------------------------- MODULE InstantActions ---------------------------
(***************************************************************************)
(* The queue of instant actions of class AgvController                     *)
(* (src/controller/agv-controller.ts): which instant actions of a message  *)
(* are accepted, when each is executed according to its blocking type, and *)
(* the special handling of stateRequest, cancelOrder and the pause         *)
(* actions.                                                                *)
(*                                                                         *)
(* An instant action may end within the call that executes it (each        *)
(* stateRequest does): the callback then runs nested in the loop that made *)
(* the call and changes the array the loop iterates over.  So the loops in *)
(* progress are modelled as a stack, calls; the adapter and the master     *)
(* control act only when it is empty, since the program is single-threaded.*)
(*                                                                         *)
(* Abstractions.  The order being executed (module AgvOrder) is a flag,    *)
(* active.  Reported action states, errors and their removal after some    *)
(* publications are left out.                                              *)
(***************************************************************************)
EXTENDS Naturals, Sequences, SequencesExt, FiniteSets

CONSTANTS
    ActionId,
    NoAction,      \* _cancelOrderContext when no order is being canceled
    Messages,      \* the messages that may be received, each once
    SyncEnds,      \* actions that end within the call that executes them
    Refusable      \* actions that isActionExecutable may refuse

Action == [id : ActionId, blk : {"NONE", "SOFT", "HARD"},
           type : {"stateRequest", "cancelOrder", "startPause", "stopPause", "other"}]

ASSUME MessagesAssumption ==
    /\ Messages \subseteq Seq(Action)
    /\ \A m1, m2 \in Messages : \A i \in DOMAIN m1, j \in DOMAIN m2 :
           m1[i].id = m2[j].id => m1 = m2 /\ i = j
ASSUME IdsAssumption ==
    NoAction \notin Action /\ SyncEnds \cup Refusable \subseteq ActionId

VARIABLES
    queue,      \* _currentInstantActions
    calls,      \* loops in progress: the positions each has yet to execute
    begun,      \* instant actions whose execution has begun
    ended,      \* instant actions that have ended
    received,   \* messages received
    active,     \* has the controller an active order?
    canceling,  \* the action in _cancelOrderContext, or NoAction
    dying,      \* are actions of the order being canceled still executing?
    stops,      \* stopTraverse calls whose stopped is outstanding
    paused,     \* is pause mode active?
    crashed     \* has a handler thrown an error that nobody catches?

orderVars == <<active, canceling, dying, stops>>
vars == <<queue, calls, begun, ended, received, orderVars, paused, crashed>>

TypeOK ==
    /\ queue \in Seq(Action)
    /\ calls \in Seq({c \in [next : Nat, last : Nat] : c.next <= c.last})
    /\ begun \subseteq Action /\ ended \subseteq Action
    /\ received \subseteq Messages
    /\ active \in BOOLEAN /\ dying \in BOOLEAN /\ stops \in Nat
    /\ canceling \in Action \cup {NoAction}
    /\ paused \in BOOLEAN /\ crashed \in BOOLEAN

-----------------------------------------------------------------------------
(* Which actions are executed next. *)

IsHard(a) == a.blk = "HARD"
Ends(a) == a.type = "stateRequest" \/ a.id \in SyncEnds

WrongChunk(q, after, skipInitialHard) ==
    LET Hard == {i \in (after + 1)..Len(q) : IsHard(q[i])}
        stop == IF Hard = {} THEN Len(q) + 1 ELSE CHOOSE h \in Hard : \A g \in Hard : h <= g
    IN  IF stop # after + 1 THEN <<[next |-> after + 1, last |-> stop - 1]>>
        ELSE IF Hard # {} THEN <<[next |-> stop, last |-> stop]>>
        ELSE <<>>

(* _processInstantActionChunk: the positions after the given one up to but *)
(* not including the next HARD action, or that action if it comes first.   *)
Chunk(q, after, skipInitialHard) ==
    LET Hard == {i \in (after + 1)..Len(q) : IsHard(q[i])}
        stop == IF Hard = {} THEN Len(q) + 1 ELSE CHOOSE h \in Hard : \A g \in Hard : h <= g
    IN  IF stop # after + 1 THEN <<[next |-> after + 1, last |-> stop - 1]>>
        ELSE IF Hard # {} /\ ~skipInitialHard THEN <<[next |-> stop, last |-> stop]>>
        ELSE <<>>

Position(q, a) == CHOOSE i \in DOMAIN q : q[i] = a

(* _areParallelActionsEnded: have all others executed in parallel with a,  *)
(* which is at position k of q, ended?                                     *)
ParallelEnded(q, k, done) ==
    \A i \in DOMAIN q :
        (\A j \in DOMAIN q : (i <= j /\ j <= k) \/ (k <= j /\ j <= i) => ~IsHard(q[j]))
            => q[i] \in done

WrongAfterEnd(q, k, done) ==
    IF IsHard(q[k]) THEN Chunk(RemoveAt(q, k), 0, FALSE) ELSE <<>>

(* What the end of the action at position k of q, done being the set of    *)
(* actions ended by then, causes to be executed of what remains in q.      *)
AfterEnd(q, k, done) ==
    LET rest == RemoveAt(q, k)
        Later == {i \in k..Len(rest) : IsHard(rest[i])}
        hard == CHOOSE h \in Later : \A g \in Later : h <= g
    IN  IF IsHard(q[k]) THEN Chunk(rest, 0, FALSE)
        ELSE IF Later # {} /\ ParallelEnded(q, k, done) THEN <<[next |-> hard, last |-> hard]>>
        ELSE <<>>

(* The action a ends, with the loops cs then in progress. *)
End(a, cs) ==
    LET k == Position(queue, a) IN
    /\ ended' = ended \cup {a}
    /\ queue' = RemoveAt(queue, k)
    /\ calls' = AfterEnd(queue, k, ended') \o cs

-----------------------------------------------------------------------------
(* Handlers of the controller. *)

(* _checkInstantActionExecutable, on arrival of the message; the adapter   *)
(* decides about all actions but cancelOrder.                              *)
Executable(a, refused) ==
    IF a.type = "cancelOrder" THEN active /\ canceling = NoAction ELSE a.id \notin refused

WrongHasPendingHardAction == queue # <<>> /\ IsHard(Last(queue))
HasPendingHardAction == \E i \in DOMAIN queue : IsHard(queue[i])

(* _processInstantActions: the executable actions of a message are queued, *)
(* and those executed that no pending action blocks.                       *)
ProcessInstantActions(m) ==
    /\ calls = <<>> /\ m \notin received
    /\ received' = received \cup {m}
    /\ \E refused \in SUBSET Refusable :
          LET Accepted == {i \in DOMAIN m : Executable(m[i], refused)} IN
          \E pos \in [1..Cardinality(Accepted) -> Accepted] :
             /\ \A i, j \in DOMAIN pos : i < j => pos[i] < pos[j]
             /\ queue' = queue \o [i \in DOMAIN pos |-> m[pos[i]]]
    /\ calls' = IF HasPendingHardAction THEN <<>>
                ELSE Chunk(queue', Len(queue), queue # <<>>)
    /\ UNCHANGED <<begun, ended, orderVars, paused, crashed>>

(* _cancelOrder(a).  If actions of the order execute, they are told to     *)
(* end; otherwise the AGV is stopped at once.                              *)
CancelOrder(a, cs) ==
    /\ dying' \in IF canceling = NoAction /\ active THEN BOOLEAN ELSE {dying}
    /\ IF ~dying' /\ Ends(a)
       THEN /\ active' = FALSE /\ canceling' = NoAction
            /\ End(a, cs)
            /\ UNCHANGED stops
       ELSE /\ canceling' = a
            /\ calls' = cs
            /\ stops' = IF dying' THEN stops ELSE stops + 1
            /\ UNCHANGED <<active, queue, ended>>

(* One iteration of the innermost loop: _processInstantAction(actions[i]). *)
ProcessInstantAction ==
    /\ calls # <<>>
    /\ UNCHANGED received
    /\ LET i == Head(calls).next
           cs == IF i = Head(calls).last THEN Tail(calls)
                 ELSE <<[Head(calls) EXCEPT !.next = i + 1]>> \o Tail(calls)
       IN  IF i > Len(queue)
           THEN (* actions[i] is undefined: TypeError *)
                /\ crashed' = TRUE /\ calls' = <<>>
                /\ UNCHANGED <<queue, begun, ended, orderVars, paused>>
           ELSE LET a == queue[i] IN
                /\ begun' = begun \cup {a}
                /\ UNCHANGED <<paused, crashed>>
                /\ IF a.type = "cancelOrder" THEN CancelOrder(a, cs)
                   ELSE /\ UNCHANGED orderVars
                        /\ IF Ends(a) THEN End(a, cs)
                           ELSE calls' = cs /\ UNCHANGED <<queue, ended>>

-----------------------------------------------------------------------------
(* Callbacks of the AGV adapter. *)

(* An instant action ends; in pause mode only the pause actions do.        *)
ActionEnds(a) ==
    /\ calls = <<>> /\ a.type # "cancelOrder"
    /\ paused => a.type \in {"startPause", "stopPause"}
    /\ paused' = IF a.type = "startPause" THEN TRUE
                 ELSE IF a.type = "stopPause" THEN FALSE ELSE paused
    /\ End(a, <<>>)
    /\ UNCHANGED <<begun, received, orderVars, crashed>>

(* The last action of the order being canceled has ended.                  *)
OrderActionsCanceled ==
    /\ calls = <<>> /\ dying
    /\ dying' = FALSE
    /\ stops' = stops + 1
    /\ UNCHANGED <<queue, calls, begun, ended, received, active, canceling, paused, crashed>>

(* The AGV has stopped: the cancelOrder action in the context is finished. *)
(* VirtualAgvAdapter also ends pause mode here.                            *)
Stopped ==
    /\ calls = <<>> /\ stops > 0
    /\ stops' = stops - 1
    /\ active' = FALSE
    /\ canceling' = NoAction
    /\ paused' \in {paused, FALSE}
    /\ UNCHANGED <<begun, received, dying>>
    /\ IF canceling = NoAction
       THEN (* _updateActionStatus(undefined): TypeError *)
            crashed' = TRUE /\ UNCHANGED <<queue, calls, ended>>
       ELSE End(canceling, <<>>) /\ UNCHANGED crashed

(* An order is accepted, or completes. *)
OrderChanges ==
    /\ calls = <<>> /\ canceling = NoAction
    /\ active' = ~active
    /\ UNCHANGED <<queue, calls, begun, ended, received, canceling, dying, stops, paused, crashed>>

-----------------------------------------------------------------------------
Init ==
    /\ queue = <<>> /\ calls = <<>> /\ begun = {} /\ ended = {} /\ received = {}
    /\ active = FALSE /\ canceling = NoAction /\ dying = FALSE /\ stops = 0
    /\ paused = FALSE /\ crashed = FALSE

Executing == begun \ ended

Next ==
    /\ ~crashed
    /\ \/ \E m \in Messages : ProcessInstantActions(m)
       \/ ProcessInstantAction
       \/ \E a \in Executing : ActionEnds(a)
       \/ OrderActionsCanceled \/ Stopped \/ OrderChanges

Spec == Init /\ [][Next]_vars

(* A handler runs to completion; the adapter ends what it executes.        *)
Fairness ==
    /\ WF_vars(ProcessInstantAction /\ ~crashed)
    /\ WF_vars((OrderActionsCanceled \/ Stopped) /\ ~crashed)
    /\ \A a \in ActionId : WF_vars(\E b \in Executing : b.id = a /\ ActionEnds(b) /\ ~crashed)

FairSpec == Spec /\ Fairness
-----------------------------------------------------------------------------
(* Properties. *)

Queued == {queue[i] : i \in DOMAIN queue}

(* A HARD instant action is executed alone: _processInstantActionChunk     *)
(* skips an initial HARD action while old ones are pending.                *)
HardInstantAlone == \A a, b \in Executing : IsHard(a) => a = b

(* _processInstantActions: "Trigger all newly added NONE and SOFT actions  *)
(* up to but not including the first new HARD blocking action."  Between   *)
(* handlers, no action waits in the queue unless a HARD one precedes it or *)
(* it is HARD itself; and the queue does not stand still.                  *)
TriggersAll ==
    calls = <<>> =>
        /\ \A i \in DOMAIN queue :
              (\A j \in 1..i : ~IsHard(queue[j])) => queue[i] \in begun
        /\ queue # <<>> => queue[1] \in begun

(* Instant actions overtake each other only within a chunk: one that has   *)
(* begun has no waiting action, and no HARD one, before it in the queue.   *)
BegunInOrder ==
    \A i, j \in DOMAIN queue : i < j /\ queue[j] \in begun /\ calls = <<>> =>
        queue[i] \in begun /\ ~IsHard(queue[i])

(* _cancelOrder: "Asserted: AGV has active order (by                       *)
(* _checkInstantActionExecutable)."  The check is made when the message    *)
(* arrives.  The code violates it: an action that waits behind a HARD one   *)
(* is executed when that has ended, and the order may be over by then.     *)
CancelsActiveOrder == [][\A a \in begun' \ begun : a.type = "cancelOrder" => active]_vars

Sent == UNION {{m[i] : i \in DOMAIN m} : m \in Messages}

(* Each accepted instant action ends at last, if pause mode does not.      *)
InstantActionsEnd == \A a \in Sent : a \in Queued ~> a \in ended \/ paused
=============================================================================
