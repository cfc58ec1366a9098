--------------------------- MODULE InstantReports ---------------------------
(***************************************************************************)
(* What becomes of instant actions, as class AgvController                 *)
(* (src/controller/agv-controller.ts) reports it in its state messages and *)
(* class MasterController (src/controller/master-controller.ts) reports it *)
(* to the application: publication of the state, removal of the outcome of *)
(* an action after it has been published a number of times, and the caches *)
(* of initiated actions, from messages that are valid for the AGV or not.  *)
(*                                                                         *)
(* An outcome is the end of an action, reported as its status, or an error *)
(* about an action that was refused or a message that was invalid.  An     *)
(* action that fails may also leave an error, which is no outcome: it is   *)
(* not counted.                                                            *)
(*                                                                         *)
(* Abstractions.  The order of execution is in module InstantActions: here *)
(* an accepted action begins and ends at any time.  FINISHED and FAILED    *)
(* are "ENDED".  Message and action ids are used once.  Of orders only     *)
(* what their acceptance does to the errors of the state is modelled.      *)
(***************************************************************************)
EXTENDS Naturals, Sequences, SequencesExt, FiniteSets

CONSTANTS
    ActionId,
    Messages,      \* the messages that may be initiated, each once
    PublishCount,  \* finalInstantActionStateChangePublishCount
    Patient,       \* does the application wait for what becomes of a message?
    MaxLost,       \* bound on the state messages lost
    MaxOffline,    \* bound on how often the AGV loses its connection
    Capacity       \* bound on the publications under way

MessageId == {m.id : m \in Messages}
About == ActionId \cup MessageId
Invalid == {m.id : m \in {n \in Messages : ~n.valid}}

ASSUME ReportsAssumption ==
    /\ \A m \in Messages : m.actions \subseteq ActionId /\ m.valid \in BOOLEAN
    /\ \A m, n \in Messages : m = n \/ (m.id # n.id /\ m.actions \cap n.actions = {})
    /\ ActionId \cap MessageId = {} /\ {"RUNNING", "ENDED"} \cap About = {}
    /\ PublishCount \in Nat \ {0} /\ {MaxLost, MaxOffline, Capacity} \subseteq Nat
    /\ Patient \in BOOLEAN

VARIABLES
    waiting,    \* MasterController: actions in _currentInstantActions
    refOf,      \* their instantActionsRef
    last,       \* and the status of their lastActionState
    ref,        \* _currentInstantActionsRef, 0 if undefined
    known,      \* _currentInstantActionsValidationErrors
    awaited,    \* initiated messages whose publish has not resolved
    initiated,  \* messages initiated
    heard,      \* what the application was told of each action
    messages,   \* on their way to the AGV
    states,     \* state messages on their way to the master controller
    lost,       \* number of state messages lost
    online,     \* AGV: is its client connected?
    cuts,       \* number of times it has lost its connection
    checking,   \* actions of the received message to be checked
    accepted,   \* actions accepted whose execution has not begun
    status,     \* the actionStates of its current state
    refused,    \* the errors of its current state, about actions
    invalid,    \* and about messages, in their order,
    failed,     \* and about actions that have failed
    count,      \* publications counted for each outcome
    acks,       \* publications that have not resolved
    removed     \* outcomes removed from the state

master == <<waiting, refOf, last, ref, known, awaited, initiated, heard>>
agv == <<checking, accepted, status, refused, invalid, failed, count, removed>>
network == <<messages, lost, online, cuts>>
vars == <<master, agv, network, states, acks>>

-----------------------------------------------------------------------------
(* AgvController. *)

(* _publishCurrentState: the current state is sent at once, or dropped     *)
(* offline.                                                                *)
Publish ==
    /\ states' = IF online'
                 THEN Append(states, [status |-> status', refused |-> refused',
                                      invalid |-> invalid', failed |-> failed'])
                 ELSE states
    /\ acks' = IF online' THEN acks + 1 ELSE acks
    /\ acks' <= Capacity /\ Len(states') <= Capacity

(* _processInstantActions: the message is checked as a whole, then its     *)
(* actions are.                                                            *)
ReceiveActions ==
    /\ messages # <<>> /\ checking = {}
    /\ messages' = Tail(messages)
    /\ UNCHANGED <<master, lost, online, cuts, accepted, count, removed>>
    /\ UNCHANGED <<status, refused, failed>>
    /\ IF Head(messages).valid
       THEN checking' = Head(messages).actions /\ UNCHANGED <<invalid, states, acks>>
       ELSE UNCHANGED checking /\ invalid' = Append(invalid, Head(messages).id) /\ Publish

(* _checkInstantActionExecutable *)
CheckAction(a) ==
    /\ a \in checking
    /\ checking' = checking \ {a}
    /\ UNCHANGED <<master, network, status, invalid, failed, count, removed>>
    /\ \/ accepted' = accepted \cup {a} /\ UNCHANGED <<refused, states, acks>>
       \/ UNCHANGED accepted /\ refused' = refused \cup {a} /\ Publish

(* _updateActionStatus: an action that fails may describe an error. *)
ActionChanges(a, s) ==
    /\ checking = {}
    /\ (status[a] = "RUNNING" /\ s = "ENDED") \/ a \in accepted
    /\ accepted' = accepted \ {a}
    /\ status' = [status EXCEPT ![a] = s]
    /\ \/ UNCHANGED failed
       \/ s = "ENDED" /\ failed' = failed \cup {a}
    /\ UNCHANGED <<master, network, checking, refused, invalid, count, removed>>
    /\ Publish

WrongReported == {a \in ActionId : status[a] # "ABSENT"} \cup refused \cup ToSet(invalid)

(* The outcomes that are reported. *)
Reported == {a \in ActionId : status[a] = "ENDED"} \cup refused \cup ToSet(invalid)

(* The outcomes over are no longer reported as errors; the others keep     *)
(* their order.                                                            *)
RemoveErrors(over) ==
    LET Kept == {i \in DOMAIN invalid : invalid[i] \notin over} IN
    /\ refused' = refused \ over
    /\ \E pos \in [1..Cardinality(Kept) -> Kept] :
          /\ \A i, j \in DOMAIN pos : i < j => pos[i] < pos[j]
          /\ invalid' = [i \in DOMAIN pos |-> invalid[pos[i]]]


(* A publication resolves; _cleanupInstantActionStates counts it for each  *)
(* outcome reported by now and removes those published often enough.       *)
Published ==
    LET Over == {x \in Reported : count[x] + 1 >= PublishCount}
    IN  /\ checking = {} /\ acks > 0
        /\ acks' = acks - 1
        /\ count' = [x \in About |-> IF x \in Reported THEN count[x] + 1 ELSE count[x]]
        /\ status' = [a \in ActionId |-> IF a \in Over THEN "ABSENT" ELSE status[a]]
        /\ RemoveErrors(Over)
        /\ removed' = removed \cup Over
        /\ UNCHANGED <<master, network, checking, accepted, failed, states>>

(* _acceptOrder, unless the order stitches: the state keeps the errors     *)
(* that are counted, and no other.                                         *)
AcceptOrder ==
    /\ checking = {} /\ failed # {}
    /\ failed' = {}
    /\ UNCHANGED <<master, network, checking, accepted, status, refused, invalid, count, removed>>
    /\ Publish

(* After publishStateInterval; the interval is long.                       *)
PublishAgain ==
    /\ checking = {} /\ acks = 0 /\ states = <<>>
    /\ UNCHANGED <<master, network, agv>>
    /\ Publish

ConnectionLost ==
    /\ online /\ cuts < MaxOffline
    /\ online' = FALSE /\ cuts' = cuts + 1
    /\ UNCHANGED <<master, agv, messages, lost, states, acks>>

(* The callback of _subscribeOnStarted publishes the state. *)
Reconnected ==
    /\ ~online /\ checking = {}
    /\ online' = TRUE
    /\ UNCHANGED <<master, agv, messages, lost, cuts>>
    /\ Publish

-----------------------------------------------------------------------------
(* MasterController. *)

(* initiateInstantActions, up to its await: the reference of the message   *)
(* follows that of the last one published.                                 *)
InitiateInstantActions(m) ==
    /\ m \notin initiated
    /\ Patient => waiting = {} /\ awaited = {}
    /\ initiated' = initiated \cup {m}
    /\ waiting' = waiting \cup m.actions
    /\ refOf' = [a \in ActionId |-> IF a \in m.actions THEN ref + 1 ELSE refOf[a]]
    /\ awaited' = awaited \cup {[msg |-> m, ref |-> ref + 1]}
    /\ messages' = Append(messages, m)
    /\ UNCHANGED <<last, ref, known, heard, lost, online, cuts, agv, states, acks>>

PublishResolves(p) ==
    /\ p \in awaited
    /\ awaited' = awaited \ {p}
    /\ ref' = p.ref
    /\ UNCHANGED <<waiting, refOf, last, known, initiated, heard, network, agv, states, acks>>

(* publish rejects: the message has not been sent. *)
PublishRejects(p) ==
    /\ p \in awaited /\ messages # <<>> /\ Last(messages) = p.msg
    /\ messages' = Front(messages)
    /\ awaited' = awaited \ {p}
    /\ waiting' = waiting \ p.msg.actions
    /\ UNCHANGED <<refOf, last, ref, known, initiated, heard, lost, online, cuts, agv, states, acks>>

WrongKnownErrors(s) ==
    [i \in DOMAIN s.invalid |-> [ref |-> ref, error |-> s.invalid[i]]]

(* _updateInstantActionsValidationError: errors beyond the number of those *)
(* known are attributed to the messages published last.                    *)
KnownErrors(s) ==
    LET old == Len(known)
        new == Len(s.invalid)
    IN  IF ref = 0 THEN known
        ELSE IF new >= old
        THEN known \o [i \in 1..(new - old) |-> [ref |-> ref + 1 - i, error |-> s.invalid[old + i]]]
        ELSE SubSeq(known, old - new + 1, old)

WrongHasChanged(a, s) == s.status[a] # "ABSENT"
HasChanged(a, s) == s.status[a] \notin {"ABSENT", last[a]}

(* The error about action a in state s, or about its message as known ks.  *)
ErrorsAbout(a, s, ks) ==
    IF s.status[a] # "ABSENT" THEN {}
    ELSE IF a \in s.refused \cup s.failed THEN {a}
    ELSE LET I == {i \in DOMAIN ks : ks[i].ref = refOf[a]}
         IN  {ks[i].error : i \in {j \in I : \A k \in I : j <= k}}

(* _dispatchState, as to instant actions. *)
DispatchState ==
    /\ states # <<>>
    /\ states' = Tail(states)
    /\ UNCHANGED <<refOf, ref, awaited, initiated, network, agv, acks>>
    /\ LET s == Head(states)
           Changed == {a \in waiting : HasChanged(a, s)}
           Refused == {a \in waiting : ErrorsAbout(a, s, KnownErrors(s)) # {}}
           Tell(a) == IF a \in Changed THEN <<s.status[a]>>
                      ELSE IF a \in Refused
                      THEN <<CHOOSE e \in ErrorsAbout(a, s, KnownErrors(s)) : TRUE>>
                      ELSE <<>>
       IN  /\ known' = KnownErrors(s)
           /\ heard' = [a \in ActionId |-> heard[a] \o Tell(a)]
           /\ last' = [a \in ActionId |-> IF a \in Changed THEN s.status[a] ELSE last[a]]
           /\ waiting' = waiting \ (Refused \cup {a \in Changed : s.status[a] = "ENDED"})

LoseState ==
    /\ states # <<>> /\ lost < MaxLost
    /\ states' = Tail(states) /\ lost' = lost + 1
    /\ UNCHANGED <<master, agv, messages, online, cuts, acks>>

-----------------------------------------------------------------------------
Init ==
    /\ waiting = {} /\ refOf = [a \in ActionId |-> 0] /\ last = [a \in ActionId |-> "ABSENT"]
    /\ ref = 0 /\ known = <<>> /\ awaited = {} /\ initiated = {}
    /\ heard = [a \in ActionId |-> <<>>]
    /\ messages = <<>> /\ states = <<>> /\ lost = 0 /\ online = TRUE /\ cuts = 0
    /\ checking = {} /\ accepted = {} /\ status = [a \in ActionId |-> "ABSENT"]
    /\ refused = {} /\ invalid = <<>> /\ failed = {} /\ count = [x \in About |-> 0] /\ acks = 0 /\ removed = {}

Next ==
    \/ \E m \in Messages : InitiateInstantActions(m)
    \/ \E p \in awaited : PublishResolves(p) \/ PublishRejects(p)
    \/ DispatchState \/ LoseState
    \/ ReceiveActions \/ \E a \in ActionId : CheckAction(a)
    \/ \E a \in ActionId, s \in {"RUNNING", "ENDED"} : ActionChanges(a, s)
    \/ AcceptOrder \/ Published \/ PublishAgain \/ ConnectionLost \/ Reconnected

Spec == Init /\ [][Next]_vars

(* Publications resolve, the timer fires, the client reconnects, and       *)
(* messages arrive.                                                        *)
Fairness ==
    /\ WF_vars(Published) /\ WF_vars(PublishAgain) /\ WF_vars(Reconnected)
    /\ WF_vars(DispatchState) /\ WF_vars(\E a \in ActionId : CheckAction(a))

FairSpec == Spec /\ Fairness
-----------------------------------------------------------------------------
(* Properties. *)

(* An outcome is removed from the state only when it has been published so *)
(* often that the application hears of it, in spite of the states that may *)
(* be lost, dropped offline, or older than the outcome when they are       *)
(* counted.  (Not so for errors about messages: an error that is removed   *)
(* and one that is added between two publications leave the number of      *)
(* errors, and so what KnownErrors knows, unchanged.)                      *)
OutcomeHeard == states = <<>> => removed \cap waiting = {}

(* The application hears of an action in the order of what happens, of     *)
(* each status once, and of nothing after its end or an error.             *)
HeardOnce ==
    \A a \in ActionId :
        heard[a] \in {<<>>, <<"RUNNING">>, <<"ENDED">>, <<"RUNNING", "ENDED">>}
                         \cup {<<x>> : x \in {a} \cup Invalid}

(* A validation error is reported for the actions of the message it is     *)
(* about, if the application waits for what becomes of a message before it *)
(* initiates the next one.                                                 *)
RightError ==
    \A m \in Messages : \A a \in m.actions : \A i \in DOMAIN heard[a] :
        heard[a][i] \in Invalid => heard[a][i] = m.id


(* "To ensure that a published State object is not cluttered with outdated *)
(* instant action states", nothing is reported of an instant action for    *)
(* ever.  The code violates it: the error that _updateActionStatus appends *)
(* for a failed action is not counted, and remains until an order is       *)
(* accepted that does not stitch.                                          *)
NothingRemains == []<>(Reported \cup failed = {})
=============================================================================
