----------------------------- MODULE AgvSession -----------------------------
(***************************************************************************)
(* The sessions of an AGV at the MQTT broker, and how a master control     *)
(* client tracks them: classes Client (src/common/client.ts), AgvClient    *)
(* (src/client/agv-client.ts) and MasterControlClient                      *)
(* (src/client/master-control-client.ts), and what class AgvController     *)
(* (src/controller/agv-controller.ts) does when it starts and stops.       *)
(*                                                                         *)
(* start and stop are awaited before they are called again, as the source  *)
(* demands, but the adapter's attached callback and the subscriptions that *)
(* follow it go on after start has resolved, in parallel with stop.  The   *)
(* connection may be lost at any time with the packets in it; the broker   *)
(* notices it later, at the latest when the client connects again.  The    *)
(* connection of the master is lost with its packets in the same way, but  *)
(* is noticed at once.                                                     *)
(*                                                                         *)
(* Abstractions.  Messages are their topics, except for the connection     *)
(* state.  Two subscriptions stand for all those of the controller; the    *)
(* maps of handlers are in module Subscriptions.  A packet of QoS 0 is     *)
(* published when it is written to the connection.                         *)
(***************************************************************************)
EXTENDS Naturals, Sequences, SequencesExt

CONSTANTS MaxStarts, MaxLost, MaxMaster, Capacity   \* bounds

ASSUME BoundAssumption == {MaxStarts, MaxLost, MaxMaster, Capacity} \subseteq Nat

Topics == {"order", "instantActions"}

VARIABLES
    life,       \* where start and stop are; "stopped" when both have resolved
    setup,      \* where the attached callback is
    acked,      \* has the subscription that setup waits for been acknowledged?
    subs,       \* topics in the subscription manager
    callback,   \* is _subscribeOnStarted's connection callback registered?
    timer,      \* is _publishStateTimerId set?
    connected,  \* is the client connected?
    queue,      \* packets to be sent when it is connected again
    link,       \* packets in the connection
    alive,      \* does the broker hold a session of the client?
    broker,     \* the subscriptions of this session
    retained,   \* the retained connection message
    master,     \* is the master control client subscribed to connection?
    handler,    \* has it a _trackHandler?
    tracked,    \* the connection state in _connectionStates
    told,       \* the connection state the handler has been told last
    inbox,      \* connection states on their way to it
    starts, losses, changes   \* counters for the bounds

agvVars == <<life, setup, acked, subs, callback, timer, connected, queue>>
brokerVars == <<link, alive, broker, retained>>
masterVars == <<master, handler, tracked, told, inbox>>
bounds == <<starts, losses, changes>>
vars == <<agvVars, brokerVars, masterVars, bounds>>

(* _isStarted *)
Started == life \in {"announcing", "started", "detaching", "leaving"}

Packet(op) == [op |-> op, topics |-> {}]

ConnectionState == {"ONLINE", "OFFLINE", "CONNECTIONBROKEN"}
StateOp == {"state", "initial", "again", "carried"}
Op == {"ONLINE", "OFFLINE", "subscribe", "resubscribe", "disconnect"} \cup StateOp

TypeOK ==
    /\ life \in {"stopped", "connecting", "announcing", "started", "detaching", "leaving", "ending"}
    /\ setup \in {"none", "attaching", "done", "failed"} \cup Topics
    /\ acked \in BOOLEAN /\ callback \in BOOLEAN /\ timer \in BOOLEAN /\ connected \in BOOLEAN
    /\ alive \in BOOLEAN /\ master \in BOOLEAN /\ handler \in BOOLEAN
    /\ subs \in SUBSET Topics /\ broker \in SUBSET Topics
    /\ queue \in Seq({Packet("OFFLINE")})
    /\ link \in Seq([op : Op, topics : SUBSET Topics])
    /\ retained \in ConnectionState \cup {"none"}
    /\ tracked \in ConnectionState \cup {"none"} /\ told \in ConnectionState \cup {"none"}
    /\ inbox \in Seq(ConnectionState)
    /\ starts \in Nat /\ losses \in Nat /\ changes \in Nat

(* Has the attached callback merged the initial state into the current one *)
(* in this session?                                                        *)
Merged == setup \notin {"none", "attaching"}

(* A publication of the current state: "initial" if it is the one of the   *)
(* attached callback, "again" if it is one of the connection callback with *)
(* the initial state, "carried" if it is any other with that state.        *)
StatePacket(op) == Packet(IF Merged THEN op ELSE "state")

(* publishTopic: queued offline unless it is to be dropped. *)
Send(ps, dropIfOffline) ==
    /\ link' = IF connected THEN link \o ps ELSE link
    /\ queue' = IF connected \/ dropIfOffline THEN queue ELSE queue \o ps
    /\ Len(link') <= Capacity

-----------------------------------------------------------------------------
(* Client and AgvClient: start, stop and the connection. *)

(* The broker makes s the retained connection state and sends it on.       *)
Retain(s) ==
    /\ retained' = s
    /\ inbox' = IF master THEN Append(inbox, s) ELSE inbox

(* The client connects: the broker ends the session it still holds.        *)
TakeOver ==
    /\ IF alive THEN Retain("CONNECTIONBROKEN") ELSE UNCHANGED <<retained, inbox>>
    /\ alive' = TRUE /\ broker' = {}

Start ==
    /\ life = "stopped" /\ setup \notin {"order", "instantActions"}
    /\ starts < MaxStarts
    /\ starts' = starts + 1 /\ life' = "connecting" /\ setup' = "none"
    /\ UNCHANGED <<acked, subs, callback, timer, connected, queue, brokerVars, masterVars,
                   losses, changes>>

ConnectFails ==
    /\ life = "connecting"
    /\ life' = "stopped"
    /\ UNCHANGED <<setup, acked, subs, callback, timer, connected, queue, brokerVars,
                   masterVars, bounds>>

(* _connect resolves, and onStarted publishes.  A callback registered in   *)
(* an earlier session is called before _isStarted is set: it sets the      *)
(* timer, but publish throws.                                              *)
Connect ==
    /\ life = "connecting"
    /\ life' = "announcing"
    /\ connected' = TRUE /\ timer' = (timer \/ callback)
    /\ TakeOver
    /\ link' = <<Packet("ONLINE")>>
    /\ UNCHANGED <<setup, acked, subs, callback, queue, master, handler, tracked, told, bounds>>

(* The publication resolves; _attachAdapter *)
Announced ==
    /\ life = "announcing"
    /\ life' = "started" /\ setup' = "attaching"
    /\ UNCHANGED <<acked, subs, callback, timer, connected, queue, brokerVars, masterVars,
                   bounds>>

ConnectionLost ==
    /\ connected /\ losses < MaxLost
    /\ losses' = losses + 1
    /\ connected' = FALSE /\ link' = <<>>
    /\ setup' = IF setup \in Topics /\ ~acked THEN "failed" ELSE setup
    /\ UNCHANGED <<life, acked, subs, callback, timer, queue, alive, broker, retained,
                   masterVars, starts, changes>>

WrongResubscriptions == {}

(* getAll *)
Resubscriptions == subs

(* On "connect": first the subscriptions, then what has been queued, then  *)
(* the callback's publication of the state.                                *)
Reconnect ==
    /\ ~connected /\ Started
    /\ connected' = TRUE
    /\ TakeOver
    /\ link' = (IF Resubscriptions = {} THEN <<>>
                ELSE <<[op |-> "resubscribe", topics |-> Resubscriptions]>>)
                   \o queue \o (IF callback THEN <<StatePacket("again")>> ELSE <<>>)
    /\ queue' = <<>> /\ timer' = (timer \/ callback)
    /\ UNCHANGED <<life, setup, acked, subs, callback, master, handler, tracked, told, bounds>>

(* _detachAdapter *)
Stop ==
    /\ life = "started"
    /\ life' = "detaching"
    /\ setup' = IF setup = "attaching" THEN "none" ELSE setup
    /\ UNCHANGED <<acked, subs, callback, timer, connected, queue, brokerVars, masterVars,
                   bounds>>

WrongDetached ==
    /\ life = "detaching"
    /\ life' = "leaving" /\ timer' = FALSE
    /\ Send(<<StatePacket("carried")>>, TRUE)
    /\ UNCHANGED <<setup, acked, subs, callback, connected, alive, broker, retained,
                   masterVars, bounds>>

(* The state is published as the adapter leaves it, and onStopping         *)
(* publishes.                                                              *)
Detached ==
    /\ life = "detaching"
    /\ life' = "leaving" /\ timer' = FALSE
    /\ IF connected THEN Send(<<StatePacket("carried"), Packet("OFFLINE")>>, TRUE)
       ELSE Send(<<Packet("OFFLINE")>>, FALSE)
    /\ UNCHANGED <<setup, acked, subs, callback, connected, alive, broker, retained,
                   masterVars, bounds>>

(* _disconnect *)
Disconnect ==
    /\ life = "leaving"
    /\ life' = "ending"
    /\ Send(<<Packet("disconnect")>>, TRUE)
    /\ UNCHANGED <<setup, acked, subs, callback, timer, connected, alive, broker, retained,
                   masterVars, bounds>>

(* mqtt.end resolves when the connection is closed; reset *)
Ended ==
    /\ life = "ending" /\ ~connected
    /\ life' = "stopped" /\ subs' = {} /\ queue' = <<>>
    /\ UNCHANGED <<setup, acked, callback, timer, connected, brokerVars, masterVars, bounds>>

-----------------------------------------------------------------------------
(* AgvController: the attached callback, and publications of the state. *)

(* subscribeTopic: throws if the client is not started, resolves at once   *)
(* offline.                                                                *)
Subscribe(topic) ==
    IF Started
    THEN /\ setup' = topic /\ acked' = ~connected
         /\ subs' = subs \cup {topic}
         /\ Send(<<[op |-> "subscribe", topics |-> {topic}]>>, TRUE)
    ELSE setup' = "failed" /\ UNCHANGED <<acked, subs, link, queue>>

WrongAttached ==
    /\ setup = "attaching" /\ Started
    /\ setup' = "order" /\ acked' = ~connected /\ subs' = subs \cup {"order"}
    /\ Send(<<Packet("initial"), [op |-> "subscribe", topics |-> {"order"}]>>, TRUE)
    /\ UNCHANGED <<life, callback, timer, connected, alive, broker, retained, masterVars, bounds>>

Attached ==
    /\ setup = "attaching"
    /\ Subscribe("order")
    /\ UNCHANGED <<life, callback, timer, connected, alive, broker, retained, masterVars, bounds>>

OrderSubscribed ==
    /\ setup = "order" /\ acked
    /\ Subscribe("instantActions")
    /\ UNCHANGED <<life, callback, timer, connected, alive, broker, retained, masterVars, bounds>>

InstantActionsSubscribed ==
    /\ setup = "instantActions" /\ acked
    /\ setup' = "done" /\ callback' = TRUE /\ timer' = TRUE
    /\ IF Started THEN Send(<<Packet("initial")>>, TRUE) ELSE UNCHANGED <<link, queue>>
    /\ UNCHANGED <<life, acked, subs, connected, alive, broker, retained, masterVars, bounds>>

(* _publishCurrentState by the timer, or in answer to an order or action.  *)
PublishCurrentState ==
    /\ Started /\ connected /\ (timer \/ broker # {})
    /\ Send(<<StatePacket("carried")>>, TRUE)
    /\ timer' = TRUE
    /\ UNCHANGED <<life, setup, acked, subs, callback, connected, alive, broker, retained,
                   masterVars, bounds>>

-----------------------------------------------------------------------------
(* The broker. *)

BrokerReceives ==
    /\ link # <<>>
    /\ LET op == Head(link).op
       IN  /\ link' = Tail(link)
           /\ broker' = IF op = "disconnect" THEN {} ELSE broker \cup Head(link).topics
           /\ acked' = (acked \/ (op = "subscribe" /\ setup \in Head(link).topics))
           /\ alive' = (op # "disconnect") /\ connected' = (op # "disconnect")
           /\ IF op \in {"ONLINE", "OFFLINE"} THEN Retain(op) ELSE UNCHANGED <<retained, inbox>>
    /\ UNCHANGED <<life, setup, subs, callback, timer, queue, master, handler, tracked, told,
                   bounds>>

(* The keep-alive time is over: the last will is published. *)
BrokerNotices ==
    /\ alive /\ ~connected
    /\ Retain("CONNECTIONBROKEN")
    /\ alive' = FALSE /\ broker' = {}
    /\ UNCHANGED <<agvVars, link, master, handler, tracked, told, bounds>>

-----------------------------------------------------------------------------
(* MasterControlClient. *)

(* onStarted, or the resubscription when it connects again: the broker     *)
(* sends the retained message.                                             *)
MasterSubscribes ==
    /\ ~master
    /\ master' = TRUE
    /\ inbox' = IF retained = "none" THEN <<>> ELSE <<retained>>
    /\ UNCHANGED <<agvVars, brokerVars, handler, tracked, told, bounds>>

MasterDisconnects ==
    /\ master /\ changes < MaxMaster
    /\ changes' = changes + 1 /\ master' = FALSE /\ inbox' = <<>>

MasterLosesConnection ==
    /\ MasterDisconnects
    /\ UNCHANGED <<agvVars, brokerVars, handler, tracked, told, starts, losses>>

(* stop: reset *)
MasterStops ==
    /\ MasterDisconnects
    /\ tracked' = "none" /\ handler' = FALSE /\ told' = "none"
    /\ UNCHANGED <<agvVars, brokerVars, starts, losses>>

WrongTrackAgvs ==
    /\ ~handler
    /\ handler' = TRUE
    /\ UNCHANGED <<agvVars, brokerVars, master, tracked, told, inbox, bounds>>

TrackAgvs ==
    /\ ~handler
    /\ handler' = TRUE
    /\ told' = tracked
    /\ UNCHANGED <<agvVars, brokerVars, master, tracked, inbox, bounds>>

MasterReceives ==
    /\ inbox # <<>>
    /\ inbox' = Tail(inbox)
    /\ tracked' = Head(inbox)
    /\ told' = IF handler THEN Head(inbox) ELSE told
    /\ UNCHANGED <<agvVars, brokerVars, master, handler, bounds>>

-----------------------------------------------------------------------------
Init ==
    /\ life = "stopped" /\ setup = "none" /\ acked = FALSE /\ subs = {}
    /\ callback = FALSE /\ timer = FALSE /\ connected = FALSE /\ queue = <<>>
    /\ link = <<>> /\ alive = FALSE /\ broker = {} /\ retained = "none"
    /\ master = FALSE /\ handler = FALSE /\ tracked = "none" /\ told = "none" /\ inbox = <<>>
    /\ starts = 0 /\ losses = 0 /\ changes = 0

Agv ==
    \/ Connect \/ ConnectFails \/ Announced \/ Reconnect
    \/ Detached \/ Disconnect \/ Ended
    \/ Attached \/ OrderSubscribed \/ InstantActionsSubscribed

Next ==
    \/ Agv \/ Start \/ Stop \/ ConnectionLost \/ PublishCurrentState
    \/ BrokerReceives \/ BrokerNotices
    \/ MasterSubscribes \/ MasterLosesConnection \/ MasterStops \/ TrackAgvs \/ MasterReceives

Spec == Init /\ [][Next]_vars
-----------------------------------------------------------------------------
(* Properties. *)

(* The topics that are to be subscribed to when the broker receives a      *)
(* state of op in the nth session.                                         *)
Needed(op, n) ==
    IF op = "initial" \/ (op = "again" /\ n = 1) THEN Topics
    ELSE IF op \in {"again", "carried"} THEN {"order"}
    ELSE {}

(* The initial state that the attached callback publishes reaches the      *)
(* broker after the subscriptions to orders and instant actions, however   *)
(* often the connection was lost and the client restarted in between; in   *)
(* the first session, the one published when it is connected again too.    *)
(* Any other state that carries it (of the timer, in answer to an order or *)
(* when the adapter leaves, or in a later session of the connection        *)
(* callback) may come before attached is through, but after the            *)
(* subscription to orders.                                                 *)
InitialStateSubscribed ==
    link # <<>> => Needed(Head(link).op, starts) \subseteq broker

(* "Ensure subscriptions on orders and instant actions are registered with *)
(* the broker before publishing the initial state. A Master Control may    *)
(* observe this state": so they are when the broker receives this state,   *)
(* from the attached callback or because the client is connected again.    *)
(* The code violates it: in a restarted session the connection callback of *)
(* the session before publishes it while it is being set up.               *)
InitialStateLast ==
    link # <<>> /\ Head(link).op \in {"initial", "again"} => broker = Topics

(* An AGV that has been set up, and whose connection is idle, is reached   *)
(* by orders and instant actions, also after it has been connected again.  *)
ReachedWhenIdle ==
    Started /\ setup = "done" /\ connected /\ link = <<>> => broker = Topics

(* When stop has resolved and the broker holds no session of the client,   *)
(* nobody believes that the AGV is online.                                 *)
NeverLeftOnline ==
    life = "stopped" /\ ~alive => retained # "ONLINE"

(* A master that has received all that has been sent to it tracks the last *)
(* connection state the broker knows, and has told it to its handler.      *)
TrackedLatest ==
    master /\ inbox = <<>> =>
        /\ tracked = retained
        /\ handler => told = tracked

(* "ONLINE: connection between AGV and broker is active.                   *)
(* CONNECTIONBROKEN: The connection between AGV and broker has             *)
(* unexpectedly ended."  So the retained state says of an AGV that is      *)
(* connected and has sent all that it had to.                              *)
ActiveIsOnline ==
    life = "started" /\ connected /\ link = <<>> => retained = "ONLINE"
=============================================================================
