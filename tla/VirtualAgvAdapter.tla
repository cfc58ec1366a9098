------------------------- MODULE VirtualAgvAdapter -------------------------
(***************************************************************************)
(* The adapter of a simulated vehicle                                      *)
(* (src/adapter/virtual-agv-adapter.ts).  A timer issues ticks; each tick  *)
(* advances the state machines of the actions being executed one after the *)
(* other, then the traversal of the edge, then the charging of the         *)
(* battery.                                                                *)
(*                                                                         *)
(* The controller, AgvController, is the environment.  It calls the        *)
(* adapter when a message has arrived, that is between ticks, and from     *)
(* within the callbacks a tick invokes: reacting tells that such a call    *)
(* may come.  So one tick is several steps here, and the array of state    *)
(* machines may change while the tick iterates over it.                    *)
(*                                                                         *)
(* Abstractions.  Durations, distances and the charge of the battery are   *)
(* small numbers of ticks.  Position, speed and parameters of actions, the *)
(* estimate of execution times, and the checks of an order before it is    *)
(* accepted (route, deviation range, parameters) are left out.             *)
(***************************************************************************)
EXTENDS Naturals, Sequences, SequencesExt

CONSTANTS
    ActionId,
    Type, Scope,     \* the type and the scope of each action
    Duration,        \* ticks an action stays INITIALIZING or RUNNING
    Distance,        \* ticks of driving an edge takes
    FullCharge,      \* charge of a full battery
    LowCharge,       \* option lowBatteryChargeThreshold
    Margin,          \* charge above LowCharge at which batteryLowError goes
    Blocking         \* the actions executed with stopDriving

-----------------------------------------------------------------------------
(* Action definitions: the scopes of each type, its status on execution,   *)
(* whether it has ON_CANCEL.  None has ON_TERMINATE.                       *)

ActionDefinition ==
    [scopes : SUBSET {"instant", "node", "edge"},
     init : {"INITIALIZING", "RUNNING", "FINISHED"}, onCancel : BOOLEAN]

Noop == [scopes |-> {"instant", "node", "edge"}, init |-> "RUNNING", onCancel |-> TRUE]
PickOrDrop == [scopes |-> {"node"}, init |-> "INITIALIZING", onCancel |-> TRUE]
InitPosition == [scopes |-> {"instant", "node"}, init |-> "FINISHED", onCancel |-> TRUE]
Pausing == [scopes |-> {"instant"}, init |-> "FINISHED", onCancel |-> FALSE]
Charging == [scopes |-> {"instant", "node"}, init |-> "RUNNING", onCancel |-> TRUE]
OrderExecutionTime == [scopes |-> {"instant"}, init |-> "FINISHED", onCancel |-> FALSE]

Definition(type) ==
    CASE type = "noop" -> Noop
      [] type \in {"pick", "drop"} -> PickOrDrop
      [] type = "initPosition" -> InitPosition
      [] type \in {"startPause", "stopPause"} -> Pausing
      [] type \in {"startCharging", "stopCharging"} -> Charging
      [] type = "orderExecutionTime" -> OrderExecutionTime

Types == {"noop", "pick", "drop", "initPosition", "startPause", "stopPause",
          "startCharging", "stopCharging", "orderExecutionTime"}

ASSUME DefinitionsAssumption == \A type \in Types : Definition(type) \in ActionDefinition
ASSUME ActionsAssumption ==
    /\ Type \in [ActionId -> Types]
    /\ \A a \in ActionId : Scope[a] \in Definition(Type[a]).scopes
ASSUME NumbersAssumption ==
    /\ {Duration, Distance, FullCharge} \subseteq Nat \ {0}
    /\ LowCharge \in Nat /\ Margin \in Nat
    /\ LowCharge <= FullCharge /\ Blocking \subseteq ActionId

VARIABLES
    vehicle,      \* _vehicleState: is it driving, paused, charging, loaded?
    reported,     \* the same, as last reported to the controller
    charge,       \* batteryCharge
    lowError,     \* _batteryLowError # undefined
    lowReported,  \* is batteryLowError among the errors of the reported state?
    machines,     \* _actionStateMachines
    status,       \* of each action as reported to the controller
    traversing,   \* _traverseContext # undefined
    distance,     \* distance left to the end node of the edge
    attached,     \* has the tick timer been started?
    phase,        \* what the tick in progress has come to, or "idle"
    next,         \* index of the state machine the tick advances next
    reacting,     \* has the tick just invoked a callback of the controller?
    crashed       \* has the timer callback thrown an error?

battery == <<charge, lowError, lowReported>>
edge == <<traversing, distance>>
timer == <<attached, phase, next>>
vars == <<vehicle, reported, battery, machines, status, edge, timer, reacting, crashed>>

Active == {"INITIALIZING", "RUNNING", "PAUSED"}
Ended == {"FINISHED", "FAILED"}

(* A state machine: the status to resume, the requests it has received and *)
(* the time spent in its status, which is the reported one: it reports     *)
(* each change.                                                            *)
Machine == [act : ActionId, onPause : {"INITIALIZING", "RUNNING", "FINISHED", "NONE"},
            pause : BOOLEAN, cancel : BOOLEAN, terminate : BOOLEAN,
            spent : 0..Duration]

TypeOK ==
    /\ {vehicle, reported} \subseteq
           [driving : BOOLEAN, paused : BOOLEAN, charging : BOOLEAN, loaded : BOOLEAN]
    /\ charge \in 0..FullCharge
    /\ lowError \in BOOLEAN /\ lowReported \in BOOLEAN
    /\ machines \in Seq(Machine)
    /\ status \in [ActionId -> Active \cup Ended \cup {"NONE", "EXECUTED"}]
    /\ traversing \in BOOLEAN /\ distance \in 0..Distance
    /\ attached \in BOOLEAN
    /\ phase \in {"idle", "actions", "charge"} /\ next \in Nat \ {0}
    /\ reacting \in BOOLEAN /\ crashed \in BOOLEAN

-----------------------------------------------------------------------------
(* Report the given parts of the vehicle's state. *)
Report(parts) ==
    reported' = [p \in DOMAIN reported |-> IF p \in parts THEN vehicle'[p] ELSE reported[p]]

Halt(v) == [v EXCEPT !.driving = FALSE]

(* The vehicle when an action of this type has finished.                   *)
LinkedState(type, v) ==
    CASE type = "pick" -> [v EXCEPT !.loaded = TRUE]
      [] type = "drop" -> [v EXCEPT !.loaded = FALSE]
      [] type = "startPause" /\ ~v.paused -> [Halt(v) EXCEPT !.paused = TRUE]
      [] type = "stopPause" -> [v EXCEPT !.paused = FALSE]
      [] type = "startCharging" /\ ~v.charging -> [Halt(v) EXCEPT !.charging = TRUE]
      [] type = "stopCharging" -> [v EXCEPT !.charging = FALSE]
      [] OTHER -> v

(* The parts of its state that are reported then.                          *)
Linked(type) ==
    CASE type \in {"pick", "drop"} -> {"loaded"}
      [] type = "startPause" -> {"paused", "driving"}
      [] type = "stopPause" -> {"paused"}
      [] type = "startCharging" -> {"charging", "driving"}
      [] type = "stopCharging" -> {"charging"}
      [] OTHER -> {}

-----------------------------------------------------------------------------
(* Calls of the controller. *)

MayCall == attached /\ ~crashed /\ (phase = "idle" \/ reacting)

(* An order's action for which the vehicle has to stand and the traversal  *)
(* of an edge exclude each other (StandsWhileBlocked of module AgvOrder).  *)
BlocksOrder(a) == Scope[a] # "instant" /\ a \in Blocking

(* Checked immediately before the action is executed: a reason to refuse   *)
(* it, with an order being active or not.                                  *)
Refused(type, scope, activeOrder) ==
    \/ type = "pick" /\ vehicle.loaded
    \/ type = "drop" /\ ~vehicle.loaded
    \/ type = "startPause" /\ vehicle.paused
    \/ type = "stopPause" /\ ~vehicle.paused
    \/ type = "startCharging" /\ (vehicle.charging \/ (activeOrder /\ scope = "instant"))
    \/ type = "stopCharging" /\ ~vehicle.charging

WrongStartsPaused(type) == FALSE
StartsPaused(type) == vehicle.paused /\ type \notin {"startPause", "stopPause"}

ExecuteAction(a, activeOrder) ==
    /\ MayCall
    /\ status[a] = "NONE"
    /\ BlocksOrder(a) => ~traversing
    /\ UNCHANGED <<battery, edge, timer, reacting, crashed>>
    /\ IF Refused(Type[a], Scope[a], activeOrder)
       THEN /\ status' = [status EXCEPT ![a] = "FAILED"]
            /\ UNCHANGED <<vehicle, reported, machines>>
       ELSE /\ status' = [status EXCEPT ![a] = "EXECUTED"]
            /\ machines' = Append(machines,
                   [act |-> a, onPause |-> "NONE",
                    pause |-> StartsPaused(Type[a]), cancel |-> FALSE, terminate |-> FALSE,
                    spent |-> 0])
            /\ vehicle' = IF a \in Blocking THEN Halt(vehicle) ELSE vehicle
            /\ Report({"driving"})

(* The requests a state machine receives; it meets them when it is ticked, *)
(* but cannot be canceled without ON_CANCEL.                               *)
Terminated(m) == [m EXCEPT !.terminate = TRUE]
Canceled(m) == [m EXCEPT !.cancel = @ \/ Definition(Type[m.act]).onCancel]
Suspended(m, pause) == [m EXCEPT !.pause = pause]

(* An edge action is to finish because its edge has been traversed: called *)
(* within edgeTraversed, which the adapter invokes when it arrives.        *)
FinishEdgeAction(a) ==
    /\ MayCall /\ phase = "charge"
    /\ Scope[a] = "edge" /\ ~traversing
    /\ machines' = [i \in DOMAIN machines |->
           IF machines[i].act = a THEN Terminated(machines[i]) ELSE machines[i]]
    /\ UNCHANGED <<vehicle, reported, battery, status, edge, timer, reacting, crashed>>

(* The order is being canceled.                                            *)
CancelAction(a) ==
    /\ MayCall
    /\ Scope[a] # "instant" /\ status[a] \in Active
    /\ machines' = [i \in DOMAIN machines |->
           IF machines[i].act = a THEN Canceled(machines[i]) ELSE machines[i]]
    /\ UNCHANGED <<vehicle, reported, battery, status, edge, timer, reacting, crashed>>

TraverseEdge ==
    /\ MayCall
    /\ ~traversing
    /\ \A a \in ActionId : BlocksOrder(a) => status[a] \in Ended \cup {"NONE"}
    /\ traversing' = TRUE
    /\ distance' = Distance
    /\ UNCHANGED <<vehicle, reported, battery, machines, status, timer, reacting, crashed>>

WrongStopTraverse ==
    /\ MayCall
    /\ \A a \in ActionId : Scope[a] # "instant" => status[a] \notin Active
    /\ traversing' = FALSE
    /\ distance' = 0
    /\ vehicle' = [Halt(vehicle) EXCEPT !.paused = FALSE]
    /\ Report({"driving"})
    /\ UNCHANGED <<battery, machines, status, timer, reacting, crashed>>

(* The order's actions have ended, and the vehicle stops at once.  Pause   *)
(* mode ends, but no state machine is told so.                             *)
StopTraverse ==
    /\ MayCall
    /\ \A a \in ActionId : Scope[a] # "instant" => status[a] \notin Active
    /\ traversing' = FALSE
    /\ distance' = 0
    /\ vehicle' = [Halt(vehicle) EXCEPT !.paused = FALSE]
    /\ Report({"driving", "paused"})
    /\ UNCHANGED <<battery, machines, status, timer, reacting, crashed>>

(* The vehicle and its state machines outlive a restart of the controller. *)
Attach ==
    /\ ~attached /\ ~crashed
    /\ attached' = TRUE
    /\ UNCHANGED <<vehicle, battery, machines, status, edge, phase, next, reacting, crashed>>
    /\ Report({"driving", "paused", "charging"})

Detach ==
    /\ attached /\ ~crashed /\ phase = "idle"
    /\ attached' = FALSE
    /\ UNCHANGED <<vehicle, reported, battery, machines, status, edge, phase, next, reacting, crashed>>

-----------------------------------------------------------------------------
(* A tick. *)

StartTick ==
    /\ attached /\ ~crashed /\ phase = "idle"
    /\ phase' = "actions" /\ reacting' = FALSE
    /\ UNCHANGED <<vehicle, reported, battery, machines, status, edge, attached, next, crashed>>

(* The state machine whose turn it is.  The for-of loop over the array     *)
(* goes on with the next index, although a machine that has ended is       *)
(* removed: the one after it has to wait for the next tick, while one that *)
(* is added is advanced in this one.                                       *)
Turn ==
    /\ phase = "actions" /\ ~crashed /\ next <= Len(machines)
    /\ next' = next + 1
    /\ UNCHANGED <<battery, edge, attached, phase>>

Current == machines[next]
IsPaused == status[Current.act] = "PAUSED"
CurrentDef == Definition(Type[Current.act])
OtherMachines == RemoveAt(machines, next)

(* Transition to FINISHED: the machine is removed, then the vehicle's      *)
(* state is changed and reported.                                          *)
Finish ==
    LET type == Type[Current.act] IN
    /\ machines' =
           IF type \in {"startPause", "stopPause"} /\ vehicle.paused = (type = "stopPause")
           THEN [i \in DOMAIN OtherMachines |->
                    Suspended(OtherMachines[i], type = "startPause")]
           ELSE OtherMachines
    /\ status' = [status EXCEPT ![Current.act] = "FINISHED"]
    /\ vehicle' = LinkedState(type, vehicle)
    /\ Report(Linked(type))
    /\ reacting' = TRUE /\ UNCHANGED crashed

(* Transition to INITIALIZING, RUNNING or PAUSED.                          *)
Enter(s, machine) ==
    /\ machines' = [machines EXCEPT ![next] = machine]
    /\ status' = [status EXCEPT ![Current.act] = s]
    /\ reacting' = FALSE
    /\ UNCHANGED <<vehicle, reported, crashed>>

EnterOrFinish(s, machine) == IF s = "FINISHED" THEN Finish ELSE Enter(s, machine)

Pauses ==
    /\ Turn /\ Current.pause /\ ~IsPaused
    /\ Enter("PAUSED", [Current EXCEPT !.onPause =
                 IF status[Current.act] = "EXECUTED" THEN CurrentDef.init ELSE status[Current.act]])

WrongResumes ==
    /\ Turn /\ ~Current.pause /\ IsPaused
    /\ EnterOrFinish("PAUSED", [Current EXCEPT !.onPause = "NONE"])

Resumes ==
    /\ Turn /\ ~Current.pause /\ IsPaused
    /\ EnterOrFinish(Current.onPause, [Current EXCEPT !.onPause = "NONE"])

Begins ==
    /\ Turn /\ ~Current.pause /\ status[Current.act] = "EXECUTED"
    /\ EnterOrFinish(CurrentDef.init, Current)

(* No change between running and paused is due, and execution has begun.   *)
Steady == Current.pause = IsPaused /\ status[Current.act] # "EXECUTED"

Fails ==
    /\ Turn /\ Steady /\ Current.cancel
    /\ machines' = OtherMachines
    /\ status' = [status EXCEPT ![Current.act] = "FAILED"]
    /\ reacting' = TRUE
    /\ UNCHANGED <<vehicle, reported, crashed>>

(* ON_TERMINATE is read and missing: TypeError in the timer's callback.    *)
Throws ==
    /\ Turn /\ Steady /\ ~Current.cancel /\ Current.terminate
    /\ crashed' = TRUE
    /\ UNCHANGED <<vehicle, reported, machines, status, reacting>>

Works ==
    /\ Turn /\ Steady /\ ~Current.cancel /\ ~Current.terminate
    /\ IF IsPaused THEN Enter("PAUSED", Current)
       ELSE IF Current.spent + 1 < Duration
       THEN Enter(status[Current.act], [Current EXCEPT !.spent = @ + 1])
       ELSE EnterOrFinish(IF status[Current.act] = "INITIALIZING" THEN "RUNNING" ELSE "FINISHED",
                          [Current EXCEPT !.spent = 0])

-----------------------------------------------------------------------------
(* Traversal of the edge and charging of the battery. *)

Consumed == IF charge = 0 THEN 0 ELSE charge - 1

TraverseTick ==
    /\ phase = "actions" /\ ~crashed /\ next > Len(machines)
    /\ phase' = "charge" /\ next' = 1
    /\ UNCHANGED <<machines, status, attached, crashed>>

WrongDrives == traversing /\ ~vehicle.paused
Drives == traversing /\ ~vehicle.paused /\ ~vehicle.charging

Rests ==
    /\ TraverseTick
    /\ ~Drives \/ (~vehicle.driving /\ charge < LowCharge)
    /\ reacting' = FALSE
    /\ UNCHANGED <<vehicle, reported, battery, edge>>

DrivesOff ==
    /\ TraverseTick
    /\ Drives /\ ~vehicle.driving /\ charge >= LowCharge
    /\ vehicle' = [vehicle EXCEPT !.driving = TRUE]
    /\ Report({"driving"})
    /\ reacting' = FALSE
    /\ UNCHANGED <<battery, edge>>

Arrives ==
    /\ TraverseTick
    /\ Drives /\ vehicle.driving /\ distance <= 1
    /\ charge' = Consumed
    /\ vehicle' = Halt(vehicle)
    /\ Report({"driving"})
    /\ traversing' = FALSE /\ distance' = 0
    /\ reacting' = TRUE
    /\ UNCHANGED <<lowError, lowReported>>

Moves ==
    /\ TraverseTick
    /\ Drives /\ vehicle.driving /\ distance > 1
    /\ charge' = Consumed
    /\ distance' = distance - 1
    /\ IF charge < LowCharge
       THEN vehicle' = Halt(vehicle) /\ lowError' = TRUE /\ lowReported' = TRUE
       ELSE UNCHANGED <<vehicle, lowError, lowReported>>
    /\ Report({"driving"})
    /\ reacting' = FALSE
    /\ UNCHANGED traversing

(* The low battery error is forgotten once the charge is high enough, but  *)
(* removed from the reported state only if the charge is due to be         *)
(* reported with this tick, which it is with one in many.                  *)
AdvanceBatteryCharge ==
    /\ phase = "charge" /\ ~crashed
    /\ phase' = "idle" /\ reacting' = FALSE
    /\ UNCHANGED <<machines, status, edge, attached, next, crashed>>
    /\ IF ~vehicle.charging \/ vehicle.paused
       THEN UNCHANGED <<vehicle, reported, battery>>
       ELSE \E due \in BOOLEAN :
            LET full == charge + 1 >= FullCharge
                recovered == lowError /\ charge + 1 >= LowCharge + Margin
            IN  /\ charge' = IF full THEN FullCharge ELSE charge + 1
                /\ lowError' = (lowError /\ ~recovered)
                /\ lowReported' = (lowReported /\ ~(recovered /\ due))
                /\ vehicle' = [vehicle EXCEPT !.charging = ~full]
                /\ Report({"charging"})

-----------------------------------------------------------------------------
Init ==
    /\ vehicle = [driving |-> FALSE, paused |-> FALSE, charging |-> FALSE, loaded |-> FALSE]
    /\ reported = vehicle
    /\ charge = FullCharge /\ lowError = FALSE /\ lowReported = FALSE
    /\ machines = <<>> /\ status = [a \in ActionId |-> "NONE"]
    /\ traversing = FALSE /\ distance = 0
    /\ attached = FALSE /\ phase = "idle" /\ next = 1
    /\ reacting = FALSE /\ crashed = FALSE

Tick ==
    \/ StartTick
    \/ Pauses \/ Resumes \/ Begins \/ Fails \/ Throws \/ Works
    \/ Rests \/ DrivesOff \/ Arrives \/ Moves
    \/ AdvanceBatteryCharge

Call ==
    \/ \E a \in ActionId :
           \/ \E activeOrder \in BOOLEAN : ExecuteAction(a, activeOrder)
           \/ FinishEdgeAction(a) \/ CancelAction(a)
    \/ TraverseEdge \/ StopTraverse \/ Attach \/ Detach

Next == Tick \/ Call

Spec == Init /\ [][Next]_vars

(* The timer issues ticks while it is started, and a tick comes to an end. *)
FairSpec == Spec /\ WF_vars(Tick)
-----------------------------------------------------------------------------
(* Properties. *)

(* The vehicle drives only along an edge it is to traverse, and neither in *)
(* pause mode nor while its battery is charged, whatever the order of      *)
(* ticks, instant actions, arrivals and stops ("Vehicle must stand still", *)
(* "Charging is done on a charging spot (vehicle standing)").              *)
StandsStill == vehicle.driving => traversing /\ ~vehicle.paused /\ ~vehicle.charging

(* The master control sees the vehicle as it is: each change of its state  *)
(* is reported, those by stopTraverse and by the full battery included.    *)
ReportsVehicle == attached => reported = vehicle

(* In pause mode no action makes progress: state machines that exist, and  *)
(* those added later, only pause, fail, or change the pause mode.          *)
PauseHolds ==
    [][vehicle.paused /\ vehicle'.paused =>
          \A a \in ActionId :
              \/ status'[a] \in {status[a], "EXECUTED", "PAUSED", "FAILED"}
              \/ Type[a] \in {"startPause", "stopPause"}]_vars

(* interface AgvAdapter, executeAction: "If pause mode is deactivated, the *)
(* action should transition to the previous status again."  Each action    *)
(* that is executed ends, unless the vehicle stays in pause mode or the    *)
(* adapter is detached.  The code violates it in two ways: stopTraverse    *)
(* ends pause mode and leaves the machines paused, and the callback of the *)
(* timer may throw.                                                        *)
ActionsEnd ==
    \A a \in ActionId :
        []<>(status[a] \in Ended \cup {"NONE"} \/ vehicle.paused \/ ~attached)

(* VirtualActionTransitions: ON_TERMINATE is "mandatory for edge actions",  *)
(* so that the callback of the timer never throws.  The code violates it:  *)
(* the predefined noop is an edge action without ON_TERMINATE.             *)
TimerRuns == ~crashed
=============================================================================
