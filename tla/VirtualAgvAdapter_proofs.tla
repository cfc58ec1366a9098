----------------------- MODULE VirtualAgvAdapter_proofs -----------------------
(***************************************************************************)
(* The simulated vehicle stands still when it has to and is reported as it *)
(* is, and in pause mode no action makes progress, for every set of        *)
(* actions, every duration and distance, and every capacity of the         *)
(* battery.  The invariants are inductive together with the types of the   *)
(* records they relate.                                                    *)
(***************************************************************************)
EXTENDS VirtualAgvAdapter, SequenceTheorems, TLAPS

Parts == {"driving", "paused", "charging", "loaded"}
Vehicle == [driving : BOOLEAN, paused : BOOLEAN, charging : BOOLEAN, loaded : BOOLEAN]

VInv ==
    /\ vehicle \in Vehicle
    /\ StandsStill
    /\ reported = vehicle

(* What is left as it was need not be reported again.                      *)
LEMMA ReportsChange ==
    ASSUME VInv, vehicle' \in Vehicle, NEW parts, Report(parts),
           \A p \in Parts \ parts : vehicle'[p] = vehicle[p]
    PROVE  reported' = vehicle'
<1>1. /\ DOMAIN reported = Parts
      /\ \A p \in Parts : reported'[p] = vehicle'[p]
  BY DEF VInv, Vehicle, Report, Parts
<1>2. reported' = [p \in Parts |-> vehicle'[p]]
  BY <1>1 DEF Report
<1>3. vehicle' = [p \in Parts |-> vehicle'[p]]
  BY DEF Vehicle, Parts
<1> QED  BY <1>2, <1>3

(* A finished action leaves a vehicle that stands still if it has to, and  *)
(* changes no part of its state but those it reports.                      *)
LEMMA LinkedStateStands ==
    ASSUME NEW v \in Vehicle, NEW type
    PROVE  LET w == LinkedState(type, v) IN
           /\ w \in Vehicle
           /\ w.driving => v.driving /\ (w.paused => v.paused) /\ (w.charging => v.charging)
           /\ \A p \in Parts \ Linked(type) : w[p] = v[p]
<1> DEFINE w == LinkedState(type, v)
<1>1. CASE type \in {"pick", "drop"}
  BY <1>1 DEF LinkedState, Linked, Vehicle, Parts
<1>2. CASE type = "startPause"
  <2>1. CASE v.paused
    <3>1. w = v  BY <1>2, <2>1 DEF LinkedState
    <3> QED  BY <3>1
  <2>2. CASE ~v.paused
    <3>1. w = [Halt(v) EXCEPT !.paused = TRUE]  BY <1>2, <2>2 DEF LinkedState
    <3>2. Linked(type) = {"paused", "driving"}  BY <1>2 DEF Linked
    <3> QED  BY <3>1, <3>2 DEF Halt, Vehicle, Parts
  <2> QED  BY <2>1, <2>2
<1>3. CASE type = "startCharging"
  <2>1. CASE v.charging
    <3>1. w = v  BY <1>3, <2>1 DEF LinkedState
    <3> QED  BY <3>1
  <2>2. CASE ~v.charging
    <3>1. w = [Halt(v) EXCEPT !.charging = TRUE]  BY <1>3, <2>2 DEF LinkedState
    <3>2. Linked(type) = {"charging", "driving"}  BY <1>3 DEF Linked
    <3> QED  BY <3>1, <3>2 DEF Halt, Vehicle, Parts
  <2> QED  BY <2>1, <2>2
<1>4. CASE type \in {"stopPause", "stopCharging"}
  BY <1>4 DEF LinkedState, Linked, Vehicle, Parts
<1>5. CASE type \notin {"pick", "drop", "startPause", "stopPause", "startCharging", "stopCharging"}
  <2>1. w = v  BY <1>5 DEF LinkedState
  <2> QED  BY <2>1
<1> QED  BY <1>1, <1>2, <1>3, <1>4, <1>5

(* A vehicle that is halted stands still, whatever else it does.           *)
LEMMA HaltStands ==
    ASSUME NEW v \in Vehicle
    PROVE  /\ Halt(v) \in Vehicle /\ ~Halt(v).driving
           /\ \A p \in Parts \ {"driving"} : Halt(v)[p] = v[p]
  BY DEF Halt, Vehicle, Parts

-----------------------------------------------------------------------------
LEMMA FinishKeeps ==
    ASSUME VInv, Finish, traversing' = traversing
    PROVE  VInv'
<1> DEFINE type == Type[Current.act]
<1>1. vehicle' = LinkedState(type, vehicle) /\ Report(Linked(type))
  BY DEF Finish
<1>2. /\ vehicle' \in Vehicle
      /\ vehicle'.driving => /\ vehicle.driving
                             /\ vehicle'.paused => vehicle.paused
                             /\ vehicle'.charging => vehicle.charging
      /\ \A p \in Parts \ Linked(type) : vehicle'[p] = vehicle[p]
  BY <1>1, LinkedStateStands DEF VInv
<1>3. reported' = vehicle'  BY <1>1, <1>2, ReportsChange
<1>4. StandsStill'  BY <1>2 DEF VInv, StandsStill
<1> QED  BY <1>2, <1>3, <1>4 DEF VInv

LEMMA SameVehicleKeeps ==
    ASSUME VInv, UNCHANGED <<vehicle, reported>>, traversing => traversing'
    PROVE  VInv'
  BY DEF VInv, StandsStill

LEMMA EnterOrFinishKeeps ==
    ASSUME VInv, traversing' = traversing, NEW s, NEW machine, EnterOrFinish(s, machine)
    PROVE  VInv'
<1>1. CASE Finish  BY <1>1, FinishKeeps
<1>2. CASE Enter(s, machine)  BY <1>2, SameVehicleKeeps DEF Enter
<1> QED  BY <1>1, <1>2 DEF EnterOrFinish

-----------------------------------------------------------------------------
(* The calls of the controller.                                            *)
LEMMA CallKeeps ==
    ASSUME VInv, Call
    PROVE  VInv'
<1>1. ASSUME NEW a \in ActionId, NEW activeOrder \in BOOLEAN, ExecuteAction(a, activeOrder)
      PROVE  VInv'
  <2>1. traversing' = traversing  BY <1>1 DEF ExecuteAction, edge
  <2>2. CASE Refused(Type[a], Scope[a], activeOrder)
    BY <1>1, <2>1, <2>2, SameVehicleKeeps DEF ExecuteAction
  <2>3. CASE ~Refused(Type[a], Scope[a], activeOrder)
    <3>1. /\ vehicle' = IF a \in Blocking THEN Halt(vehicle) ELSE vehicle
          /\ Report({"driving"})
      BY <1>1, <2>3 DEF ExecuteAction
    <3>2. /\ vehicle' \in Vehicle /\ (vehicle'.driving => vehicle' = vehicle)
          /\ \A p \in Parts \ {"driving"} : vehicle'[p] = vehicle[p]
      BY <3>1, HaltStands DEF VInv
    <3>3. reported' = vehicle'  BY <3>1, <3>2, ReportsChange
    <3> QED  BY <2>1, <3>2, <3>3 DEF VInv, StandsStill
  <2> QED  BY <2>2, <2>3
<1>2. ASSUME NEW a \in ActionId, FinishEdgeAction(a) \/ CancelAction(a)
      PROVE  VInv'
  BY <1>2, SameVehicleKeeps DEF FinishEdgeAction, CancelAction, edge
<1>3. CASE TraverseEdge
  BY <1>3, SameVehicleKeeps DEF TraverseEdge
<1>4. CASE StopTraverse
  <2>1. vehicle' = [Halt(vehicle) EXCEPT !.paused = FALSE] /\ Report({"driving", "paused"})
    BY <1>4 DEF StopTraverse
  <2>2. /\ vehicle' \in Vehicle /\ ~vehicle'.driving
        /\ \A p \in Parts \ {"driving", "paused"} : vehicle'[p] = vehicle[p]
    BY <2>1 DEF VInv, Vehicle, Halt, Parts
  <2>3. reported' = vehicle'  BY <2>1, <2>2, ReportsChange
  <2> QED  BY <2>2, <2>3 DEF VInv, StandsStill
<1>5. CASE Attach
  <2>1. reported' = vehicle'  BY <1>5, ReportsChange DEF Attach, VInv
  <2> QED  BY <1>5, <2>1 DEF Attach, VInv, StandsStill, edge
<1>6. CASE Detach
  BY <1>6, SameVehicleKeeps DEF Detach, edge
<1> QED  BY <1>1, <1>2, <1>3, <1>4, <1>5, <1>6 DEF Call

-----------------------------------------------------------------------------
(* The ticks. *)
LEMMA TurnKeeps ==
    ASSUME VInv, Pauses \/ Resumes \/ Begins \/ Fails \/ Throws \/ Works
    PROVE  VInv'
<1>1. traversing' = traversing
  BY DEF Pauses, Resumes, Begins, Fails, Throws, Works, Turn, edge
<1>2. CASE Pauses
  BY <1>1, <1>2, SameVehicleKeeps DEF Pauses, Enter
<1>3. CASE Resumes
  BY <1>1, <1>3, EnterOrFinishKeeps DEF Resumes
<1>4. CASE Begins
  BY <1>1, <1>4, EnterOrFinishKeeps DEF Begins
<1>5. CASE Fails \/ Throws
  BY <1>1, <1>5, SameVehicleKeeps DEF Fails, Throws
<1>6. CASE Works
  <2>1. CASE IsPaused
    BY <1>1, <1>6, <2>1, SameVehicleKeeps DEF Works, Enter
  <2>2. CASE ~IsPaused /\ Current.spent + 1 < Duration
    BY <1>1, <1>6, <2>2, SameVehicleKeeps DEF Works, Enter
  <2>3. CASE ~IsPaused /\ ~(Current.spent + 1 < Duration)
    BY <1>1, <1>6, <2>3, EnterOrFinishKeeps DEF Works
  <2> QED  BY <2>1, <2>2, <2>3
<1> QED  BY <1>2, <1>3, <1>4, <1>5, <1>6

LEMMA TraverseKeeps ==
    ASSUME VInv, Rests \/ DrivesOff \/ Arrives \/ Moves
    PROVE  VInv'
<1>1. CASE Rests
  BY <1>1, SameVehicleKeeps DEF Rests, edge
<1>2. CASE DrivesOff
  <2>1. vehicle' = [vehicle EXCEPT !.driving = TRUE] /\ Report({"driving"})
    BY <1>2 DEF DrivesOff
  <2>2. /\ vehicle' \in Vehicle /\ vehicle'.paused = vehicle.paused
        /\ vehicle'.charging = vehicle.charging
        /\ \A p \in Parts \ {"driving"} : vehicle'[p] = vehicle[p]
    BY <2>1 DEF VInv, Vehicle, Parts
  <2>3. reported' = vehicle'  BY <2>1, <2>2, ReportsChange
  <2>4. StandsStill'
    BY <1>2, <2>2 DEF DrivesOff, Drives, edge, StandsStill
  <2> QED  BY <2>2, <2>3, <2>4 DEF VInv
<1>3. CASE Arrives
  <2>1. vehicle' = Halt(vehicle) /\ Report({"driving"})
    BY <1>3 DEF Arrives
  <2>2. reported' = vehicle'  BY <2>1, HaltStands, ReportsChange DEF VInv
  <2> QED  BY <2>1, <2>2, HaltStands DEF VInv, StandsStill
<1>4. CASE Moves
  <2>1. (vehicle' = vehicle \/ vehicle' = Halt(vehicle)) /\ Report({"driving"})
    BY <1>4 DEF Moves
  <2>2. /\ vehicle' \in Vehicle /\ (vehicle'.driving => vehicle' = vehicle)
        /\ \A p \in Parts \ {"driving"} : vehicle'[p] = vehicle[p]
    BY <2>1, HaltStands DEF VInv
  <2>3. reported' = vehicle'  BY <2>1, <2>2, ReportsChange
  <2> QED  BY <1>4, <2>2, <2>3 DEF Moves, VInv, StandsStill
<1> QED  BY <1>1, <1>2, <1>3, <1>4

LEMMA ChargeKeeps ==
    ASSUME VInv, AdvanceBatteryCharge
    PROVE  VInv'
<1>1. traversing' = traversing  BY DEF AdvanceBatteryCharge, edge
<1>2. CASE ~vehicle.charging \/ vehicle.paused
  BY <1>1, <1>2, SameVehicleKeeps DEF AdvanceBatteryCharge
<1>3. CASE ~(~vehicle.charging \/ vehicle.paused)
  <2>1. vehicle' = [vehicle EXCEPT !.charging = ~(charge + 1 >= FullCharge)] /\ Report({"charging"})
    BY <1>3 DEF AdvanceBatteryCharge
  <2>2. /\ vehicle' \in Vehicle /\ vehicle'.driving = vehicle.driving
        /\ \A p \in Parts \ {"charging"} : vehicle'[p] = vehicle[p]
    BY <2>1 DEF VInv, Vehicle, Parts
  <2>3. reported' = vehicle'  BY <2>1, <2>2, ReportsChange
  <2>4. ~vehicle.driving  BY <1>3 DEF VInv, StandsStill
  <2> QED  BY <2>2, <2>3, <2>4 DEF VInv, StandsStill
<1> QED  BY <1>2, <1>3

-----------------------------------------------------------------------------
LEMMA InitV == Init => VInv
  BY DEF Init, VInv, Vehicle, StandsStill

LEMMA NextV == VInv /\ [Next]_vars => VInv'
<1> SUFFICES ASSUME VInv, [Next]_vars PROVE VInv'
  OBVIOUS
<1>1. CASE StartTick
  BY <1>1, SameVehicleKeeps DEF StartTick, edge
<1>2. CASE Pauses \/ Resumes \/ Begins \/ Fails \/ Throws \/ Works
  BY <1>2, TurnKeeps
<1>3. CASE Rests \/ DrivesOff \/ Arrives \/ Moves
  BY <1>3, TraverseKeeps
<1>4. CASE AdvanceBatteryCharge
  BY <1>4, ChargeKeeps
<1>5. CASE Call
  BY <1>5, CallKeeps
<1>6. CASE UNCHANGED vars
  BY <1>6, SameVehicleKeeps DEF vars, edge
<1> QED  BY <1>1, <1>2, <1>3, <1>4, <1>5, <1>6 DEF Next, Tick

LEMMA VInvariant == Spec => []VInv
  BY InitV, NextV, PTL DEF Spec

(* Whatever the master control and the controller ask for, and in whatever *)
(* order ticks and calls come, the vehicle drives only along an edge it is *)
(* to traverse, unpaused and uncharged.                                    *)
THEOREM VehicleStandsStill == Spec => []StandsStill
<1>1. VInv => StandsStill  BY DEF VInv
<1> QED  BY <1>1, VInvariant, PTL

(* The controller, and through its state messages the master control, sees *)
(* the vehicle's state as it is.                                           *)
THEOREM VehicleReported == Spec => []ReportsVehicle
<1>1. VInv => ReportsVehicle  BY DEF VInv, ReportsVehicle
<1> QED  BY <1>1, VInvariant, PTL

-----------------------------------------------------------------------------
(* The state machines: requests, statuses and the time spent are of their  *)
(* types, whatever is added, removed or suspended.                         *)

(* The element after the one that is removed takes its place.              *)
LEMMA RemoveAtMoves ==
    ASSUME NEW S, NEW seq \in Seq(S), NEW i \in 1..Len(seq)
    PROVE  /\ RemoveAt(seq, i) \in Seq(S)
           /\ Len(RemoveAt(seq, i)) = Len(seq) - 1
           /\ \A k \in 1..(Len(seq) - 1) : RemoveAt(seq, i)[k] = seq[IF k < i THEN k ELSE k + 1]
<1> DEFINE p == SubSeq(seq, 1, i - 1)
           q == SubSeq(seq, i + 1, Len(seq))
<1>1. i \in Nat /\ Len(seq) \in Nat /\ 1 <= i /\ i <= Len(seq)
  BY LenProperties
<1>2. /\ p \in Seq(S) /\ Len(p) = i - 1
      /\ \A k \in 1..(i - 1) : p[k] = seq[k]
  BY SubSeqProperties
<1>3. /\ q \in Seq(S) /\ Len(q) = Len(seq) - i
      /\ \A k \in 1..(Len(seq) - i) : q[k] = seq[i + k]
  BY SubSeqProperties
<1>4. RemoveAt(seq, i) = p \o q
  BY DEF RemoveAt
<1>5. /\ p \o q \in Seq(S) /\ Len(p \o q) = Len(p) + Len(q)
      /\ \A k \in 1..(Len(p) + Len(q)) :
            (p \o q)[k] = IF k <= Len(p) THEN p[k] ELSE q[k - Len(p)]
  BY <1>2, <1>3, ConcatProperties
<1> HIDE DEF p, q
<1>6. ASSUME NEW k \in 1..(Len(seq) - 1)
      PROVE  (p \o q)[k] = seq[IF k < i THEN k ELSE k + 1]
  <2>1. CASE k < i
    BY <1>1, <1>2, <1>3, <1>5, <2>1
  <2>2. CASE ~(k < i)
    <3>1. (p \o q)[k] = q[k - (i - 1)]
      BY <1>1, <1>2, <1>3, <1>5, <2>2
    <3>2. k - (i - 1) \in 1..(Len(seq) - i) /\ i + (k - (i - 1)) = k + 1
      BY <1>1, <2>2
    <3> QED  BY <1>3, <2>2, <3>1, <3>2
  <2> QED  BY <2>1, <2>2
<1> QED  BY <1>1, <1>2, <1>3, <1>4, <1>5, <1>6

Statuses == Active \cup Ended \cup {"NONE", "EXECUTED"}
Pausers == {"startPause", "stopPause"}

(* State machines ms fit the reported statuses st and a vehicle v: there   *)
(* is at most one for each action, its action is executed and has not      *)
(* ended, the status to resume is known while it is paused, and in pause   *)
(* mode the request to pause has reached it.                               *)
Fit(ms, st, v) ==
    /\ ms \in Seq(Machine)
    /\ st \in [ActionId -> Statuses]
    /\ \A i, j \in 1..Len(ms) : ms[i].act = ms[j].act => i = j
    /\ \A i \in 1..Len(ms) :
          /\ st[ms[i].act] \in Active \cup {"EXECUTED"}
          /\ st[ms[i].act] = "PAUSED" => ms[i].onPause # "NONE"
          /\ v.paused => ms[i].pause \/ Type[ms[i].act] \in Pausers

(* The machine of an action that has ended is removed. *)
LEMMA FitWithout ==
    ASSUME NEW ms, NEW st, NEW v, Fit(ms, st, v), NEW i \in 1..Len(ms), NEW s \in Statuses
    PROVE  Fit(RemoveAt(ms, i), [st EXCEPT ![ms[i].act] = s], v)
<1> DEFINE ns == RemoveAt(ms, i)
           Old(k) == IF k < i THEN k ELSE k + 1
           nt == [st EXCEPT ![ms[i].act] = s]
<1>1. ms \in Seq(Machine) /\ Len(ms) \in Nat /\ i \in Nat
  BY LenProperties DEF Fit
<1>2. /\ ns \in Seq(Machine) /\ Len(ns) = Len(ms) - 1
      /\ \A k \in 1..Len(ns) : ns[k] = ms[Old(k)]
  BY <1>1, RemoveAtMoves
<1>3. \A k \in 1..Len(ns) : Old(k) \in 1..Len(ms) /\ Old(k) # i
  BY <1>1, <1>2
<1>4. \A k, l \in 1..Len(ns) : Old(k) = Old(l) => k = l
  BY <1>1, <1>2
<1>5. \A k \in 1..Len(ms) : ms[k] \in Machine
  BY <1>1, ElementOfSeq
<1>6. \A k \in 1..Len(ms) : ms[k].act \in ActionId
  BY <1>5 DEF Machine
<1>7. nt \in [ActionId -> Statuses]
  BY <1>6 DEF Fit
<1> HIDE DEF ns, Old
<1>8. \A k, l \in 1..Len(ns) : ns[k].act = ns[l].act => k = l
  <2> SUFFICES ASSUME NEW k \in 1..Len(ns), NEW l \in 1..Len(ns), ns[k].act = ns[l].act
               PROVE  k = l
    OBVIOUS
  <2>1. ms[Old(k)].act = ms[Old(l)].act  BY <1>2
  <2> QED  BY <1>3, <1>4, <2>1 DEF Fit
<1>9. \A k \in 1..Len(ns) : nt[ns[k].act] = st[ns[k].act]
  <2> SUFFICES ASSUME NEW k \in 1..Len(ns) PROVE nt[ns[k].act] = st[ns[k].act]
    OBVIOUS
  <2>1. ns[k].act # ms[i].act  BY <1>2, <1>3 DEF Fit
  <2> QED  BY <1>2, <1>3, <1>6, <2>1 DEF Fit
<1>10. \A k \in 1..Len(ns) :
          /\ st[ns[k].act] \in Active \cup {"EXECUTED"}
          /\ st[ns[k].act] = "PAUSED" => ns[k].onPause # "NONE"
          /\ v.paused => ns[k].pause \/ Type[ns[k].act] \in Pausers
  BY <1>2, <1>3 DEF Fit
<1> HIDE DEF nt
<1>11. Fit(ns, nt, v)
  BY <1>2, <1>7, <1>8, <1>9, <1>10 DEF Fit
<1> QED  BY <1>11 DEF ns, nt

(* Requests reach the machines, and no action changes its status.          *)
LEMMA FitRequests ==
    ASSUME NEW ms, NEW st, NEW v, Fit(ms, st, v), NEW w,
           NEW ns \in [DOMAIN ms -> Machine],
           \A i \in DOMAIN ms :
              /\ ns[i].act = ms[i].act /\ ns[i].onPause = ms[i].onPause
              /\ w.paused => ns[i].pause \/ (v.paused /\ ns[i].pause = ms[i].pause)
    PROVE  Fit(ns, st, w)
<1>1. ms \in Seq(Machine) /\ DOMAIN ms = 1..Len(ms) /\ Len(ms) \in Nat
  BY LenProperties DEF Fit
<1>2. ns \in Seq(Machine) /\ Len(ns) = Len(ms)
  BY <1>1, IsASeq, LenProperties
<1> QED  BY <1>1, <1>2 DEF Fit

(* A machine enters status s.                                              *)
LEMMA FitReplaced ==
    ASSUME NEW ms, NEW st, NEW v, Fit(ms, st, v), NEW i \in 1..Len(ms),
           NEW m \in Machine, m.act = ms[i].act, m.pause = ms[i].pause,
           NEW s \in Active, s = "PAUSED" => m.onPause # "NONE"
    PROVE  Fit([ms EXCEPT ![i] = m], [st EXCEPT ![ms[i].act] = s], v)
<1> DEFINE ns == [ms EXCEPT ![i] = m]
           nt == [st EXCEPT ![ms[i].act] = s]
<1>1. ms \in Seq(Machine) /\ DOMAIN ms = 1..Len(ms) /\ Len(ms) \in Nat
  BY LenProperties DEF Fit
<1>2. ns \in Seq(Machine) /\ Len(ns) = Len(ms)
  BY <1>1, ExceptSeq
<1>3. \A k \in 1..Len(ms) : ns[k] = IF k = i THEN m ELSE ms[k]
  BY <1>1
<1>4. \A k \in 1..Len(ms) : ms[k].act \in ActionId
  <2>1. \A k \in 1..Len(ms) : ms[k] \in Machine  BY <1>1, ElementOfSeq
  <2> QED  BY <2>1 DEF Machine
<1>5. nt \in [ActionId -> Statuses] /\ \A a \in ActionId : nt[a] = IF a = ms[i].act THEN s ELSE st[a]
  BY <1>4 DEF Fit, Statuses
<1> HIDE DEF ns, nt
<1>6. \A k \in 1..Len(ms) : ns[k].act = ms[k].act
  BY <1>3
<1>7. \A k \in 1..Len(ms) : k # i => ms[k].act # ms[i].act
  BY DEF Fit
<1>8. ASSUME NEW k \in 1..Len(ms)
      PROVE  /\ nt[ns[k].act] \in Active \cup {"EXECUTED"}
             /\ nt[ns[k].act] = "PAUSED" => ns[k].onPause # "NONE"
             /\ v.paused => ns[k].pause \/ Type[ns[k].act] \in Pausers
  <2>1. CASE k = i
    BY <1>3, <1>4, <1>5, <2>1 DEF Fit
  <2>2. CASE k # i
    BY <1>3, <1>4, <1>5, <1>7, <2>2 DEF Fit
  <2> QED  BY <2>1, <2>2
<1>9. Fit(ns, nt, v)
  BY <1>2, <1>5, <1>6, <1>8 DEF Fit
<1> QED  BY <1>9 DEF ns, nt

(* A machine is added for an action that has not been executed before.     *)
LEMMA FitAdded ==
    ASSUME NEW ms, NEW st, NEW v, Fit(ms, st, v),
           NEW m \in Machine, st[m.act] = "NONE",
           v.paused => m.pause \/ Type[m.act] \in Pausers
    PROVE  Fit(Append(ms, m), [st EXCEPT ![m.act] = "EXECUTED"], v)
<1> DEFINE ns == Append(ms, m)
           nt == [st EXCEPT ![m.act] = "EXECUTED"]
<1>1. ms \in Seq(Machine) /\ Len(ms) \in Nat /\ m.act \in ActionId
  BY LenProperties DEF Fit, Machine
<1>2. /\ ns \in Seq(Machine) /\ Len(ns) = Len(ms) + 1
      /\ \A k \in 1..Len(ms) : ns[k] = ms[k]
      /\ ns[Len(ms) + 1] = m
  BY <1>1, AppendProperties
<1>3. \A k \in 1..Len(ms) : ms[k].act \in ActionId
  <2>1. \A k \in 1..Len(ms) : ms[k] \in Machine  BY <1>1, ElementOfSeq
  <2> QED  BY <2>1 DEF Machine
<1>4. nt \in [ActionId -> Statuses] /\ \A a \in ActionId : nt[a] = IF a = m.act THEN "EXECUTED" ELSE st[a]
  BY <1>1 DEF Fit, Statuses
<1>5. \A k \in 1..Len(ms) : ms[k].act # m.act
  BY DEF Fit, Active
<1> HIDE DEF ns, nt
<1>6. \A k \in 1..Len(ns) : k \in 1..Len(ms) \/ k = Len(ms) + 1
  BY <1>1, <1>2
<1>7. \A k, l \in 1..Len(ns) : ns[k].act = ns[l].act => k = l
  BY <1>2, <1>5, <1>6 DEF Fit
<1>8. ASSUME NEW k \in 1..Len(ns)
      PROVE  /\ nt[ns[k].act] \in Active \cup {"EXECUTED"}
             /\ nt[ns[k].act] = "PAUSED" => ns[k].onPause # "NONE"
             /\ v.paused => ns[k].pause \/ Type[ns[k].act] \in Pausers
  <2>1. CASE k \in 1..Len(ms)
    BY <1>2, <1>3, <1>4, <1>5, <2>1 DEF Fit
  <2>2. CASE k = Len(ms) + 1
    BY <1>1, <1>2, <1>4, <2>2
  <2> QED  BY <1>6, <2>1, <2>2
<1>9. Fit(ns, nt, v)
  BY <1>2, <1>4, <1>7, <1>8 DEF Fit
<1> QED  BY <1>9 DEF ns, nt

-----------------------------------------------------------------------------
Numbers ==
    /\ charge \in 0..FullCharge /\ lowError \in BOOLEAN /\ lowReported \in BOOLEAN
    /\ traversing \in BOOLEAN /\ distance \in 0..Distance
    /\ attached \in BOOLEAN /\ crashed \in BOOLEAN /\ reacting \in BOOLEAN
    /\ phase \in {"idle", "actions", "charge"} /\ next \in Nat \ {0}

AInv == VInv /\ Numbers /\ Fit(machines, status, vehicle)

LEMMA DefinitionTyped ==
    ASSUME NEW a \in ActionId
    PROVE  Definition(Type[a]).init \in {"INITIALIZING", "RUNNING", "FINISHED"}
<1>1. Definition(Type[a]) \in ActionDefinition
  BY DefinitionsAssumption, ActionsAssumption
<1> QED  BY <1>1 DEF ActionDefinition

(* What holds of the machine whose turn it is.                             *)
LEMMA CurrentFits ==
    ASSUME AInv, Turn
    PROVE  /\ next \in 1..Len(machines) /\ DOMAIN machines = 1..Len(machines)
           /\ Current \in Machine /\ Current.act \in ActionId
           /\ Current.onPause \in {"INITIALIZING", "RUNNING", "FINISHED", "NONE"}
           /\ Current.spent \in 0..Duration
           /\ status[Current.act] \in Active \cup {"EXECUTED"}
           /\ IsPaused => Current.onPause # "NONE"
           /\ vehicle.paused => Current.pause \/ Type[Current.act] \in Pausers
<1>1. machines \in Seq(Machine) /\ Len(machines) \in Nat /\ DOMAIN machines = 1..Len(machines)
  BY LenProperties DEF AInv, Fit
<1>2. next \in 1..Len(machines)
  BY <1>1 DEF AInv, Numbers, Turn
<1>3. Current \in Machine
  BY <1>1, <1>2, ElementOfSeq DEF Current
<1> QED  BY <1>1, <1>2, <1>3 DEF Current, Machine, AInv, Fit, IsPaused

(* Only startPause begins pause mode.                                      *)
LEMMA LinkedStatePaused ==
    ASSUME NEW v \in Vehicle, NEW type
    PROVE  LET w == LinkedState(type, v) IN
           /\ w.paused => v.paused \/ type = "startPause"
           /\ type = "stopPause" => ~w.paused
<1>1. CASE type = "startPause"  BY <1>1
<1>2. CASE type = "startCharging"
  <2>1. LinkedState(type, v) \in {v, [Halt(v) EXCEPT !.charging = TRUE]}
    BY <1>2 DEF LinkedState
  <2> QED  BY <1>2, <2>1 DEF Halt, Vehicle
<1>3. CASE type \in {"pick", "drop", "stopPause", "stopCharging"}
  BY <1>3 DEF LinkedState, Vehicle
<1>4. CASE type \notin {"pick", "drop", "startPause", "stopPause", "startCharging", "stopCharging"}
  <2>1. LinkedState(type, v) = v  BY <1>4 DEF LinkedState
  <2> QED  BY <1>4, <2>1
<1> QED  BY <1>1, <1>2, <1>3, <1>4

LEMMA FinishFits ==
    ASSUME AInv, Turn, Finish
    PROVE  Fit(machines', status', vehicle')
<1> DEFINE type == Type[Current.act]
<1>1. /\ status' = [status EXCEPT ![Current.act] = "FINISHED"]
      /\ vehicle' = LinkedState(type, vehicle)
  BY DEF Finish
<1>2. Fit(OtherMachines, status', vehicle)
  BY <1>1, CurrentFits, FitWithout DEF AInv, OtherMachines, Current, Statuses, Ended
<1>3. OtherMachines \in Seq(Machine) /\ OtherMachines \in [DOMAIN OtherMachines -> Machine]
  BY <1>2, LenProperties, ElementOfSeq DEF Fit
<1>4. /\ vehicle'.paused => vehicle.paused \/ type = "startPause"
      /\ type = "stopPause" => ~vehicle'.paused
  BY <1>1, LinkedStatePaused DEF AInv, VInv
<1>5. CASE type \in {"startPause", "stopPause"} /\ vehicle.paused = (type = "stopPause")
  <2> DEFINE ns == [i \in DOMAIN OtherMachines |->
                       Suspended(OtherMachines[i], type = "startPause")]
  <2>1. machines' = ns
    BY <1>5 DEF Finish
  <2>2. ns \in [DOMAIN OtherMachines -> Machine]
    BY <1>3 DEF Suspended, Machine
  <2>3. ASSUME NEW i \in DOMAIN OtherMachines
        PROVE  /\ ns[i].act = OtherMachines[i].act /\ ns[i].onPause = OtherMachines[i].onPause
               /\ vehicle'.paused => ns[i].pause
    BY <1>3, <1>4, <1>5 DEF Suspended, Machine
  <2> HIDE DEF ns
  <2> QED  BY <1>2, <2>1, <2>2, <2>3, FitRequests
<1>6. CASE ~(type \in {"startPause", "stopPause"} /\ vehicle.paused = (type = "stopPause"))
  <2>1. machines' = OtherMachines
    BY <1>6 DEF Finish
  <2>2. vehicle'.paused => vehicle.paused
    BY <1>4, <1>6 DEF AInv, VInv, Vehicle
  <2> QED  BY <1>2, <1>3, <2>1, <2>2, FitRequests
<1> QED  BY <1>5, <1>6

LEMMA EnterFits ==
    ASSUME AInv, Turn, NEW s \in Active, NEW m \in Machine, Enter(s, m),
           m.act = Current.act, m.pause = Current.pause, s = "PAUSED" => m.onPause # "NONE"
    PROVE  Fit(machines', status', vehicle')
<1>1. /\ machines' = [machines EXCEPT ![next] = m]
      /\ status' = [status EXCEPT ![Current.act] = s]
      /\ vehicle' = vehicle
  BY DEF Enter
<1> QED  BY <1>1, CurrentFits, FitReplaced DEF AInv, Current

LEMMA TurnFits ==
    ASSUME AInv, Pauses \/ Resumes \/ Begins \/ Fails \/ Throws \/ Works
    PROVE  Fit(machines', status', vehicle')
<1>1. Turn
  BY DEF Pauses, Resumes, Begins, Fails, Throws, Works
<1>2. CASE Pauses
  <2> DEFINE m == [Current EXCEPT !.onPause =
                     IF status[Current.act] = "EXECUTED" THEN CurrentDef.init
                     ELSE status[Current.act]]
  <2>1. Enter("PAUSED", m) /\ ~IsPaused
    BY <1>2 DEF Pauses
  <2>2. CurrentDef.init \in {"INITIALIZING", "RUNNING", "FINISHED"}
    BY <1>1, CurrentFits, DefinitionTyped DEF CurrentDef
  <2>3. (IF status[Current.act] = "EXECUTED" THEN CurrentDef.init ELSE status[Current.act])
           \in {"INITIALIZING", "RUNNING", "FINISHED"}
    BY <1>1, <2>1, <2>2, CurrentFits DEF IsPaused, Active
  <2>4. m \in Machine /\ m.act = Current.act /\ m.pause = Current.pause /\ m.onPause # "NONE"
    BY <1>1, <2>3, CurrentFits DEF Machine
  <2> HIDE DEF m
  <2> QED  BY <1>1, <2>1, <2>4, EnterFits DEF Active
<1>3. CASE Resumes
  <2> DEFINE m == [Current EXCEPT !.onPause = "NONE"]
  <2>1. EnterOrFinish(Current.onPause, m) /\ IsPaused
    BY <1>3 DEF Resumes
  <2>2. m \in Machine /\ m.act = Current.act /\ m.pause = Current.pause
    BY <1>1, CurrentFits DEF Machine
  <2>3. Current.onPause \in {"INITIALIZING", "RUNNING", "FINISHED"}
    BY <1>1, <2>1, CurrentFits
  <2> HIDE DEF m
  <2> QED  BY <1>1, <2>1, <2>2, <2>3, EnterFits, FinishFits DEF EnterOrFinish, Active
<1>4. CASE Begins
  <2>1. EnterOrFinish(CurrentDef.init, Current)
    BY <1>4 DEF Begins
  <2>2. CurrentDef.init \in {"INITIALIZING", "RUNNING", "FINISHED"}
    BY <1>1, CurrentFits, DefinitionTyped DEF CurrentDef
  <2> QED  BY <1>1, <2>1, <2>2, CurrentFits, EnterFits, FinishFits DEF EnterOrFinish, Active
<1>5. CASE Fails
  <2>1. Fit(OtherMachines, [status EXCEPT ![Current.act] = "FAILED"], vehicle)
    BY <1>1, CurrentFits, FitWithout DEF AInv, OtherMachines, Current, Statuses, Ended
  <2> QED  BY <1>5, <2>1 DEF Fails
<1>6. CASE Throws
  BY <1>6 DEF Throws, AInv
<1>7. CASE Works
  <2>1. CASE IsPaused
    BY <1>1, <1>7, <2>1, CurrentFits, EnterFits DEF Works, Active
  <2>2. CASE ~IsPaused /\ Current.spent + 1 < Duration
    <3> DEFINE m == [Current EXCEPT !.spent = @ + 1]
    <3>1. Enter(status[Current.act], m) /\ status[Current.act] # "EXECUTED"
      BY <1>7, <2>2 DEF Works, Steady
    <3>2. Current.spent + 1 \in 0..Duration
      BY <1>1, <2>2, CurrentFits, NumbersAssumption
    <3>3. m \in Machine /\ m.act = Current.act /\ m.pause = Current.pause
      BY <1>1, <3>2, CurrentFits DEF Machine
    <3>4. status[Current.act] \in Active /\ status[Current.act] # "PAUSED"
      BY <1>1, <2>2, <3>1, CurrentFits DEF IsPaused
    <3> HIDE DEF m
    <3> QED  BY <1>1, <3>1, <3>3, <3>4, EnterFits
  <2>3. CASE ~IsPaused /\ ~(Current.spent + 1 < Duration)
    <3> DEFINE m == [Current EXCEPT !.spent = 0]
               s == IF status[Current.act] = "INITIALIZING" THEN "RUNNING" ELSE "FINISHED"
    <3>1. EnterOrFinish(s, m)
      BY <1>7, <2>3 DEF Works
    <3>2. m \in Machine /\ m.act = Current.act /\ m.pause = Current.pause
      BY <1>1, CurrentFits, NumbersAssumption DEF Machine
    <3>3. s \in {"RUNNING", "FINISHED"}
      OBVIOUS
    <3> HIDE DEF m, s
    <3> QED  BY <1>1, <3>1, <3>2, <3>3, EnterFits, FinishFits DEF EnterOrFinish, Active
  <2> QED  BY <2>1, <2>2, <2>3
<1> QED  BY <1>2, <1>3, <1>4, <1>5, <1>6, <1>7

LEMMA CallFits ==
    ASSUME AInv, Call
    PROVE  Fit(machines', status', vehicle')
<1>1. ASSUME NEW a \in ActionId, NEW activeOrder \in BOOLEAN, ExecuteAction(a, activeOrder)
      PROVE  Fit(machines', status', vehicle')
  <2>1. status[a] = "NONE"
    BY <1>1 DEF ExecuteAction
  <2>2. CASE Refused(Type[a], Scope[a], activeOrder)
    <3>1. /\ status' = [status EXCEPT ![a] = "FAILED"]
          /\ machines' = machines /\ vehicle' = vehicle
      BY <1>1, <2>2 DEF ExecuteAction
    <3>2. status' \in [ActionId -> Statuses] /\ \A b \in ActionId : b # a => status'[b] = status[b]
      BY <3>1 DEF AInv, Fit, Statuses, Ended
    <3>3. \A i \in 1..Len(machines) : machines[i].act \in ActionId
      <4>1. \A i \in 1..Len(machines) : machines[i] \in Machine
        BY ElementOfSeq DEF AInv, Fit
      <4> QED  BY <4>1 DEF Machine
    <3>4. \A i \in 1..Len(machines) : status'[machines[i].act] = status[machines[i].act]
      <4>1. \A i \in 1..Len(machines) : machines[i].act # a
        BY <2>1 DEF AInv, Fit, Active
      <4> QED  BY <3>2, <3>3, <4>1
    <3> QED  BY <3>1, <3>2, <3>4 DEF AInv, Fit
  <2>3. CASE ~Refused(Type[a], Scope[a], activeOrder)
    <3> DEFINE m == [act |-> a, onPause |-> "NONE", pause |-> StartsPaused(Type[a]),
                     cancel |-> FALSE, terminate |-> FALSE, spent |-> 0]
    <3>1. /\ status' = [status EXCEPT ![a] = "EXECUTED"]
          /\ machines' = Append(machines, m)
          /\ vehicle' = vehicle \/ vehicle' = Halt(vehicle)
      BY <1>1, <2>3 DEF ExecuteAction
    <3>2. StartsPaused(Type[a]) = (vehicle.paused /\ Type[a] \notin Pausers)
      BY DEF StartsPaused, Pausers
    <3>3. StartsPaused(Type[a]) \in BOOLEAN
      BY <3>2 DEF AInv, VInv, Vehicle
    <3>4. m \in Machine /\ m.act = a
      BY <3>3, NumbersAssumption DEF Machine
    <3>5. vehicle.paused => m.pause \/ Type[a] \in Pausers
      BY <3>2
    <3> HIDE DEF m
    <3>6. Fit(machines', status', vehicle)
      BY <2>1, <3>1, <3>4, <3>5, FitAdded DEF AInv
    <3>7. vehicle'.paused = vehicle.paused
      BY <3>1, HaltStands DEF AInv, VInv, Parts
    <3> QED  BY <3>6, <3>7 DEF Fit
  <2> QED  BY <2>2, <2>3
<1>2. \A i \in DOMAIN machines : machines[i] \in Machine
  BY ElementOfSeq, LenProperties DEF AInv, Fit
<1>3. ASSUME NEW a \in ActionId, FinishEdgeAction(a)
      PROVE  Fit(machines', status', vehicle')
  <2> DEFINE ns == [i \in DOMAIN machines |->
                       IF machines[i].act = a THEN Terminated(machines[i]) ELSE machines[i]]
  <2>1. machines' = ns /\ status' = status /\ vehicle' = vehicle
    BY <1>3 DEF FinishEdgeAction
  <2>2. \A i \in DOMAIN machines :
           /\ ns[i] \in Machine /\ ns[i].act = machines[i].act
           /\ ns[i].onPause = machines[i].onPause /\ ns[i].pause = machines[i].pause
    BY <1>2 DEF Terminated, Machine
  <2>3. ns \in [DOMAIN machines -> Machine]
    BY <2>2
  <2> HIDE DEF ns
  <2> QED  BY <2>1, <2>2, <2>3, FitRequests DEF AInv
<1>4. ASSUME NEW a \in ActionId, CancelAction(a)
      PROVE  Fit(machines', status', vehicle')
  <2> DEFINE ns == [i \in DOMAIN machines |->
                       IF machines[i].act = a THEN Canceled(machines[i]) ELSE machines[i]]
  <2>1. machines' = ns /\ status' = status /\ vehicle' = vehicle
    BY <1>4 DEF CancelAction
  <2>2. ASSUME NEW i \in DOMAIN machines
        PROVE  /\ ns[i] \in Machine /\ ns[i].act = machines[i].act
               /\ ns[i].onPause = machines[i].onPause /\ ns[i].pause = machines[i].pause
    <3>1. machines[i] \in Machine /\ machines[i].act \in ActionId
      BY <1>2 DEF Machine
    <3>2. Definition(Type[machines[i].act]) \in ActionDefinition
      BY <3>1, DefinitionsAssumption, ActionsAssumption
    <3>3. Definition(Type[machines[i].act]).onCancel \in BOOLEAN
      BY <3>2 DEF ActionDefinition
    <3>4. (machines[i].cancel \/ Definition(Type[machines[i].act]).onCancel) \in BOOLEAN
      OBVIOUS
    <3> QED  BY <3>1, <3>4 DEF Canceled, Machine
  <2>3. ns \in [DOMAIN machines -> Machine]
    BY <2>2
  <2> HIDE DEF ns
  <2> QED  BY <2>1, <2>2, <2>3, FitRequests DEF AInv
<1>5. CASE TraverseEdge \/ Attach \/ Detach
  BY <1>5 DEF TraverseEdge, Attach, Detach, AInv
<1>6. CASE StopTraverse
  <2>1. ~vehicle'.paused /\ machines' = machines /\ status' = status
    BY <1>6 DEF StopTraverse, AInv, VInv, Vehicle, Halt
  <2> QED  BY <2>1 DEF AInv, Fit
<1> QED  BY <1>1, <1>3, <1>4, <1>5, <1>6 DEF Call

(* Neither traversal nor charging touches actions or pause mode.           *)
LEMMA RestFits ==
    ASSUME AInv, \/ StartTick \/ Rests \/ DrivesOff \/ Arrives \/ Moves
                 \/ AdvanceBatteryCharge \/ UNCHANGED vars
    PROVE  Fit(machines', status', vehicle')
<1>1. machines' = machines /\ status' = status
  BY DEF StartTick, Rests, DrivesOff, Arrives, Moves, TraverseTick, AdvanceBatteryCharge, vars
<1>2. vehicle'.paused = vehicle.paused
  <2>1. CASE StartTick \/ Rests \/ UNCHANGED vars
    BY <2>1 DEF StartTick, Rests, vars
  <2>2. CASE DrivesOff
    BY <2>2 DEF DrivesOff, AInv, VInv, Vehicle
  <2>3. CASE Arrives \/ Moves
    <3>1. vehicle' = vehicle \/ vehicle' = Halt(vehicle)
      BY <2>3 DEF Arrives, Moves
    <3> QED  BY <3>1, HaltStands DEF AInv, VInv, Parts
  <2>4. CASE AdvanceBatteryCharge
    <3>1. vehicle' = vehicle \/ vehicle' = [vehicle EXCEPT !.charging = ~(charge + 1 >= FullCharge)]
      BY <2>4 DEF AdvanceBatteryCharge
    <3> QED  BY <3>1 DEF AInv, VInv, Vehicle
  <2> QED  BY <2>1, <2>2, <2>3, <2>4
<1> QED  BY <1>1, <1>2 DEF AInv, Fit

LEMMA Positive ==
    /\ Distance \in Nat /\ FullCharge \in Nat /\ Duration \in Nat
    /\ 0 \in 0..Distance /\ Distance \in 0..Distance
    /\ 0 \in 0..FullCharge /\ FullCharge \in 0..FullCharge
    /\ 1 \in Nat \ {0}
  BY NumbersAssumption

(* The battery is neither overcharged nor drained below zero, the edge     *)
(* never leaves a negative distance.                                       *)
LEMMA NumbersKept ==
    ASSUME Numbers, VInv, [Next]_vars
    PROVE  Numbers'
<1>1. CASE Call
  <2>1. ASSUME NEW a \in ActionId, NEW activeOrder \in BOOLEAN, ExecuteAction(a, activeOrder)
        PROVE  Numbers'
    BY <2>1 DEF ExecuteAction, Numbers, battery, edge, timer
  <2>2. ASSUME NEW a \in ActionId, FinishEdgeAction(a) \/ CancelAction(a)
        PROVE  Numbers'
    BY <2>2 DEF FinishEdgeAction, CancelAction, Numbers, battery, edge, timer
  <2>3. CASE TraverseEdge
    BY <2>3, Positive DEF TraverseEdge, Numbers, battery, timer
  <2>4. CASE StopTraverse
    BY <2>4, Positive DEF StopTraverse, Numbers, battery, timer
  <2>5. CASE Attach \/ Detach
    BY <2>5 DEF Attach, Detach, Numbers, battery, edge
  <2> QED  BY <1>1, <2>1, <2>2, <2>3, <2>4, <2>5 DEF Call
<1>2. CASE StartTick
  BY <1>2 DEF StartTick, Numbers, battery, edge
<1>3. CASE Pauses \/ Resumes \/ Begins \/ Fails \/ Throws \/ Works
  <2>1. Turn
    BY <1>3 DEF Pauses, Resumes, Begins, Fails, Throws, Works
  <2>2. reacting' \in BOOLEAN /\ crashed' \in BOOLEAN
    BY <1>3 DEF Pauses, Resumes, Begins, Fails, Throws, Works, EnterOrFinish, Enter, Finish, Numbers
  <2> QED  BY <2>1, <2>2 DEF Turn, Numbers, battery, edge
<1>4. CASE Rests \/ DrivesOff
  BY <1>4, Positive DEF Rests, DrivesOff, TraverseTick, Numbers, battery, edge
<1>5. charge \in Nat /\ Consumed \in 0..FullCharge
  BY Positive DEF Consumed, Numbers
<1>6. CASE Arrives
  <2>1. Consumed \in 0..FullCharge /\ 0 \in 0..Distance
    BY <1>5, Positive
  <2> QED  BY <1>6, <2>1, Positive DEF Arrives, TraverseTick, Numbers
<1>7. CASE Moves
  <2>1. distance - 1 \in 0..Distance
    BY <1>7, Positive DEF Moves, Numbers
  <2>2. lowError' \in BOOLEAN /\ lowReported' \in BOOLEAN
    BY <1>7 DEF Moves, Numbers
  <2> QED  BY <1>5, <1>7, <2>1, <2>2, Positive DEF Moves, TraverseTick, Numbers
<1>8. CASE AdvanceBatteryCharge
  <2>1. charge' \in 0..FullCharge /\ lowError' \in BOOLEAN /\ lowReported' \in BOOLEAN
    <3>1. CASE ~vehicle.charging \/ vehicle.paused
      BY <1>8, <3>1 DEF AdvanceBatteryCharge, Numbers, battery
    <3>2. CASE ~(~vehicle.charging \/ vehicle.paused)
      BY <1>8, <3>2, Positive DEF AdvanceBatteryCharge, Numbers
    <3> QED  BY <3>1, <3>2
  <2> QED  BY <1>8, <2>1 DEF AdvanceBatteryCharge, Numbers, edge
<1>9. CASE UNCHANGED vars
  BY <1>9 DEF vars, battery, edge, timer, Numbers
<1> QED  BY <1>1, <1>2, <1>3, <1>4, <1>6, <1>7, <1>8, <1>9 DEF Next, Tick

LEMMA InitA == Init => AInv
<1> SUFFICES ASSUME Init PROVE AInv
  OBVIOUS
<1>1. Numbers
  BY Positive DEF Init, Numbers
<1>2. Fit(machines, status, vehicle)
  BY EmptySeq DEF Init, Fit, Statuses
<1> QED  BY <1>1, <1>2, InitV DEF AInv

LEMMA NextA == AInv /\ [Next]_vars => AInv'
<1> SUFFICES ASSUME AInv, [Next]_vars PROVE AInv'
  OBVIOUS
<1>1. VInv' /\ Numbers'
  BY NextV, NumbersKept DEF AInv
<1>2. Fit(machines', status', vehicle')
  BY TurnFits, CallFits, RestFits DEF Next, Tick
<1> QED  BY <1>1, <1>2 DEF AInv

LEMMA AInvariant == Spec => []AInv
  BY InitA, NextA, PTL DEF Spec

(* The variables of the adapter keep their types: the charge stays between *)
(* empty and full, no machine works longer than its duration, and the      *)
(* status to resume after a pause is always one that can be entered.       *)
THEOREM AdapterTyped == Spec => []TypeOK
<1>1. AInv => TypeOK
  BY DEF AInv, VInv, Vehicle, Numbers, Fit, Statuses, TypeOK
<1> QED  BY <1>1, AInvariant, PTL

-----------------------------------------------------------------------------
(* In pause mode the only statuses a tick reports of an action, other than *)
(* those of pause mode itself, are PAUSED and FAILED.                      *)
LEMMA TurnHolds ==
    ASSUME AInv, Pauses \/ Resumes \/ Begins \/ Fails \/ Throws \/ Works,
           vehicle.paused, NEW a \in ActionId, Type[a] \notin Pausers
    PROVE  status'[a] \in {status[a], "PAUSED", "FAILED"}
<1>1. Turn
  BY DEF Pauses, Resumes, Begins, Fails, Throws, Works
<1>2. status \in [ActionId -> Statuses]
  BY DEF AInv, Fit
<1>3. CASE a # Current.act
  <2>1. \/ status' = status
        \/ \E s : status' = [status EXCEPT ![Current.act] = s]
    <3>1. ASSUME NEW s, NEW m, EnterOrFinish(s, m)
          PROVE  \E r : status' = [status EXCEPT ![Current.act] = r]
      BY <3>1 DEF EnterOrFinish, Enter, Finish
    <3>2. CASE Pauses \/ Fails \/ Throws
      BY <3>2 DEF Pauses, Fails, Throws, Enter
    <3>3. CASE Resumes \/ Begins
      BY <3>1, <3>3 DEF Resumes, Begins
    <3>4. CASE Works
      BY <3>1, <3>4 DEF Works, Enter
    <3> QED  BY <3>2, <3>3, <3>4
  <2> QED  BY <1>2, <1>3, <2>1
<1>4. CASE a = Current.act
  <2>1. Current.pause
    BY <1>1, <1>4, CurrentFits
  <2>2. CASE Pauses
    BY <1>2, <1>4, <2>2 DEF Pauses, Enter
  <2>3. CASE Fails
    BY <1>2, <1>4, <2>3 DEF Fails
  <2>4. CASE Throws
    BY <2>4 DEF Throws
  <2>5. CASE Works
    <3>1. IsPaused
      BY <2>1, <2>5 DEF Works, Steady
    <3> QED  BY <1>2, <1>4, <2>5, <3>1 DEF Works, Enter
  <2>6. ~Resumes /\ ~Begins
    BY <2>1 DEF Resumes, Begins
  <2> QED  BY <2>2, <2>3, <2>4, <2>5, <2>6
<1> QED  BY <1>3, <1>4

(* While the vehicle is in pause mode no action begins, resumes, works or  *)
(* finishes, save those that change pause mode: the request to pause has   *)
(* reached every machine there is, and each one that is added has it.      *)
THEOREM PauseModeHolds == Spec => PauseHolds
<1> DEFINE Holds == vehicle.paused /\ vehicle'.paused =>
                       \A a \in ActionId :
                          \/ status'[a] \in {status[a], "EXECUTED", "PAUSED", "FAILED"}
                          \/ Type[a] \in {"startPause", "stopPause"}
<1>1. AInv /\ [Next]_vars => Holds
  <2> SUFFICES ASSUME AInv, [Next]_vars, vehicle.paused,
                      NEW a \in ActionId, Type[a] \notin Pausers
               PROVE  status'[a] \in {status[a], "EXECUTED", "PAUSED", "FAILED"}
    BY DEF Pausers
  <2>1. status \in [ActionId -> Statuses]
    BY DEF AInv, Fit
  <2>2. CASE Pauses \/ Resumes \/ Begins \/ Fails \/ Throws \/ Works
    BY <2>2, TurnHolds
  <2>3. ASSUME NEW b \in ActionId, NEW activeOrder \in BOOLEAN, ExecuteAction(b, activeOrder)
        PROVE  status'[a] \in {status[a], "EXECUTED", "PAUSED", "FAILED"}
    BY <2>1, <2>3 DEF ExecuteAction
  <2>4. CASE \/ \E b \in ActionId : FinishEdgeAction(b) \/ CancelAction(b)
             \/ TraverseEdge \/ StopTraverse \/ Attach \/ Detach
    BY <2>4 DEF FinishEdgeAction, CancelAction, TraverseEdge, StopTraverse, Attach, Detach
  <2>5. CASE \/ StartTick \/ Rests \/ DrivesOff \/ Arrives \/ Moves
             \/ AdvanceBatteryCharge \/ UNCHANGED vars
    BY <2>5 DEF StartTick, Rests, DrivesOff, Arrives, Moves, TraverseTick,
                AdvanceBatteryCharge, vars
  <2> QED  BY <2>2, <2>3, <2>4, <2>5 DEF Next, Tick, Call
<1>2. AInv /\ [Next]_vars => [Holds]_vars
  BY <1>1
<1> QED  BY <1>2, AInvariant, PTL DEF Spec, PauseHolds
===============================================================================
