------------------------ MODULE MCVirtualAgvAdapter ------------------------
(* VirtualAgvAdapter for TLC: the actions of the run, and a variable that  *)
(* remembers whether stopTraverse has ended pause mode.                    *)
EXTENDS VirtualAgvAdapter

VARIABLE cut

(* A load to be picked and the actions that pause and resume this.         *)
FlowTypes == [e |-> "noop", o |-> "startPause", p |-> "pick", q |-> "stopPause",
              s |-> "startCharging"]
FlowScopes == [e |-> "edge", o |-> "instant", p |-> "node", q |-> "instant", s |-> "instant"]

(* The only call that ends pause mode is stopTraverse.                     *)
NextCut ==
    \/ Tick /\ UNCHANGED cut
    \/ Call /\ cut' = (cut \/ (vehicle.paused /\ ~vehicle'.paused))

InitCut == Init /\ cut = FALSE

FairSpecCut == InitCut /\ [][NextCut]_<<vars, cut>> /\ WF_vars(Tick)

(* What is executed ends, outside pause mode: no state machine is skipped  *)
(* for ever by a tick whose array changes, none remains paused after a     *)
(* stopPause, and none waits for a call that cannot come.  What stops this *)
(* is a stopTraverse that has ended pause mode, or an error in the timer.  *)
ActionsEndUnlessCut == <>(cut \/ crashed) \/ ActionsEnd
=============================================================================
