-------------------------- MODULE MCInstantReports --------------------------
(* The instance of InstantReports for TLC: two messages the AGV finds      *)
(* invalid and one with an action that may run, or be refused.                *)
EXTENDS InstantReports

Message(id, valid, actions) == [id |-> id, valid |-> valid, actions |-> actions]

ReportMessages == {
    Message("m1", FALSE, {"i1"}),
    Message("m2", FALSE, {"i2"}),
    Message("m3", TRUE, {"i3"})}
=============================================================================
