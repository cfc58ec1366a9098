--------------------------- MODULE MCSubscriptions ---------------------------
(* The instance of Subscriptions for TLC.  A bound on the packets in       *)
(* flight is not needed: each subscription is issued and ended once, and a *)
(* lost connection empties the wire.                                       *)
EXTENDS Subscriptions

(* A topic format with both parts of the identity. *)
FullTopic == {"manufacturer", "serialNumber"}
=============================================================================
