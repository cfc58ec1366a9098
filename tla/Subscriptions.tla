---------------------------- MODULE Subscriptions ----------------------------
(***************************************************************************)
(* The subscriptions of a Client (src/common/client.ts), which class       *)
(* SubscriptionManager (src/common/subscription-manager.ts) maps to MQTT   *)
(* topics, and those the MQTT broker holds for the client's session.       *)
(*                                                                         *)
(* A subscription's filter names a topic and the identity of an AGV, each  *)
(* of them possibly a wildcard.  The manager has one map of handlers per   *)
(* filter; filters may share an MQTT topic if the topic format leaves out  *)
(* a part of the identity.  Packets to the broker may be lost only when    *)
(* the connection is; a session ends with it (clean: true).  A subscribe   *)
(* or unsubscribe call whose packet is lost rejects its promise, which is  *)
(* left out, as are starting and stopping the client, and unsubscribing    *)
(* an id that is not active, which rejects its promise and does nothing.   *)
(***************************************************************************)
EXTENDS Naturals, Sequences

CONSTANTS
    SubscriptionId, Manufacturer, SerialNumber, Topic,
    Any,               \* the wildcard: undefined in a subject, "+" in MQTT topics
    Placeholders       \* parts of the identity in the topic format

ASSUME WildcardAssumption ==
    Any \notin Manufacturer \cup SerialNumber \cup Topic
ASSUME FormatAssumption == Placeholders \subseteq {"manufacturer", "serialNumber"}

Filter == [manufacturer : Manufacturer \cup {Any}, serialNumber : SerialNumber \cup {Any},
           topic : Topic \cup {Any}]
Message == [manufacturer : Manufacturer, serialNumber : SerialNumber, topic : Topic]
Packet == [op : {"subscribe", "unsubscribe"}, topics : SUBSET Filter]

VARIABLES
    subs,       \* _subscriptionIds: the filter of each active subscription
    issued,     \* subscription ids issued so far
    connected,  \* is the client connected to the broker?
    wire,       \* packets sent that the broker has not processed yet
    broker      \* MQTT topics the broker has subscriptions for

vars == <<subs, issued, connected, wire, broker>>

TypeOK ==
    /\ issued \subseteq SubscriptionId
    /\ \E active \in SUBSET issued : subs \in [active -> Filter]
    /\ connected \in BOOLEAN
    /\ wire \in Seq(Packet)
    /\ broker \subseteq Filter

-----------------------------------------------------------------------------
(* The MQTT topic of a filter: a level not in the topic format is dropped, *)
(* which is the same as being a wildcard in every topic.                   *)
MqttTopic(f) ==
    [f EXCEPT !.manufacturer = IF "manufacturer" \in Placeholders THEN @ ELSE Any,
              !.serialNumber = IF "serialNumber" \in Placeholders THEN @ ELSE Any]

(* Is a message m one of those that f selects?  (Also for MQTT topics.)    *)
Selects(f, m) ==
    /\ f.manufacturer \in {Any, m.manufacturer}
    /\ f.serialNumber \in {Any, m.serialNumber}
    /\ f.topic \in {Any, m.topic}

(* The ids in the map of filter f. *)
Handlers(f) == {id \in DOMAIN subs : subs[id] = f}

WrongResubscriptions == {}

(* getAll: the MQTT topics to be subscribed on reconnection. *)
Resubscriptions == {MqttTopic(subs[id]) : id \in DOMAIN subs}

Send(op, f) ==
    wire' = IF connected THEN Append(wire, [op |-> op, topics |-> {MqttTopic(f)}]) ELSE wire

Subscribe(id, f) ==
    /\ id \notin issued
    /\ issued' = issued \cup {id}
    /\ subs' = [x \in DOMAIN subs \cup {id} |-> IF x = id THEN f ELSE subs[x]]
    /\ IF Handlers(f) = {} THEN Send("subscribe", f) ELSE UNCHANGED wire
    /\ UNCHANGED <<connected, broker>>

WrongUnsubscribe(id) ==
    /\ id \in DOMAIN subs
    /\ subs' = [x \in DOMAIN subs \ {id} |-> subs[x]]
    /\ Send("unsubscribe", subs[id])
    /\ UNCHANGED <<issued, connected, broker>>

WrongUnsubscribeLast(id) ==
    /\ id \in DOMAIN subs
    /\ subs' = [x \in DOMAIN subs \ {id} |-> subs[x]]
    /\ IF Handlers(subs[id]) = {} THEN Send("unsubscribe", subs[id]) ELSE UNCHANGED wire
    /\ UNCHANGED <<issued, connected, broker>>

Unsubscribe(id) ==
    /\ id \in DOMAIN subs
    /\ subs' = [x \in DOMAIN subs \ {id} |-> subs[x]]
    /\ IF Handlers(subs[id]) = {id} THEN Send("unsubscribe", subs[id]) ELSE UNCHANGED wire
    /\ UNCHANGED <<issued, connected, broker>>

Connect ==
    /\ ~connected
    /\ connected' = TRUE
    /\ wire' = IF Resubscriptions = {} THEN <<>>
               ELSE <<[op |-> "subscribe", topics |-> Resubscriptions]>>
    /\ UNCHANGED <<subs, issued, broker>>

ConnectionLost ==
    /\ connected
    /\ connected' = FALSE
    /\ wire' = <<>> /\ broker' = {}
    /\ UNCHANGED <<subs, issued>>

BrokerReceives ==
    /\ wire # <<>>
    /\ wire' = Tail(wire)
    /\ broker' = IF Head(wire).op = "subscribe" THEN broker \cup Head(wire).topics
                 ELSE broker \ Head(wire).topics
    /\ UNCHANGED <<subs, issued, connected>>

-----------------------------------------------------------------------------
Init ==
    /\ subs = [x \in {} |-> Any] /\ issued = {}
    /\ connected = FALSE /\ wire = <<>> /\ broker = {}

Next ==
    \/ \E id \in SubscriptionId : \/ \E f \in Filter : Subscribe(id, f)
                                  \/ Unsubscribe(id)
    \/ Connect \/ ConnectionLost \/ BrokerReceives

Spec == Init /\ [][Next]_vars

Fairness == WF_vars(Connect) /\ WF_vars(BrokerReceives)
FairSpec == Spec /\ Fairness
-----------------------------------------------------------------------------
(* Properties. *)

Synced == connected /\ wire = <<>>

(* Once all packets are processed, every message an active subscription    *)
(* selects is forwarded to the client, whatever was subscribed and         *)
(* unsubscribed, online and offline, before.                               *)
Forwarded ==
    Synced => \A id \in DOMAIN subs, m \in Message :
        Selects(subs[id], m) => \E t \in broker : Selects(t, m)

(* unsubscribe: "the corresponding MQTT topic will also be unsubscribed to *)
(* prevent unnecessary network traffic".  The broker then holds no other   *)
(* subscriptions than those of active ones.                                *)
NoneSuperfluous == Synced => broker \subseteq Resubscriptions

(* A subscription is in force at last, as long as the connection holds and *)
(* it is not ended: no call in between may take it away for good.          *)
ServedAtLast ==
    \A id \in SubscriptionId, t \in Filter :
        connected /\ id \in DOMAIN subs /\ MqttTopic(subs[id]) = t
            ~> t \in broker \/ ~connected \/ id \notin DOMAIN subs
=============================================================================
