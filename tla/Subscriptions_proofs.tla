------------------------ MODULE Subscriptions_proofs ------------------------
(***************************************************************************)
(* With a topic format that names both parts of the AGV identity, the      *)
(* broker's subscriptions follow the client's for any number of            *)
(* subscriptions.  The invariant says of each MQTT topic what the broker   *)
(* will hold once it has processed the packets in flight: the last packet  *)
(* about the topic decides, or what it holds already if there is none.     *)
(***************************************************************************)
EXTENDS Subscriptions, TLAPS

(* Packet k of w is the last one about topic t. *)
Decides(w, k, t) ==
    k \in DOMAIN w /\ t \in w[k].topics /\ \A j \in DOMAIN w : j > k => t \notin w[j].topics

(* Processing the packets w leaves the broker, which holds the topics b,   *)
(* with a subscription for t if and only if t is wanted.                   *)
Settles(w, b, t, wanted) ==
    /\ \A k \in Nat : Decides(w, k, t) => (w[k].op = "subscribe" <=> wanted)
    /\ (\A k \in DOMAIN w : t \notin w[k].topics) => (t \in b <=> wanted)

Wanted(t) == \E id \in DOMAIN subs : subs[id] = t

SyncInv ==
    /\ TypeOK
    /\ ~connected => wire = <<>> /\ broker = {}
    /\ connected => \A t \in Filter : Settles(wire, broker, t, Wanted(t))

FullFormat == Placeholders = {"manufacturer", "serialNumber"}

(* Appending a packet about t decides t, and leaves other topics alone.    *)
LEMMA AppendSettles ==
  ASSUME NEW w \in Seq(Packet), NEW p \in Packet, NEW b, NEW t, NEW wanted \in BOOLEAN,
         IF t \in p.topics THEN p.op = "subscribe" <=> wanted ELSE Settles(w, b, t, wanted)
  PROVE  Settles(Append(w, p), b, t, wanted)
<1> DEFINE v == Append(w, p)
<1>1. /\ Len(w) \in Nat /\ DOMAIN w = 1..Len(w) /\ DOMAIN v = 1..(Len(w) + 1)
      /\ v[Len(w) + 1] = p /\ \A k \in 1..Len(w) : v[k] = w[k]
  OBVIOUS
<1> HIDE DEF v
<1>2. CASE t \in p.topics
  <2>1. \A k \in Nat : Decides(v, k, t) => k = Len(w) + 1
    BY <1>1, <1>2 DEF Decides
  <2>2. Len(w) + 1 \in DOMAIN v /\ t \in v[Len(w) + 1].topics
    BY <1>1, <1>2
  <2>3. Settles(v, b, t, wanted)
    BY <1>1, <1>2, <2>1, <2>2 DEF Settles
  <2> QED  BY <2>3 DEF v
<1>3. CASE t \notin p.topics
  <2>1. \A k \in Nat : Decides(v, k, t) => Decides(w, k, t) /\ v[k] = w[k]
    BY <1>1, <1>3 DEF Decides
  <2>2. (\A k \in DOMAIN v : t \notin v[k].topics) => \A k \in DOMAIN w : t \notin w[k].topics
    BY <1>1
  <2>3. Settles(v, b, t, wanted)
    BY <1>3, <2>1, <2>2 DEF Settles
  <2> QED  BY <2>3 DEF v
<1> QED  BY <1>2, <1>3

(* Processing the first packet settles what all the packets did.           *)
LEMMA TailSettles ==
  ASSUME NEW w \in Seq(Packet), w # <<>>, NEW b, NEW t, NEW wanted \in BOOLEAN,
         Settles(w, b, t, wanted)
  PROVE  Settles(Tail(w), IF Head(w).op = "subscribe" THEN b \cup Head(w).topics
                          ELSE b \ Head(w).topics, t, wanted)
<1> DEFINE v == Tail(w)
           c == IF Head(w).op = "subscribe" THEN b \cup Head(w).topics ELSE b \ Head(w).topics
<1>1. /\ Len(w) \in Nat /\ Len(w) > 0 /\ DOMAIN w = 1..Len(w) /\ DOMAIN v = 1..(Len(w) - 1)
      /\ Head(w) = w[1] /\ \A k \in 1..(Len(w) - 1) : v[k] = w[k + 1]
  OBVIOUS
<1>2. \A k \in Nat : Decides(v, k, t) => Decides(w, k + 1, t) /\ v[k] = w[k + 1]
  <2> SUFFICES ASSUME NEW k \in Nat, Decides(v, k, t)
               PROVE  Decides(w, k + 1, t) /\ v[k] = w[k + 1]
    OBVIOUS
  <2> HIDE DEF v
  <2>1. k \in 1..(Len(w) - 1) /\ t \in v[k].topics /\ v[k] = w[k + 1]
    BY <1>1 DEF Decides
  <2>2. \A j \in DOMAIN w : j > k + 1 => t \notin w[j].topics
    <3> SUFFICES ASSUME NEW j \in DOMAIN w, j > k + 1 PROVE t \notin w[j].topics
      OBVIOUS
    <3>1. j - 1 \in 1..(Len(w) - 1) /\ j - 1 > k /\ (j - 1) + 1 = j
      BY <1>1, <2>1
    <3>2. t \notin v[j - 1].topics
      BY <1>1, <3>1 DEF Decides
    <3> QED  BY <1>1, <3>1, <3>2
  <2>3. k + 1 \in DOMAIN w
    BY <1>1, <2>1
  <2> QED  BY <2>1, <2>2, <2>3 DEF Decides
<1>3. (\A k \in DOMAIN v : t \notin v[k].topics) => (t \in c <=> wanted)
  <2> SUFFICES ASSUME \A k \in DOMAIN v : t \notin v[k].topics PROVE t \in c <=> wanted
    OBVIOUS
  <2>1. \A j \in DOMAIN w : j > 1 => t \notin w[j].topics
    <3> SUFFICES ASSUME NEW j \in DOMAIN w, j > 1 PROVE t \notin w[j].topics
      OBVIOUS
    <3> HIDE DEF v
    <3>1. j - 1 \in DOMAIN v /\ v[j - 1] = w[(j - 1) + 1] /\ (j - 1) + 1 = j
      BY <1>1
    <3> QED  BY <3>1
  <2>2. CASE t \in w[1].topics
    <3>1. Decides(w, 1, t)
      BY <1>1, <2>1, <2>2 DEF Decides
    <3>2. w[1].op = "subscribe" <=> wanted
      BY <3>1 DEF Settles
    <3> QED  BY <1>1, <2>2, <3>2
  <2>3. CASE t \notin w[1].topics
    <3>1. \A k \in DOMAIN w : t \notin w[k].topics
      BY <1>1, <2>1, <2>3
    <3>2. t \in b <=> wanted
      BY <3>1 DEF Settles
    <3> QED  BY <1>1, <2>3, <3>2
  <2> QED  BY <2>2, <2>3
<1>4. \A k \in Nat : Decides(v, k, t) => (v[k].op = "subscribe" <=> wanted)
  <2> SUFFICES ASSUME NEW k \in Nat, Decides(v, k, t) PROVE v[k].op = "subscribe" <=> wanted
    OBVIOUS
  <2> HIDE DEF v, c
  <2> DEFINE n == k + 1
  <2>1. Decides(w, n, t) /\ v[k] = w[n]
    BY <1>2
  <2>2. n \in Nat
    OBVIOUS
  <2> HIDE DEF n
  <2>3. w[n].op = "subscribe" <=> wanted
    BY <2>1, <2>2 DEF Settles
  <2> QED  BY <2>1, <2>3
<1>5. Settles(v, c, t, wanted)
  <2> HIDE DEF v, c
  <2> QED  BY <1>3, <1>4 DEF Settles
<1> QED  BY <1>5

(* With the full format a filter is its own MQTT topic. *)
LEMMA FullTopics ==
  ASSUME FullFormat, NEW f \in Filter PROVE MqttTopic(f) = f
BY DEF FullFormat, MqttTopic, Filter

(* The resubscribed topics are those that are wanted. *)
LEMMA ResubscribedWanted ==
  ASSUME FullFormat, TypeOK
  PROVE  /\ Resubscriptions = {t \in Filter : Wanted(t)}
         /\ \A id \in DOMAIN subs : subs[id] \in Filter
         /\ DOMAIN subs \subseteq issued
<1>1. PICK active \in SUBSET issued : subs \in [active -> Filter]
  BY DEF TypeOK
<1>2. \A id \in DOMAIN subs : subs[id] \in Filter /\ MqttTopic(subs[id]) = subs[id]
  BY <1>1, FullTopics
<1> QED  BY <1>1, <1>2 DEF Resubscriptions, Wanted

(* Without subscriptions and connection there is nothing to be settled.    *)
LEMMA InitSync == Init => SyncInv
<1> SUFFICES ASSUME Init PROVE SyncInv
  OBVIOUS
<1>1. subs \in [{} -> Filter] /\ {} \in SUBSET issued
  BY DEF Init
<1>2. <<>> \in Seq(Packet)
  OBVIOUS
<1>3. TypeOK
  BY <1>1, <1>2 DEF Init, TypeOK
<1> QED  BY <1>3 DEF Init, SyncInv

(* A call that sends a packet about f, or none if the client is offline,   *)
(* keeps the other topics settled.                                         *)
LEMMA SendSettles ==
  ASSUME FullFormat, SyncInv, NEW f \in Filter, NEW op \in {"subscribe", "unsubscribe"},
         Send(op, f), UNCHANGED <<connected, broker>>,
         op = "subscribe" <=> Wanted(f)',
         \A t \in Filter : t # f => (Wanted(t)' <=> Wanted(t))
  PROVE  /\ wire' \in Seq(Packet)
         /\ ~connected' => wire' = <<>> /\ broker' = {}
         /\ connected' => \A t \in Filter : Settles(wire, broker, t, Wanted(t))'
<1>1. wire \in Seq(Packet) /\ connected \in BOOLEAN
  BY DEF SyncInv, TypeOK
<1>2. CASE ~connected
  BY <1>1, <1>2 DEF SyncInv, Send
<1>3. CASE connected
  <2> DEFINE p == [op |-> op, topics |-> {f}]
  <2>1. p \in Packet /\ p.topics = {f} /\ p.op = op /\ wire' = Append(wire, p)
    BY <1>3, FullTopics DEF Packet, Send
  <2> HIDE DEF p
  <2>2. wire' \in Seq(Packet)
    BY <1>1, <2>1
  <2>3. ASSUME NEW t \in Filter PROVE Settles(wire, broker, t, Wanted(t))'
    <3>1. Wanted(t)' \in BOOLEAN /\ Wanted(t) \in BOOLEAN
      BY DEF Wanted
    <3>2. CASE t = f
      <4>1. Settles(Append(wire, p), broker, t, Wanted(t)')
        BY <1>1, <2>1, <3>1, <3>2, AppendSettles
      <4> QED  BY <2>1, <4>1
    <3>3. CASE t # f
      <4>1. Settles(wire, broker, t, Wanted(t)) /\ (Wanted(t)' <=> Wanted(t))
        BY <1>3, <3>3 DEF SyncInv
      <4>2. Settles(wire, broker, t, Wanted(t)')
        BY <4>1 DEF Settles
      <4>3. Settles(Append(wire, p), broker, t, Wanted(t)')
        BY <1>1, <2>1, <3>1, <3>3, <4>2, AppendSettles
      <4> QED  BY <2>1, <4>3
    <3> QED  BY <3>2, <3>3
  <2> QED  BY <1>3, <2>2, <2>3
<1> QED  BY <1>1, <1>2, <1>3

(* A call that sends nothing as what is wanted remains the same.           *)
LEMMA SilentSettles ==
  ASSUME SyncInv, UNCHANGED <<connected, broker, wire>>,
         \A t \in Filter : Wanted(t)' <=> Wanted(t)
  PROVE  /\ wire' \in Seq(Packet)
         /\ ~connected' => wire' = <<>> /\ broker' = {}
         /\ connected' => \A t \in Filter : Settles(wire, broker, t, Wanted(t))'
<1>1. wire \in Seq(Packet)
  BY DEF SyncInv, TypeOK
<1>2. ASSUME connected, NEW t \in Filter PROVE Settles(wire, broker, t, Wanted(t))'
  <2>1. Settles(wire, broker, t, Wanted(t)) /\ (Wanted(t)' <=> Wanted(t))
    BY <1>2 DEF SyncInv
  <2> QED  BY <2>1 DEF Settles
<1> QED  BY <1>1, <1>2 DEF SyncInv

(* subscribeTopic keeps every topic settled.                               *)
LEMMA SubscribeStep ==
  ASSUME FullFormat, SyncInv, NEW id \in SubscriptionId, NEW f \in Filter, Subscribe(id, f)
  PROVE  SyncInv'
<1>1. PICK active \in SUBSET issued : subs \in [active -> Filter]
  BY DEF SyncInv, TypeOK
<1>2. /\ subs' \in [active \cup {id} -> Filter] /\ active \cup {id} \in SUBSET issued'
      /\ issued' \subseteq SubscriptionId
      /\ connected' \in BOOLEAN /\ broker' \subseteq Filter
  BY <1>1 DEF Subscribe, SyncInv, TypeOK
<1>3. id \notin DOMAIN subs
  BY <1>1 DEF Subscribe
<1>4. \A t \in Filter : Wanted(t)' <=> Wanted(t) \/ t = f
  BY <1>1, <1>3 DEF Subscribe, Wanted
<1>5. /\ wire' \in Seq(Packet)
      /\ ~connected' => wire' = <<>> /\ broker' = {}
      /\ connected' => \A t \in Filter : Settles(wire, broker, t, Wanted(t))'
  <2>1. CASE Handlers(f) = {}
    <3>1. Send("subscribe", f) /\ UNCHANGED <<connected, broker>>
      BY <2>1 DEF Subscribe
    <3> QED  BY <1>4, <3>1, SendSettles
  <2>2. CASE Handlers(f) # {}
    <3>1. UNCHANGED <<connected, broker, wire>> /\ Wanted(f)
      BY <2>2 DEF Subscribe, Handlers, Wanted
    <3>2. \A t \in Filter : Wanted(t)' <=> Wanted(t)
      BY <1>4, <3>1
    <3> QED  BY <3>1, <3>2, SilentSettles
  <2> QED  BY <2>1, <2>2
<1>6. TypeOK'
  BY <1>2, <1>5 DEF TypeOK
<1> QED  BY <1>5, <1>6 DEF SyncInv

(* unsubscribe keeps every topic settled.                                  *)
LEMMA UnsubscribeStep ==
  ASSUME FullFormat, SyncInv, NEW id \in SubscriptionId, Unsubscribe(id)
  PROVE  SyncInv'
<1>1. PICK active \in SUBSET issued : subs \in [active -> Filter]
  BY DEF SyncInv, TypeOK
<1>0. PICK f \in Filter : f = subs[id]
  BY <1>1 DEF Unsubscribe
<1>2. /\ subs' \in [active \ {id} -> Filter] /\ active \ {id} \in SUBSET issued'
      /\ issued' \subseteq SubscriptionId
      /\ connected' \in BOOLEAN /\ broker' \subseteq Filter
  BY <1>1 DEF Unsubscribe, SyncInv, TypeOK
<1>3. id \in DOMAIN subs /\ f \in Filter /\ f = subs[id]
  BY <1>0 DEF Unsubscribe
<1>4. /\ \A t \in Filter : t # f => (Wanted(t)' <=> Wanted(t))
      /\ Wanted(f)' <=> Handlers(f) # {id}
  <2>1. /\ DOMAIN subs' = DOMAIN subs \ {id}
        /\ \A x \in DOMAIN subs' : subs'[x] = subs[x]
    BY DEF Unsubscribe
  <2>2. Wanted(f)' <=> \E x \in DOMAIN subs : x # id /\ subs[x] = f
    BY <2>1 DEF Wanted
  <2>3. Handlers(f) # {id} <=> \E x \in DOMAIN subs : x # id /\ subs[x] = f
    BY <1>3 DEF Handlers
  <2>4. \A t \in Filter : t # f => (Wanted(t)' <=> Wanted(t))
    BY <1>3, <2>1 DEF Wanted
  <2> QED  BY <2>2, <2>3, <2>4
<1>5. /\ wire' \in Seq(Packet)
      /\ ~connected' => wire' = <<>> /\ broker' = {}
      /\ connected' => \A t \in Filter : Settles(wire, broker, t, Wanted(t))'
  <2>1. CASE Handlers(f) = {id}
    <3>1. Send("unsubscribe", f) /\ UNCHANGED <<connected, broker>>
      BY <1>3, <2>1 DEF Unsubscribe
    <3>2. "unsubscribe" = "subscribe" <=> Wanted(f)'
      BY <1>4, <2>1
    <3> QED  BY <1>3, <1>4, <3>1, <3>2, SendSettles
  <2>2. CASE Handlers(f) # {id}
    <3>1. UNCHANGED <<connected, broker, wire>> /\ Wanted(f)
      BY <1>3, <2>2 DEF Unsubscribe, Wanted
    <3>2. \A t \in Filter : Wanted(t)' <=> Wanted(t)
      BY <1>4, <2>2, <3>1
    <3> QED  BY <3>1, <3>2, SilentSettles
  <2> QED  BY <2>1, <2>2
<1>6. TypeOK'
  BY <1>2, <1>5 DEF TypeOK
<1> QED  BY <1>5, <1>6 DEF SyncInv

(* Resubscription settles every topic in a new session.                    *)
LEMMA ConnectStep == ASSUME FullFormat, SyncInv, Connect PROVE SyncInv'
<1>1. /\ broker = {} /\ connected' = TRUE /\ UNCHANGED <<subs, issued, broker>>
      /\ Resubscriptions = {t \in Filter : Wanted(t)}
  BY ResubscribedWanted DEF Connect, SyncInv
<1>2. \A t \in Filter : Wanted(t)' <=> Wanted(t)
  BY <1>1 DEF Wanted
<1> DEFINE p == [op |-> "subscribe", topics |-> Resubscriptions]
<1>3. p \in Packet /\ p.op = "subscribe" /\ p.topics = {t \in Filter : Wanted(t)}
  BY <1>1 DEF Packet
<1>4. wire' \in Seq(Packet) /\ \A t \in Filter : Settles(wire, broker, t, Wanted(t))'
  <2>1. CASE Resubscriptions = {}
    <3>1. wire' = <<>> /\ \A t \in Filter : ~Wanted(t)'
      BY <1>1, <1>2, <2>1 DEF Connect
    <3>2. <<>> \in Seq(Packet) /\ DOMAIN <<>> = {}
      OBVIOUS
    <3> QED  BY <1>1, <3>1, <3>2 DEF Settles, Decides
  <2>2. CASE Resubscriptions # {}
    <3>1. wire' = <<p>>
      BY <2>2 DEF Connect
    <3> HIDE DEF p
    <3>2. <<p>> \in Seq(Packet) /\ DOMAIN <<p>> = {1} /\ <<p>>[1] = p
      BY <1>3
    <3>3. \A t \in Filter : Settles(wire', broker', t, Wanted(t)')
      BY <1>1, <1>2, <1>3, <3>1, <3>2 DEF Settles, Decides
    <3> QED  BY <3>1, <3>2, <3>3
  <2> QED  BY <2>1, <2>2
<1>5. TypeOK'
  BY <1>1, <1>4 DEF SyncInv, TypeOK
<1> QED  BY <1>1, <1>4, <1>5 DEF SyncInv

(* With the connection the broker's subscriptions are gone.                *)
LEMMA ConnectionLostStep == ASSUME SyncInv, ConnectionLost PROVE SyncInv'
<1>1. <<>> \in Seq(Packet)
  OBVIOUS
<1> QED  BY <1>1 DEF ConnectionLost, SyncInv, TypeOK

(* Processing a packet leaves settled what was settled.                    *)
LEMMA BrokerReceivesStep == ASSUME SyncInv, BrokerReceives PROVE SyncInv'
<1>1. /\ wire \in Seq(Packet) /\ wire # <<>> /\ wire' = Tail(wire) /\ connected /\ connected'
      /\ broker' = IF Head(wire).op = "subscribe" THEN broker \cup Head(wire).topics
                   ELSE broker \ Head(wire).topics
      /\ UNCHANGED <<subs, issued, connected>>
  BY DEF BrokerReceives, SyncInv, TypeOK
<1>2. Head(wire) \in Packet /\ Tail(wire) \in Seq(Packet)
  BY <1>1
<1>3. TypeOK'
  BY <1>1, <1>2 DEF SyncInv, TypeOK, Packet
<1>4. ASSUME NEW t \in Filter PROVE Settles(wire, broker, t, Wanted(t))'
  <2>1. Wanted(t)' = Wanted(t) /\ Wanted(t) \in BOOLEAN
    BY <1>1 DEF Wanted
  <2>2. Settles(wire, broker, t, Wanted(t))
    BY <1>1 DEF SyncInv
  <2>3. Settles(wire', broker', t, Wanted(t))
    BY <1>1, <2>1, <2>2, TailSettles
  <2> QED  BY <2>1, <2>3
<1> QED  BY <1>1, <1>3, <1>4 DEF SyncInv

(* With the full topic format every step keeps every topic settled.        *)
LEMMA Invariance == ASSUME FullFormat PROVE Spec => []SyncInv
<1>1. ASSUME SyncInv, [Next]_vars PROVE SyncInv'
  <2>1. CASE \E id \in SubscriptionId, f \in Filter : Subscribe(id, f)
    BY <1>1, <2>1, SubscribeStep
  <2>2. CASE \E id \in SubscriptionId : Unsubscribe(id)
    BY <1>1, <2>2, UnsubscribeStep
  <2>3. CASE Connect
    BY <1>1, <2>3, ConnectStep
  <2>4. CASE ConnectionLost
    BY <1>1, <2>4, ConnectionLostStep
  <2>5. CASE BrokerReceives
    BY <1>1, <2>5, BrokerReceivesStep
  <2>6. CASE UNCHANGED vars
    BY <1>1, <2>6 DEF vars, SyncInv, TypeOK, Wanted, Settles, Decides
  <2> QED  BY <1>1, <2>1, <2>2, <2>3, <2>4, <2>5, <2>6 DEF Next
<1>2. SyncInv /\ [Next]_vars => SyncInv'
  BY <1>1
<1> QED  BY <1>2, InitSync, PTL DEF Spec

(* Subscriptions are served whatever calls, losses of the connection and   *)
(* packets in flight came before: all that is wanted is forwarded.         *)
THEOREM SubscriptionsServed == ASSUME FullFormat PROVE Spec => []Forwarded
<1>1. SyncInv => Forwarded
  <2> SUFFICES ASSUME SyncInv, Synced, NEW id \in DOMAIN subs, NEW m \in Message,
                      Selects(subs[id], m)
               PROVE  \E t \in broker : Selects(t, m)
    BY DEF Forwarded
  <2>1. subs[id] \in Filter /\ Wanted(subs[id])
    BY ResubscribedWanted DEF SyncInv, Wanted
  <2>2. subs[id] \in broker
    BY <2>1 DEF SyncInv, Synced, Settles
  <2> QED  BY <2>2
<1> QED  BY <1>1, Invariance, PTL

(* The broker holds no subscription that nobody needs.                     *)
THEOREM NoSuperfluousSubscriptions == ASSUME FullFormat PROVE Spec => []NoneSuperfluous
<1>1. SyncInv => NoneSuperfluous
  <2> SUFFICES ASSUME SyncInv, Synced PROVE broker \subseteq Resubscriptions
    BY DEF NoneSuperfluous
  <2>1. \A t \in Filter : t \in broker => Wanted(t)
    BY DEF SyncInv, Synced, Settles
  <2>2. broker \subseteq Filter /\ Resubscriptions = {t \in Filter : Wanted(t)}
    BY ResubscribedWanted DEF SyncInv, TypeOK
  <2> QED  BY <2>1, <2>2
<1> QED  BY <1>1, Invariance, PTL
=============================================================================
