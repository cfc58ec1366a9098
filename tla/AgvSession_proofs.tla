-------------------------- MODULE AgvSession_proofs --------------------------
(* The safety properties of AgvSession, for every bound. *)
EXTENDS AgvSession, SequenceTheorems, TLAPS

(* The broker will hold the subscriptions of the manager, and those that a *)
(* state needs in time for it.                                             *)
Coming ==
    /\ connected => \A t \in Topics :
           t \in subs <=> t \in broker \/ \E i \in 1..Len(link) : t \in link[i].topics
    /\ \A i \in 1..Len(link) : \A t \in Needed(link[i].op, starts) :
           t \in broker \/ \E j \in 1..(i - 1) : t \in link[j].topics

(* The manager has the subscriptions that have been made. *)
Setup ==
    /\ life # "stopped" => /\ setup \in {"order", "failed"} => "order" \in subs
                           /\ setup \in {"instantActions", "done"} => subs = Topics
    /\ life \in {"stopped", "connecting"} => ~connected /\ subs = {}
    /\ life = "connecting" => setup = "none"
    /\ life = "announcing" => setup = "none"
    /\ setup = "attaching" => life = "started"
    /\ starts <= 1 /\ callback => setup = "done"
    /\ starts = 0 => setup = "none" /\ life = "stopped" /\ ~callback

Subscribed == Coming /\ Setup

(* What is in the connection. *)
Link ==
    /\ ~connected => link = <<>>
    /\ connected => alive
    /\ \A i \in 1..Len(link) :
        /\ link[i].op = "ONLINE" => i = 1
        /\ link[i].op = "disconnect" => i = Len(link) /\ life = "ending"

(* The retained state of an AGV that stops. *)
Left ==
    /\ ~alive => retained # "ONLINE"
    /\ life \in {"leaving", "ending"} /\ connected =>
        \/ \E i \in 1..Len(link) : link[i].op = "OFFLINE"
        \/ retained # "ONLINE" /\ \A i \in 1..Len(link) : link[i].op # "ONLINE"

(* What the master tracks, or will. *)
Tracked ==
    /\ handler => told = tracked
    /\ ~master => inbox = <<>>
    /\ retained = "none" => tracked = "none"
    /\ master => IF inbox = <<>> THEN tracked = retained ELSE inbox[Len(inbox)] = retained

SessionInv == TypeOK /\ Subscribed /\ Link /\ Left /\ Tracked

PacketType == [op : Op, topics : SUBSET Topics]

(* What Send does to the packets in the connection: nothing offline, and   *)
(* otherwise it appends them.                                              *)
LEMMA Sent ==
  ASSUME link \in Seq(PacketType), NEW ps \in Seq(PacketType), NEW drop \in BOOLEAN,
         connected, Send(ps, drop)
  PROVE  /\ link' \in Seq(PacketType) /\ queue' = queue
         /\ Len(link') = Len(link) + Len(ps)
         /\ \A i \in 1..Len(link) : link'[i] = link[i]
         /\ \A i \in 1..Len(ps) : link'[Len(link) + i] = ps[i]
<1>1. link' = link \o ps /\ queue' = queue
  BY DEF Send
<1>2. Len(link) \in Nat /\ Len(ps) \in Nat
  BY LenProperties
<1>3. link \o ps \in Seq(PacketType) /\ Len(link \o ps) = Len(link) + Len(ps)
  BY ConcatProperties
<1>4. \A i \in 1..Len(link) + Len(ps) :
          (link \o ps)[i] = IF i <= Len(link) THEN link[i] ELSE ps[i - Len(link)]
  BY ConcatProperties
<1>5. \A i \in 1..Len(link) : link'[i] = link[i]
  BY <1>1, <1>2, <1>4
<1>6. ASSUME NEW i \in 1..Len(ps) PROVE link'[Len(link) + i] = ps[i]
  <2>1. Len(link) + i \in 1..Len(link) + Len(ps) /\ ~(Len(link) + i <= Len(link))
          /\ Len(link) + i - Len(link) = i
    BY <1>2
  <2> QED  BY <1>1, <1>4, <2>1
<1> QED  BY <1>1, <1>3, <1>5, <1>6

LEMMA NotSent ==
  ASSUME NEW ps, ~connected, Send(ps, TRUE)
  PROVE  link' = link /\ queue' = queue
BY DEF Send

(* The first packet leaves the connection. *)
LEMMA Received ==
  ASSUME link \in Seq(PacketType), link # <<>>
  PROVE  /\ Tail(link) \in Seq(PacketType) /\ Head(link) = link[1] /\ link[1] \in PacketType
         /\ Len(link) \in Nat \ {0} /\ Len(Tail(link)) = Len(link) - 1
         /\ \A i \in 1..(Len(link) - 1) : Tail(link)[i] = link[i + 1]
OBVIOUS

(* A message of a new connection state goes to the master's end.           *)
LEMMA Retained ==
  ASSUME Tracked, inbox \in Seq(ConnectionState), NEW s \in ConnectionState, Retain(s),
         UNCHANGED <<master, handler, tracked, told>>
  PROVE  Tracked' /\ inbox' \in Seq(ConnectionState)
<1>1. CASE master
  <2>1. inbox' = Append(inbox, s) /\ retained' = s
    BY <1>1 DEF Retain
  <2>2. inbox' \in Seq(ConnectionState) /\ inbox' # <<>> /\ inbox'[Len(inbox')] = s
    BY <2>1
  <2>3. s # "none"
    BY DEF ConnectionState
  <2> QED  BY <1>1, <2>1, <2>2, <2>3 DEF Tracked
<1>2. CASE ~master
  BY <1>2 DEF Retain, Tracked, ConnectionState
<1> QED  BY <1>1, <1>2

(* Short sequences. *)
LEMMA Short ==
  /\ <<>> \in Seq(PacketType) /\ <<>> \in Seq({Packet("OFFLINE")})
  /\ <<>> \in Seq(ConnectionState) /\ \A s \in ConnectionState : <<s>> \in Seq(ConnectionState)
  /\ \A p \in PacketType : <<p>> \in Seq(PacketType)
OBVIOUS

LEMMA PacketTypes ==
  /\ \A op \in Op : Packet(op) \in PacketType /\ Packet(op).op = op /\ Packet(op).topics = {}
  /\ \A op \in Op, ts \in SUBSET Topics : [op |-> op, topics |-> ts] \in PacketType
<1>1. \A op \in Op, ts \in SUBSET Topics : [op |-> op, topics |-> ts] \in PacketType
  BY DEF PacketType
<1>2. \A op \in Op : Packet(op).op = op /\ Packet(op).topics = {}
  BY DEF Packet
<1>3. {} \in SUBSET Topics
  OBVIOUS
<1>4. \A op \in Op : Packet(op) \in PacketType
  BY <1>1, <1>3 DEF Packet
<1> QED  BY <1>1, <1>2, <1>4

(* A state that carries the initial one is sent by a client that has       *)
(* subscribed to orders, and in the first session on reconnection by one   *)
(* that has been set up.                                                   *)
LEMMA StateNeeds ==
  ASSUME TypeOK, Setup, Started
  PROVE  /\ StatePacket("carried") \in PacketType /\ StatePacket("again") \in PacketType
         /\ StatePacket("carried").op \in {"state", "carried"}
         /\ StatePacket("again").op \in {"state", "again"}
         /\ StatePacket("carried").topics = {} /\ StatePacket("again").topics = {}
         /\ Needed(StatePacket("carried").op, starts) \subseteq subs
         /\ callback => Needed(StatePacket("again").op, starts) \subseteq subs
<1>1. /\ \A op \in Op : Packet(op) \in PacketType /\ Packet(op).op = op /\ Packet(op).topics = {}
      /\ {"state", "carried", "again"} \subseteq Op
  BY PacketTypes DEF Op, StateOp
<1>2. Merged => "order" \in subs
  BY DEF Merged, Setup, Started, TypeOK, Topics
<1>3. starts = 1 /\ callback => subs = Topics
  BY DEF Setup, Started
<1>4. CASE Merged
  <2>1. StatePacket("carried") = Packet("carried") /\ StatePacket("again") = Packet("again")
    BY <1>4 DEF StatePacket
  <2>2. Needed("carried", starts) \subseteq subs
    BY <1>2, <1>4 DEF Needed
  <2>3. callback => Needed("again", starts) \subseteq subs
    BY <1>2, <1>3, <1>4 DEF Needed
  <2> QED  BY <1>1, <2>1, <2>2, <2>3
<1>5. CASE ~Merged
  <2>1. StatePacket("carried") = Packet("state") /\ StatePacket("again") = Packet("state")
    BY <1>5 DEF StatePacket
  <2>2. Needed("state", starts) = {}
    BY DEF Needed
  <2> QED  BY <1>1, <2>1, <2>2
<1> QED  BY <1>4, <1>5

(* The initial states satisfy the invariant. *)
LEMMA InitInv == Init => SessionInv
<1> SUFFICES ASSUME Init PROVE SessionInv
  OBVIOUS
<1>1. TypeOK
  BY Short DEF Init, TypeOK, ConnectionState, PacketType
<1>2. Subscribed
  BY DEF Init, Subscribed, Coming, Setup
<1>3. Link
  BY DEF Init, Link
<1>4. Left
  BY DEF Init, Left
<1>5. Tracked
  BY DEF Init, Tracked
<1> QED  BY <1>1, <1>2, <1>3, <1>4, <1>5 DEF SessionInv

LEMMA StartInv == SessionInv /\ Start => SessionInv'
<1> SUFFICES ASSUME SessionInv, Start PROVE SessionInv'
  OBVIOUS
<1> USE DEF SessionInv, Start, agvVars, brokerVars, masterVars, bounds
<1>1. TypeOK'
  BY Short DEF TypeOK, ConnectionState, Topics, PacketType
<1>2. Subscribed'
  BY DEF TypeOK, Subscribed, Coming, Setup, Link, Topics
<1>3. Link'
  BY DEF TypeOK, Link
<1>4. Left'
  BY DEF TypeOK, Left, Link
<1>5. Tracked'
  BY DEF TypeOK, Tracked
<1> QED  BY <1>1, <1>2, <1>3, <1>4, <1>5

LEMMA ConnectFailsInv == SessionInv /\ ConnectFails => SessionInv'
<1> SUFFICES ASSUME SessionInv, ConnectFails PROVE SessionInv'
  OBVIOUS
<1> USE DEF SessionInv, ConnectFails, agvVars, brokerVars, masterVars, bounds
<1>1. TypeOK'
  BY Short DEF TypeOK, ConnectionState, Topics, PacketType
<1>2. Subscribed'
  BY DEF TypeOK, Subscribed, Coming, Setup, Link, Topics
<1>3. Link'
  BY DEF TypeOK, Link
<1>4. Left'
  BY DEF TypeOK, Left, Link
<1>5. Tracked'
  BY DEF TypeOK, Tracked
<1> QED  BY <1>1, <1>2, <1>3, <1>4, <1>5

LEMMA AnnouncedInv == SessionInv /\ Announced => SessionInv'
<1> SUFFICES ASSUME SessionInv, Announced PROVE SessionInv'
  OBVIOUS
<1> USE DEF SessionInv, Announced, agvVars, brokerVars, masterVars, bounds
<1>1. TypeOK'
  BY Short DEF TypeOK, ConnectionState, Topics, PacketType
<1>2. Subscribed'
  BY DEF TypeOK, Subscribed, Coming, Setup, Link, Topics
<1>3. Link'
  BY DEF TypeOK, Link
<1>4. Left'
  BY DEF TypeOK, Left, Link
<1>5. Tracked'
  BY DEF TypeOK, Tracked
<1> QED  BY <1>1, <1>2, <1>3, <1>4, <1>5

LEMMA StopInv == SessionInv /\ Stop => SessionInv'
<1> SUFFICES ASSUME SessionInv, Stop PROVE SessionInv'
  OBVIOUS
<1> USE DEF SessionInv, Stop, agvVars, brokerVars, masterVars, bounds
<1>1. TypeOK'
  BY Short DEF TypeOK, ConnectionState, Topics, PacketType
<1>2. Subscribed'
  BY DEF TypeOK, Subscribed, Coming, Setup, Link, Topics
<1>3. Link'
  BY DEF TypeOK, Link
<1>4. Left'
  BY DEF TypeOK, Left, Link
<1>5. Tracked'
  BY DEF TypeOK, Tracked
<1> QED  BY <1>1, <1>2, <1>3, <1>4, <1>5

LEMMA EndedInv == SessionInv /\ Ended => SessionInv'
<1> SUFFICES ASSUME SessionInv, Ended PROVE SessionInv'
  OBVIOUS
<1> USE DEF SessionInv, Ended, agvVars, brokerVars, masterVars, bounds
<1>1. TypeOK'
  BY Short DEF TypeOK, ConnectionState, Topics, PacketType
<1>2. Subscribed'
  BY DEF TypeOK, Subscribed, Coming, Setup, Link, Topics
<1>3. Link'
  BY DEF TypeOK, Link
<1>4. Left'
  BY DEF TypeOK, Left, Link
<1>5. Tracked'
  BY DEF TypeOK, Tracked
<1> QED  BY <1>1, <1>2, <1>3, <1>4, <1>5

LEMMA TrackAgvsInv == SessionInv /\ TrackAgvs => SessionInv'
<1> SUFFICES ASSUME SessionInv, TrackAgvs PROVE SessionInv'
  OBVIOUS
<1> USE DEF SessionInv, TrackAgvs, agvVars, brokerVars, masterVars, bounds
<1>1. TypeOK'
  BY Short DEF TypeOK, ConnectionState, Topics, PacketType
<1>2. Subscribed'
  BY DEF TypeOK, Subscribed, Coming, Setup, Link, Topics
<1>3. Link'
  BY DEF TypeOK, Link
<1>4. Left'
  BY DEF TypeOK, Left, Link
<1>5. Tracked'
  BY DEF TypeOK, Tracked
<1> QED  BY <1>1, <1>2, <1>3, <1>4, <1>5

(* The client takes over the session. *)
LEMMA TakenOver ==
  ASSUME SessionInv, TakeOver, UNCHANGED <<master, handler, tracked, told>>
  PROVE  /\ Tracked' /\ inbox' \in Seq(ConnectionState)
         /\ retained' \in ConnectionState \cup {"none"} /\ retained' # "ONLINE"
         /\ alive' = TRUE /\ broker' = {}
<1>1. alive' = TRUE /\ broker' = {} /\ inbox \in Seq(ConnectionState) /\ Tracked
  BY DEF TakeOver, SessionInv, TypeOK
<1>2. CASE alive
  <2>1. Retain("CONNECTIONBROKEN") /\ "CONNECTIONBROKEN" \in ConnectionState
    BY <1>2 DEF TakeOver, ConnectionState
  <2> QED  BY <1>1, <2>1, Retained DEF Retain
<1>3. CASE ~alive
  BY <1>1, <1>3 DEF TakeOver, Tracked, SessionInv, TypeOK, Left
<1> QED  BY <1>2, <1>3

LEMMA ConnectionLostInv == SessionInv /\ ConnectionLost => SessionInv'
<1> SUFFICES ASSUME SessionInv, ConnectionLost PROVE SessionInv'
  OBVIOUS
<1> USE DEF SessionInv, ConnectionLost, agvVars, brokerVars, masterVars, bounds
<1>0. /\ link' = <<>> /\ Len(link') = 0 /\ connected' = FALSE /\ losses' \in Nat
      /\ link' \in Seq(PacketType) /\ UNCHANGED <<life, acked, subs, callback, timer, queue>>
      /\ UNCHANGED <<alive, broker, retained, masterVars, starts, changes>>
      /\ setup' = setup \/ (setup \in {"order", "instantActions"} /\ setup' = "failed")
      /\ connected
  BY Short DEF TypeOK, Topics
<1>1. TypeOK'
  BY <1>0 DEF TypeOK, PacketType
<1>2. Subscribed'
  <2>1. Coming'
    BY <1>0 DEF Coming
  <2>2. Setup'
    BY <1>0 DEF Subscribed, Setup, Topics
  <2> QED  BY <2>1, <2>2 DEF Subscribed
<1>3. Link'
  BY <1>0 DEF Link
<1>4. Left'
  BY <1>0 DEF Left
<1>5. Tracked'
  BY <1>0 DEF Tracked
<1> QED  BY <1>1, <1>2, <1>3, <1>4, <1>5

LEMMA ConnectInv == SessionInv /\ Connect => SessionInv'
<1> SUFFICES ASSUME SessionInv, Connect PROVE SessionInv'
  OBVIOUS
<1> USE DEF SessionInv, Connect, agvVars, brokerVars, masterVars, bounds
<1>0. /\ Tracked' /\ inbox' \in Seq(ConnectionState)
      /\ retained' \in ConnectionState \cup {"none"} /\ retained' # "ONLINE"
      /\ alive' = TRUE /\ broker' = {}
  BY TakenOver
<1>a. /\ link' \in Seq(PacketType) /\ Len(link') = 1
      /\ link'[1].op = "ONLINE" /\ link'[1].topics = {}
  BY Short, PacketTypes DEF Op
<1>b. /\ life = "connecting" /\ life' = "announcing" /\ connected' = TRUE /\ timer' \in BOOLEAN
      /\ setup = "none" /\ subs = {} /\ setup' = setup /\ subs' = subs
      /\ UNCHANGED <<acked, callback, queue, master, handler, tracked, told, starts, losses, changes>>
  BY DEF Subscribed, Setup, TypeOK
<1>1. TypeOK'
  BY <1>0, <1>a, <1>b DEF TypeOK, PacketType
<1>2. Subscribed'
  BY <1>0, <1>a, <1>b DEF Subscribed, Coming, Setup, Needed
<1>3. Link'
  BY <1>0, <1>a, <1>b DEF Link
<1>4. Left'
  BY <1>0, <1>a, <1>b DEF Left
<1>5. Tracked'
  BY <1>0
<1> QED  BY <1>1, <1>2, <1>3, <1>4, <1>5

(* What is sent on reconnection. *)
LEMMA SentAgain ==
  ASSUME TypeOK, Setup, Reconnect
  PROVE  /\ link' \in Seq(PacketType)
         /\ \A i \in 1..Len(link') : link'[i].op \in {"resubscribe", "OFFLINE", "state", "again"}
         /\ \A i \in 1..Len(link') : \A t \in Needed(link'[i].op, starts) :
                \E j \in 1..(i - 1) : t \in link'[j].topics
         /\ \A t \in Topics : t \in subs <=> \E i \in 1..Len(link') : t \in link'[i].topics
<1> DEFINE first == IF Resubscriptions = {} THEN <<>>
                    ELSE <<[op |-> "resubscribe", topics |-> Resubscriptions]>>
           last == IF callback THEN <<StatePacket("again")>> ELSE <<>>
<1>1. /\ first \in Seq(PacketType) /\ Len(first) \in Nat /\ subs \in SUBSET Topics
      /\ \A i \in 1..Len(first) : first[i] = [op |-> "resubscribe", topics |-> subs]
      /\ subs # {} => Len(first) = 1
  BY Short, PacketTypes DEF Resubscriptions, TypeOK, Op
<1>2. /\ last \in Seq(PacketType) /\ Len(last) \in Nat
      /\ \A i \in 1..Len(last) : callback /\ last[i] = StatePacket("again")
  BY Short, StateNeeds DEF Reconnect
<1>3. /\ queue \in Seq(PacketType) /\ Len(queue) \in Nat
      /\ \A i \in 1..Len(queue) : queue[i] = Packet("OFFLINE")
  <2>1. queue \in Seq({Packet("OFFLINE")}) /\ Packet("OFFLINE") \in PacketType
    BY PacketTypes DEF TypeOK, Op
  <2> QED  BY <2>1
<1>4. link' = (first \o queue) \o last
  BY DEF Reconnect
<1> HIDE DEF first, last
<1>5. /\ first \o queue \in Seq(PacketType) /\ Len(first \o queue) = Len(first) + Len(queue)
      /\ \A i \in 1..Len(first) + Len(queue) :
             (first \o queue)[i] = IF i <= Len(first) THEN first[i] ELSE queue[i - Len(first)]
  BY <1>1, <1>3, ConcatProperties
<1> DEFINE most == first \o queue
<1> HIDE DEF most
<1>6. /\ link' \in Seq(PacketType) /\ Len(link') = Len(most) + Len(last)
      /\ \A i \in 1..Len(most) + Len(last) :
             link'[i] = IF i <= Len(most) THEN most[i] ELSE last[i - Len(most)]
  BY <1>2, <1>4, <1>5, ConcatProperties DEF most
<1>7. \A i \in 1..Len(most) : IF i <= Len(first) THEN most[i] = first[i]
                              ELSE most[i] = Packet("OFFLINE")
  <2> SUFFICES ASSUME NEW i \in 1..Len(most)
               PROVE  IF i <= Len(first) THEN most[i] = first[i] ELSE most[i] = Packet("OFFLINE")
    OBVIOUS
  <2>1. /\ Len(first) \in Nat /\ Len(queue) \in Nat /\ i \in 1..Len(first) + Len(queue)
        /\ most[i] = IF i <= Len(first) THEN first[i] ELSE queue[i - Len(first)]
    BY <1>1, <1>3, <1>5 DEF most
  <2>2. ~(i <= Len(first)) => i - Len(first) \in 1..Len(queue)
    BY <2>1
  <2> QED  BY <1>3, <2>1, <2>2
<1>8. Len(most) = Len(first) + Len(queue)
  BY <1>5 DEF most
<1>9. ASSUME NEW i \in 1..Len(link')
       PROVE  \/ i <= Len(first) /\ link'[i] = [op |-> "resubscribe", topics |-> subs]
              \/ i > Len(first) /\ link'[i] = Packet("OFFLINE")
              \/ i > Len(first) /\ callback /\ link'[i] = StatePacket("again")
  <2>1. Len(most) \in Nat /\ i \in 1..Len(most) + Len(last)
    BY <1>1, <1>3, <1>6, <1>8
  <2>2. CASE i <= Len(first)
    BY <1>1, <1>3, <1>6, <1>7, <1>8, <2>1, <2>2
  <2>3. CASE i > Len(first) /\ i <= Len(most)
    BY <1>1, <1>6, <1>7, <2>1, <2>3
  <2>4. CASE i > Len(most)
    <3>1. i - Len(most) \in 1..Len(last) /\ i > Len(first) /\ ~(i <= Len(most))
      BY <1>1, <1>2, <1>3, <1>8, <2>1, <2>4
    <3> QED  BY <1>2, <1>6, <2>1, <3>1
  <2> QED  BY <1>1, <2>1, <2>2, <2>3, <2>4
<1>10. /\ Packet("OFFLINE").op = "OFFLINE" /\ Packet("OFFLINE").topics = {}
       /\ StatePacket("again").op \in {"state", "again"} /\ StatePacket("again").topics = {}
       /\ callback => Needed(StatePacket("again").op, starts) \subseteq subs
       /\ Needed("OFFLINE", starts) = {} /\ Needed("resubscribe", starts) = {}
  BY StateNeeds DEF Packet, Needed, Reconnect
<1>11. subs # {} => 1 \in 1..Len(link') /\ 1 <= Len(first)
  <2>1. /\ Len(first) \in Nat /\ Len(queue) \in Nat /\ Len(last) \in Nat
        /\ Len(link') = Len(first) + Len(queue) + Len(last)
    BY <1>1, <1>2, <1>3, <1>6, <1>8
  <2> QED  BY <1>1, <2>1, SMTT(20)
<1>12. \A i \in 1..Len(link') : \/ i <= Len(first) /\ link'[i].op = "resubscribe"
                                                   /\ link'[i].topics = subs
                                \/ i > Len(first) /\ link'[i].op \in {"OFFLINE", "state", "again"}
                                                  /\ link'[i].topics = {}
                                                  /\ Needed(link'[i].op, starts) \subseteq subs
  BY <1>9, <1>10
<1>13. \A t \in Topics : t \in subs <=> \E i \in 1..Len(link') : t \in link'[i].topics
  <2>1. ASSUME NEW t \in Topics, t \in subs PROVE \E i \in 1..Len(link') : t \in link'[i].topics
    <3>1. 1 \in 1..Len(link') /\ link'[1].topics = subs
      BY <1>11, <1>12, <2>1
    <3> QED  BY <2>1, <3>1
  <2>2. ASSUME NEW t \in Topics, NEW i \in 1..Len(link'), t \in link'[i].topics PROVE t \in subs
    BY <1>12, <2>2
  <2> QED  BY <2>1, <2>2
<1>14. ASSUME NEW i \in 1..Len(link'), NEW t \in Needed(link'[i].op, starts)
        PROVE  \E j \in 1..(i - 1) : t \in link'[j].topics
  <2>1. i > Len(first) /\ t \in subs
    BY <1>10, <1>12, <1>14
  <2>2. 1 \in 1..Len(link') /\ 1 <= Len(first) /\ link'[1].topics = subs
    <3>1. 1 \in 1..Len(link') /\ 1 <= Len(first)
      BY <1>11, <2>1
    <3> QED  BY <1>1, <1>12, <3>1
  <2>3. 1 \in 1..(i - 1)
    BY <1>1, <2>1, <2>2
  <2> QED  BY <2>1, <2>2, <2>3
<1> QED  BY <1>6, <1>12, <1>13, <1>14

LEMMA ReconnectInv == SessionInv /\ Reconnect => SessionInv'
<1> SUFFICES ASSUME SessionInv, Reconnect PROVE SessionInv'
  OBVIOUS
<1> USE DEF SessionInv, Reconnect, agvVars, brokerVars, masterVars, bounds
<1>0. /\ Tracked' /\ inbox' \in Seq(ConnectionState)
      /\ retained' \in ConnectionState \cup {"none"} /\ retained' # "ONLINE"
      /\ alive' = TRUE /\ broker' = {}
  BY TakenOver
<1>a. /\ link' \in Seq(PacketType)
      /\ \A i \in 1..Len(link') : link'[i].op \in {"resubscribe", "OFFLINE", "state", "again"}
      /\ \A t \in Topics : t \in subs <=> \E i \in 1..Len(link') : t \in link'[i].topics
      /\ \A i \in 1..Len(link') : \A t \in Needed(link'[i].op, starts) :
             \E j \in 1..(i - 1) : t \in link'[j].topics
  BY SentAgain DEF Subscribed
<1>b. /\ life \in {"announcing", "started", "detaching", "leaving"} /\ connected' = TRUE
      /\ queue' = <<>> /\ timer' \in BOOLEAN
      /\ UNCHANGED <<life, setup, acked, subs, callback, master, handler, tracked, told, bounds>>
  BY DEF Started, TypeOK
<1>c. queue' \in Seq({Packet("OFFLINE")})
  BY <1>b, Short
<1>1. TypeOK'
  BY <1>0, <1>a, <1>b, <1>c DEF TypeOK, PacketType
<1>2. Subscribed'
  <2>1. UNCHANGED <<life, setup, callback, subs, starts>>
    BY <1>b
  <2>2. Coming'
    <3>1. \A t \in Topics : t \in subs' <=>
              t \in broker' \/ \E i \in 1..Len(link') : t \in link'[i].topics
      BY <1>0, <1>a, <2>1
    <3>2. \A i \in 1..Len(link') : \A t \in Needed(link'[i].op, starts') :
              t \in broker' \/ \E j \in 1..(i - 1) : t \in link'[j].topics
      BY <1>a, <2>1
    <3> QED  BY <3>1, <3>2 DEF Coming
  <2>3. Setup'
    BY <1>b, <2>1 DEF Subscribed, Setup
  <2> QED  BY <2>2, <2>3 DEF Subscribed
<1>3. Link'
  BY <1>0, <1>a, <1>b DEF Link
<1>4. Left'
  BY <1>0, <1>a, <1>b DEF Left
<1>5. Tracked'
  BY <1>0
<1> QED  BY <1>1, <1>2, <1>3, <1>4, <1>5

LEMMA BrokerNoticesInv == SessionInv /\ BrokerNotices => SessionInv'
<1> SUFFICES ASSUME SessionInv, BrokerNotices PROVE SessionInv'
  OBVIOUS
<1> USE DEF SessionInv, BrokerNotices, agvVars, brokerVars, masterVars, bounds
<1>0. /\ Retain("CONNECTIONBROKEN") /\ "CONNECTIONBROKEN" \in ConnectionState
      /\ retained' = "CONNECTIONBROKEN" /\ ~connected /\ link = <<>> /\ Len(link) = 0
  BY DEF Retain, ConnectionState, Link
<1>a. Tracked' /\ inbox' \in Seq(ConnectionState)
  BY <1>0, Retained DEF TypeOK
<1>b. alive' = FALSE /\ broker' = {} /\ UNCHANGED <<agvVars, link, master, handler, tracked, told, bounds>>
  OBVIOUS
<1>1. TypeOK'
  BY <1>0, <1>a, <1>b DEF TypeOK
<1>2. Subscribed'
  BY <1>0, <1>b DEF Subscribed, Coming, Setup
<1>3. Link'
  BY <1>0, <1>b DEF Link
<1>4. Left'
  BY <1>0, <1>b DEF Left
<1>5. Tracked'
  BY <1>a
<1> QED  BY <1>1, <1>2, <1>3, <1>4, <1>5

LEMMA MasterSubscribesInv == SessionInv /\ MasterSubscribes => SessionInv'
<1> SUFFICES ASSUME SessionInv, MasterSubscribes PROVE SessionInv'
  OBVIOUS
<1> USE DEF SessionInv, MasterSubscribes, agvVars, brokerVars, masterVars, bounds
<1>0. inbox' \in Seq(ConnectionState)
  BY Short DEF TypeOK
<1>a. /\ retained = "none" => inbox' = <<>>
      /\ retained # "none" => inbox' # <<>> /\ Len(inbox') = 1 /\ inbox'[1] = retained
  OBVIOUS
<1>b. UNCHANGED <<agvVars, brokerVars, handler, tracked, told, bounds>>
  OBVIOUS
<1>1. TypeOK'
  BY <1>0, <1>a, <1>b DEF TypeOK
<1>2. Subscribed'
  BY DEF Subscribed, Coming, Setup
<1>3. Link'
  BY DEF Link
<1>4. Left'
  BY DEF Left
<1>5. Tracked'
  BY <1>a, <1>b DEF Tracked
<1> QED  BY <1>1, <1>2, <1>3, <1>4, <1>5

LEMMA MasterLosesConnectionInv == SessionInv /\ MasterLosesConnection => SessionInv'
<1> SUFFICES ASSUME SessionInv, MasterLosesConnection PROVE SessionInv'
  OBVIOUS
<1> USE DEF SessionInv, MasterLosesConnection, MasterDisconnects, agvVars, brokerVars, masterVars, bounds
<1>0. /\ inbox' \in Seq(ConnectionState) /\ master' = FALSE
      /\ UNCHANGED <<agvVars, brokerVars, starts, losses>>
  BY Short
<1>a. changes' \in Nat
  BY DEF TypeOK
<1>b. /\ tracked' \in {tracked, "none"} /\ told' \in {told, "none"} /\ handler' \in BOOLEAN
  BY DEF TypeOK
<1>1. TypeOK'
  BY <1>0, <1>a, <1>b, ZenonT(30) DEF TypeOK
<1>2. Subscribed'
  BY DEF Subscribed, Coming, Setup
<1>3. Link'
  BY DEF Link
<1>4. Left'
  BY DEF Left
<1>5. Tracked'
  BY DEF TypeOK, Tracked
<1> QED  BY <1>1, <1>2, <1>3, <1>4, <1>5

LEMMA MasterStopsInv == SessionInv /\ MasterStops => SessionInv'
<1> SUFFICES ASSUME SessionInv, MasterStops PROVE SessionInv'
  OBVIOUS
<1> USE DEF SessionInv, MasterStops, MasterDisconnects, agvVars, brokerVars, masterVars, bounds
<1>0. /\ inbox' \in Seq(ConnectionState) /\ master' = FALSE
      /\ UNCHANGED <<agvVars, brokerVars, starts, losses>>
  BY Short
<1>a. changes' \in Nat
  BY DEF TypeOK
<1>b. /\ tracked' \in {tracked, "none"} /\ told' \in {told, "none"} /\ handler' \in BOOLEAN
  BY DEF TypeOK
<1>1. TypeOK'
  BY <1>0, <1>a, <1>b DEF TypeOK
<1>2. Subscribed'
  BY DEF Subscribed, Coming, Setup
<1>3. Link'
  BY DEF Link
<1>4. Left'
  BY DEF Left
<1>5. Tracked'
  BY DEF TypeOK, Tracked
<1> QED  BY <1>1, <1>2, <1>3, <1>4, <1>5

LEMMA MasterReceivesInv == SessionInv /\ MasterReceives => SessionInv'
<1> SUFFICES ASSUME SessionInv, MasterReceives PROVE SessionInv'
  OBVIOUS
<1> USE DEF SessionInv, MasterReceives, agvVars, brokerVars, masterVars, bounds
<1>0. /\ inbox \in Seq(ConnectionState) /\ inbox # <<>> /\ inbox' = Tail(inbox)
      /\ tracked' = Head(inbox) /\ told' = IF handler THEN Head(inbox) ELSE told
      /\ UNCHANGED <<agvVars, brokerVars, master, handler, bounds>>
  BY DEF TypeOK
<1>a. /\ inbox' \in Seq(ConnectionState) /\ Head(inbox) \in ConnectionState
      /\ Head(inbox) = inbox[1] /\ Len(inbox) \in Nat /\ Len(inbox') = Len(inbox) - 1
      /\ \A i \in 1..Len(inbox') : inbox'[i] = inbox[i + 1]
  BY <1>0
<1>b. inbox' = <<>> => Len(inbox) = 1
  <2>1. inbox' = <<>> => Len(inbox') = 0
    OBVIOUS
  <2> QED  BY <1>a, <2>1
<1>c. inbox' # <<>> => inbox'[Len(inbox')] = inbox[Len(inbox)]
  <2>1. inbox' # <<>> => Len(inbox') \in 1..Len(inbox') /\ Len(inbox') + 1 = Len(inbox)
    BY <1>a
  <2> QED  BY <1>a, <2>1
<1>1. TypeOK'
  BY <1>0, <1>a DEF TypeOK
<1>2. Subscribed'
  BY DEF Subscribed, Coming, Setup
<1>3. Link'
  BY DEF Link
<1>4. Left'
  BY DEF Left
<1>5. Tracked'
  <2>1. inbox[Len(inbox)] = retained /\ retained # "none" /\ master
    <3>1. master /\ inbox[Len(inbox)] = retained
      BY <1>0 DEF Tracked
    <3>2. Len(inbox) \in 1..Len(inbox)
      BY <1>0
    <3>3. inbox[Len(inbox)] \in ConnectionState
      BY <1>0, <3>2
    <3> QED  BY <3>1, <3>3 DEF ConnectionState
  <2>2. inbox' = <<>> => tracked' = retained
    BY <1>0, <1>a, <1>b, <2>1
  <2> QED  BY <1>0, <1>c, <2>1, <2>2 DEF Tracked
<1> QED  BY <1>1, <1>2, <1>3, <1>4, <1>5

(* A step of a connected client that sends the packets ps. *)
LEMMA Sending ==
  ASSUME SessionInv, connected, life # "ending", NEW ps \in Seq(PacketType),
         Send(ps, TRUE) \/ Send(ps, FALSE), UNCHANGED <<connected, alive, broker, retained, starts>>,
         life' \in {"leaving", "ending"} =>
             life = "leaving" \/ \E i \in 1..Len(ps) : ps[i].op = "OFFLINE",
         \A t \in Topics : t \in subs' <=> t \in subs \/ \E i \in 1..Len(ps) : t \in ps[i].topics,
         \A i \in 1..Len(ps) : /\ ps[i].op # "ONLINE"
                               /\ ps[i].op = "disconnect" => i = Len(ps) /\ life' = "ending"
                               /\ Needed(ps[i].op, starts) \subseteq subs
                               /\ Needed(ps[i].op, starts) # {} => i = 1
  PROVE  Coming' /\ Link' /\ Left' /\ link' \in Seq(PacketType) /\ queue' = queue
<1> USE DEF SessionInv
<1>1. link \in Seq(PacketType) /\ Len(link) \in Nat /\ Len(ps) \in Nat
  BY DEF TypeOK, PacketType
<1>2. /\ link' \in Seq(PacketType) /\ queue' = queue
      /\ Len(link') = Len(link) + Len(ps)
      /\ \A i \in 1..Len(link) : link'[i] = link[i]
      /\ \A i \in 1..Len(ps) : link'[Len(link) + i] = ps[i]
  BY <1>1, Sent
<1>3. ASSUME NEW k \in 1..Len(link')
      PROVE  \/ k \in 1..Len(link) /\ link'[k] = link[k]
             \/ /\ k > Len(link) /\ k - Len(link) \in 1..Len(ps)
                /\ link'[k] = ps[k - Len(link)]
  <2>1. k \in Nat /\ k >= 1 /\ k <= Len(link) + Len(ps)
    BY <1>1, <1>2
  <2>2. CASE k <= Len(link)
    BY <1>1, <1>2, <2>1, <2>2
  <2>3. CASE k > Len(link)
    <3>1. k - Len(link) \in 1..Len(ps) /\ Len(link) + (k - Len(link)) = k
      BY <1>1, <2>1, <2>3
    <3>2. link'[Len(link) + (k - Len(link))] = ps[k - Len(link)]
      BY <1>2, <3>1
    <3> QED  BY <2>3, <3>1, <3>2
  <2> QED  BY <1>1, <2>1, <2>2, <2>3
<1>4. \A i \in 1..Len(link) : i \in 1..Len(link')
  BY <1>1, <1>2
<1>5. \A i \in 1..Len(ps) : Len(link) + i \in 1..Len(link')
  BY <1>1, <1>2
<1>6. ASSUME NEW t \in Topics
      PROVE  t \in subs' <=> t \in broker' \/ \E i \in 1..Len(link') : t \in link'[i].topics
  <2>1. t \in subs <=> t \in broker \/ \E i \in 1..Len(link) : t \in link[i].topics
    BY DEF Subscribed, Coming
  <2>2. (\E i \in 1..Len(link) : t \in link[i].topics) =>
            \E i \in 1..Len(link') : t \in link'[i].topics
    BY <1>2, <1>4
  <2>3. (\E i \in 1..Len(ps) : t \in ps[i].topics) =>
            \E i \in 1..Len(link') : t \in link'[i].topics
    BY <1>2, <1>5
  <2>4. (\E i \in 1..Len(link') : t \in link'[i].topics) =>
            \/ \E i \in 1..Len(link) : t \in link[i].topics
            \/ \E i \in 1..Len(ps) : t \in ps[i].topics
    BY <1>3
  <2> QED  BY <2>1, <2>2, <2>3, <2>4
<1>7. ASSUME NEW k \in 1..Len(link'), NEW t \in Needed(link'[k].op, starts)
      PROVE  t \in broker' \/ \E j \in 1..(k - 1) : t \in link'[j].topics
  <2>1. CASE k \in 1..Len(link) /\ link'[k] = link[k]
    <3>1. t \in broker \/ \E j \in 1..(k - 1) : t \in link[j].topics
      BY <1>7, <2>1 DEF Subscribed, Coming
    <3>2. \A j \in 1..(k - 1) : j \in 1..Len(link)
      BY <1>1, <2>1
    <3> QED  BY <1>2, <3>1, <3>2
  <2>2. CASE /\ k > Len(link) /\ k - Len(link) \in 1..Len(ps) /\ link'[k] = ps[k - Len(link)]
    <3>1. t \in subs /\ k - Len(link) = 1
      BY <1>7, <2>2
    <3>2. k - 1 = Len(link)
      BY <1>1, <3>1
    <3>3. t \in broker \/ \E j \in 1..Len(link) : t \in link[j].topics
      BY <3>1 DEF Subscribed, Coming, TypeOK
    <3> QED  BY <1>2, <3>2, <3>3
  <2> QED  BY <1>3, <2>1, <2>2
<1>8. Coming'
  BY <1>6, <1>7 DEF Coming
<1>9. ASSUME NEW k \in 1..Len(link')
      PROVE  /\ link'[k].op = "ONLINE" => k = 1
             /\ link'[k].op = "disconnect" => k = Len(link') /\ life' = "ending"
  <2>1. CASE k \in 1..Len(link) /\ link'[k] = link[k]
    BY <2>1 DEF Link
  <2>2. CASE /\ k > Len(link) /\ k - Len(link) \in 1..Len(ps) /\ link'[k] = ps[k - Len(link)]
    <3>1. ps[k - Len(link)].op = "disconnect" => k - Len(link) = Len(ps) /\ life' = "ending"
      BY <2>2
    <3>2. k - Len(link) = Len(ps) => k = Len(link')
      BY <1>1, <1>2
    <3> QED  BY <2>2, <3>1, <3>2
  <2> QED  BY <1>3, <2>1, <2>2
<1>10. Link'
  BY <1>9 DEF Link
<1>11. Left'
  <2>1. CASE life = "leaving"
    <3>1. CASE \E i \in 1..Len(link) : link[i].op = "OFFLINE"
      BY <1>2, <1>4, <3>1 DEF Left, Link
    <3>2. CASE retained # "ONLINE" /\ \A i \in 1..Len(link) : link[i].op # "ONLINE"
      <4>1. \A i \in 1..Len(link') : link'[i].op # "ONLINE"
        BY <1>3, <3>2
      <4> QED  BY <3>2, <4>1 DEF Left
    <3> QED  BY <2>1, <3>1, <3>2 DEF Left
  <2>2. CASE life # "leaving"
    <3>1. (\E i \in 1..Len(ps) : ps[i].op = "OFFLINE") =>
              \E i \in 1..Len(link') : link'[i].op = "OFFLINE"
      BY <1>2, <1>5
    <3> QED  BY <2>2, <3>1 DEF Left
  <2> QED  BY <2>1, <2>2
<1> QED  BY <1>2, <1>8, <1>10, <1>11

(* A step of a client that is not connected sends nothing. *)
LEMMA NotSending ==
  ASSUME SessionInv, ~connected, UNCHANGED <<link, connected, alive, broker, retained, starts>>
  PROVE  Coming' /\ Link' /\ Left'
<1>1. link = <<>> /\ Len(link) = 0
  BY DEF SessionInv, Link
<1> QED  BY <1>1 DEF SessionInv, Coming, Link, Left

(* The same of subscriptions: by Subscribe, from life to life.             *)
LEMMA SubscribeInv ==
  ASSUME SessionInv, NEW topic \in Topics, Subscribe(topic),
         setup \in {"attaching", "order"}, setup = "attaching" => topic = "order",
         setup = "order" => topic = "instantActions",
         UNCHANGED <<life, callback, timer, connected, alive, broker, retained, masterVars, bounds>>
  PROVE  SessionInv'
<1> USE DEF SessionInv
<1>1. CASE ~Started
  <2>1. UNCHANGED <<acked, subs, link, queue>> /\ setup' = "failed"
    BY <1>1 DEF Subscribe
  <2>2. TypeOK'
    BY <2>1 DEF TypeOK, masterVars, bounds
  <2>3. Coming' /\ Setup'
    BY <1>1, <2>1 DEF Subscribed, Coming, Setup, Started, bounds
  <2>4. Link' /\ Left' /\ Tracked'
    BY <2>1 DEF Link, Left, Tracked, masterVars
  <2> QED  BY <2>2, <2>3, <2>4 DEF Subscribed
<1>2. CASE Started
  <2> DEFINE p == [op |-> "subscribe", topics |-> {topic}]
  <2>1. /\ setup' = topic /\ acked' = ~connected /\ subs' = subs \cup {topic}
        /\ Send(<<p>>, TRUE)
    BY <1>2 DEF Subscribe
  <2>2. <<p>> \in Seq(PacketType) /\ Len(<<p>>) = 1 /\ <<p>>[1] = p
    BY PacketTypes, Short DEF Op
  <2>3. Coming' /\ Link' /\ Left' /\ link' \in Seq(PacketType) /\ queue' = queue
    <3>1. CASE connected
      <4>1. life # "ending" /\ life' = life
        BY <1>2 DEF Started
      <4>2. \A i \in 1..Len(<<p>>) : /\ <<p>>[i].op = "subscribe" /\ <<p>>[i].topics = {topic}
                                     /\ Needed(<<p>>[i].op, starts) = {}
        BY <2>2 DEF Needed
      <4>3. \A t \in Topics : t \in subs' <=>
                t \in subs \/ \E i \in 1..Len(<<p>>) : t \in <<p>>[i].topics
        BY <2>1, <2>2, <4>2
      <4> HIDE DEF p
      <4> QED  BY <2>1, <2>2, <3>1, <4>1, <4>2, <4>3, Sending DEF bounds
    <3>2. CASE ~connected
      <4>1. link' = link /\ queue' = queue
        BY <2>1, <3>2, NotSent
      <4> QED  BY <3>2, <4>1, NotSending DEF TypeOK, PacketType, bounds
    <3> QED  BY <3>1, <3>2
  <2>4. TypeOK'
    <3>1. queue' \in Seq({Packet("OFFLINE")}) /\ link' \in Seq([op : Op, topics : SUBSET Topics])
      BY <2>3 DEF TypeOK, PacketType
    <3>2. subs' \in SUBSET Topics /\ acked' \in BOOLEAN /\ setup' \in Topics
      BY <2>1 DEF TypeOK
    <3> QED  BY <3>1, <3>2 DEF TypeOK, masterVars, bounds
  <2>5. Setup'
    BY <1>2, <2>1 DEF Subscribed, Setup, Started, Topics, TypeOK, bounds
  <2>6. Tracked'
    BY DEF Tracked, masterVars
  <2> QED  BY <2>3, <2>4, <2>5, <2>6 DEF Subscribed
<1> QED  BY <1>1, <1>2

LEMMA AttachedInv == SessionInv /\ Attached => SessionInv'
BY SubscribeInv DEF Attached, Topics

LEMMA OrderSubscribedInv == SessionInv /\ OrderSubscribed => SessionInv'
BY SubscribeInv DEF OrderSubscribed, Topics

(* The same of the other packets, which are about no subscription.         *)
LEMMA SendInv ==
  ASSUME SessionInv, NEW ps \in Seq(PacketType), Send(ps, TRUE), life # "ending",
         UNCHANGED <<subs, connected, alive, broker, retained, starts>>,
         life' \in {"leaving", "ending"} =>
             life = "leaving" \/ \E i \in 1..Len(ps) : ps[i].op = "OFFLINE",
         \A i \in 1..Len(ps) : /\ ps[i].op # "ONLINE" /\ ps[i].topics = {}
                               /\ ps[i].op = "disconnect" => i = Len(ps) /\ life' = "ending"
                               /\ Needed(ps[i].op, starts) \subseteq subs
                               /\ Needed(ps[i].op, starts) # {} => i = 1
  PROVE  Coming' /\ Link' /\ Left' /\ link' \in Seq(PacketType) /\ queue' = queue
<1>1. CASE connected
  BY <1>1, Sending
<1>2. CASE ~connected
  <2>1. link' = link /\ queue' = queue
    BY <1>2, NotSent
  <2> QED  BY <1>2, <2>1, NotSending DEF SessionInv, TypeOK, PacketType
<1> QED  BY <1>1, <1>2

LEMMA OnePacket ==
  ASSUME NEW op \in Op
  PROVE  /\ <<Packet(op)>> \in Seq(PacketType) /\ Len(<<Packet(op)>>) = 1
         /\ \A i \in 1..Len(<<Packet(op)>>) :
                <<Packet(op)>>[i].op = op /\ <<Packet(op)>>[i].topics = {} /\ i = 1
<1> DEFINE p == Packet(op)
<1>1. p \in PacketType /\ p.op = op /\ p.topics = {}
  BY PacketTypes
<1> HIDE DEF p
<1>2. <<p>> \in Seq(PacketType) /\ Len(<<p>>) = 1 /\ <<p>>[1] = p
  BY <1>1, Short
<1> QED  BY <1>1, <1>2 DEF p

LEMMA InstantActionsSubscribedInv == SessionInv /\ InstantActionsSubscribed => SessionInv'
<1> SUFFICES ASSUME SessionInv, InstantActionsSubscribed PROVE SessionInv'
  OBVIOUS
<1> USE DEF SessionInv
<1>1. /\ setup = "instantActions" /\ setup' = "done" /\ callback' = TRUE /\ timer' = TRUE
      /\ UNCHANGED <<life, acked, subs, connected, alive, broker, retained, masterVars, bounds>>
  BY DEF InstantActionsSubscribed
<1>2. Coming' /\ Link' /\ Left' /\ link' \in Seq(PacketType) /\ queue' = queue
  <2>1. CASE Started
    <3>1. Send(<<Packet("initial")>>, TRUE) /\ life # "ending" /\ subs = Topics
      BY <1>1, <2>1 DEF InstantActionsSubscribed, Started, Subscribed, Setup
    <3>2. "initial" \in Op
      BY DEF Op, StateOp
    <3> DEFINE ps == <<Packet("initial")>>
    <3>3. ps \in Seq(PacketType) /\ \A i \in 1..Len(ps) : ps[i].op = "initial" /\ ps[i].topics = {}
                                                         /\ i = 1
      BY <3>2, OnePacket
    <3>6. Needed("initial", starts) = Topics
      BY DEF Needed
    <3> HIDE DEF ps
    <3>4. Send(ps, TRUE)
      BY <3>1 DEF ps
    <3>5. life' \in {"leaving", "ending"} => life = "leaving"
      BY <1>1, <3>1
    <3> QED  BY <1>1, <3>1, <3>3, <3>4, <3>5, <3>6, SendInv DEF bounds
  <2>2. CASE ~Started
    <3>1. UNCHANGED <<link, queue>>
      BY <2>2 DEF InstantActionsSubscribed
    <3> QED  BY <1>1, <3>1 DEF Subscribed, Coming, Link, Left, TypeOK, PacketType, bounds
  <2> QED  BY <2>1, <2>2
<1>3. TypeOK'
  BY <1>1, <1>2 DEF TypeOK, PacketType, masterVars, bounds
<1>4. Setup' /\ Tracked'
  BY <1>1 DEF Subscribed, Setup, Tracked, masterVars, bounds
<1> QED  BY <1>2, <1>3, <1>4 DEF Subscribed

LEMMA PublishCurrentStateInv == SessionInv /\ PublishCurrentState => SessionInv'
<1> SUFFICES ASSUME SessionInv, PublishCurrentState PROVE SessionInv'
  OBVIOUS
<1> USE DEF SessionInv
<1> DEFINE p == StatePacket("carried")
           ps == <<p>>
<1>1. /\ Started /\ timer' = TRUE /\ Send(ps, TRUE)
      /\ UNCHANGED <<life, setup, acked, subs, callback, connected, alive, broker, retained>>
      /\ UNCHANGED <<masterVars, bounds>>
  BY DEF PublishCurrentState
<1>0. /\ p \in PacketType /\ p.op \in {"state", "carried"} /\ p.topics = {}
      /\ Needed(p.op, starts) \subseteq subs
  BY <1>1, StateNeeds DEF Subscribed
<1> HIDE DEF p
<1>2. ps \in Seq(PacketType) /\ \A i \in 1..Len(ps) : ps[i] = p /\ i = 1
  BY <1>0, Short
<1> HIDE DEF ps
<1>3. life # "ending" /\ (life' \in {"leaving", "ending"} => life = "leaving")
  BY <1>1 DEF Started
<1>4. Coming' /\ Link' /\ Left' /\ link' \in Seq(PacketType) /\ queue' = queue
  BY <1>0, <1>1, <1>2, <1>3, SendInv DEF bounds
<1>5. TypeOK'
  BY <1>1, <1>4 DEF TypeOK, PacketType, masterVars, bounds
<1>6. Setup' /\ Tracked'
  BY <1>1 DEF Subscribed, Setup, Tracked, masterVars, bounds
<1> QED  BY <1>4, <1>5, <1>6 DEF Subscribed

LEMMA DisconnectInv == SessionInv /\ Disconnect => SessionInv'
<1> SUFFICES ASSUME SessionInv, Disconnect PROVE SessionInv'
  OBVIOUS
<1> USE DEF SessionInv
<1> DEFINE ps == <<Packet("disconnect")>>
<1>1. /\ life = "leaving" /\ life' = "ending" /\ Send(ps, TRUE)
      /\ UNCHANGED <<setup, acked, subs, callback, timer, connected, alive, broker, retained>>
      /\ UNCHANGED <<masterVars, bounds>>
  BY DEF Disconnect
<1>2. ps \in Seq(PacketType) /\ Len(ps) = 1
      /\ \A i \in 1..Len(ps) : ps[i].op = "disconnect" /\ ps[i].topics = {} /\ i = 1
  BY OnePacket DEF Op
<1> HIDE DEF ps
<1>3. Needed("disconnect", starts) = {}
  BY DEF Needed
<1>4. Coming' /\ Link' /\ Left' /\ link' \in Seq(PacketType) /\ queue' = queue
  BY <1>1, <1>2, <1>3, SendInv DEF bounds
<1>5. TypeOK'
  BY <1>1, <1>4 DEF TypeOK, PacketType, masterVars, bounds
<1>6. Setup' /\ Tracked'
  BY <1>1 DEF Subscribed, Setup, Tracked, masterVars, bounds
<1> QED  BY <1>4, <1>5, <1>6 DEF Subscribed

LEMMA DetachedInv == SessionInv /\ Detached => SessionInv'
<1> SUFFICES ASSUME SessionInv, Detached PROVE SessionInv'
  OBVIOUS
<1> USE DEF SessionInv
<1>1. /\ life = "detaching" /\ life' = "leaving" /\ timer' = FALSE
      /\ UNCHANGED <<setup, acked, subs, callback, connected, alive, broker, retained>>
      /\ UNCHANGED <<masterVars, bounds>>
  BY DEF Detached
<1>2. /\ Coming' /\ Link' /\ Left' /\ link' \in Seq(PacketType)
      /\ queue' \in Seq({Packet("OFFLINE")})
  <2>1. CASE connected
    <3> DEFINE p == StatePacket("carried")
               q == Packet("OFFLINE")
               ps == <<p, q>>
    <3>1. /\ p \in PacketType /\ p.op \in {"state", "carried"} /\ p.topics = {}
          /\ Needed(p.op, starts) \subseteq subs
      BY <1>1, StateNeeds DEF Subscribed, Started
    <3>2. /\ q \in PacketType /\ q.op = "OFFLINE" /\ q.topics = {}
          /\ Needed("OFFLINE", starts) = {}
      BY PacketTypes DEF Op, Needed
    <3>3. Send(ps, TRUE)
      BY <2>1 DEF Detached
    <3> HIDE DEF p, q
    <3>4. ps \in Seq(PacketType) /\ Len(ps) = 2 /\ ps[1] = p /\ ps[2] = q
      BY <3>1, <3>2
    <3> HIDE DEF ps
    <3>5. \A i \in 1..Len(ps) : (i = 1 /\ ps[i] = p) \/ (i = 2 /\ ps[i] = q)
      BY <3>4
    <3>6. ASSUME NEW i \in 1..Len(ps)
          PROVE  /\ ps[i].op # "ONLINE" /\ ps[i].topics = {}
                 /\ ps[i].op = "disconnect" => i = Len(ps) /\ life' = "ending"
                 /\ Needed(ps[i].op, starts) \subseteq subs
                 /\ Needed(ps[i].op, starts) # {} => i = 1
      <4>1. CASE i = 1 /\ ps[i] = p
        BY <3>1, <4>1
      <4>2. CASE i = 2 /\ ps[i] = q
        BY <3>2, <4>2
      <4> QED  BY <3>5, <4>1, <4>2
    <3>7. \E i \in 1..Len(ps) : ps[i].op = "OFFLINE"
      BY <3>2, <3>4
    <3>8. life # "ending" /\ UNCHANGED starts
      BY <1>1 DEF bounds
    <3>9. Coming' /\ Link' /\ Left' /\ link' \in Seq(PacketType) /\ queue' = queue
      BY <1>1, <3>3, <3>4, <3>6, <3>7, <3>8, SendInv
    <3> QED  BY <3>9 DEF TypeOK
  <2>2. CASE ~connected
    <3>1. link' = link /\ queue' = queue \o <<Packet("OFFLINE")>>
      BY <2>2 DEF Detached, Send
    <3>2. queue' \in Seq({Packet("OFFLINE")})
      BY <3>1, ConcatProperties DEF TypeOK
    <3> QED  BY <1>1, <2>2, <3>1, <3>2, NotSending DEF TypeOK, PacketType, bounds
  <2> QED  BY <2>1, <2>2
<1>3. TypeOK'
  BY <1>1, <1>2, ZenonT(30) DEF TypeOK, PacketType, masterVars, bounds
<1>4. Setup' /\ Tracked'
  BY <1>1 DEF Subscribed, Setup, Tracked, masterVars, bounds
<1> QED  BY <1>2, <1>3, <1>4 DEF Subscribed

LEMMA BrokerReceivesInv == SessionInv /\ BrokerReceives => SessionInv'
<1> SUFFICES ASSUME SessionInv, BrokerReceives PROVE SessionInv'
  OBVIOUS
<1> USE DEF SessionInv
<1> DEFINE op == link[1].op
           n == Len(link)
<1>1. link \in Seq(PacketType) /\ link # <<>> /\ connected /\ alive
  BY DEF BrokerReceives, TypeOK, PacketType, Link
<1>2. /\ link' = Tail(link) /\ Head(link) = link[1] /\ link[1] \in PacketType
      /\ link' \in Seq(PacketType) /\ n \in Nat \ {0} /\ Len(link') = n - 1
      /\ \A i \in 1..(n - 1) : link'[i] = link[i + 1]
  BY <1>1, Received DEF BrokerReceives
<1>3. /\ broker' = IF op = "disconnect" THEN {} ELSE broker \cup link[1].topics
      /\ acked' \in BOOLEAN /\ alive' = (op # "disconnect") /\ connected' = (op # "disconnect")
      /\ IF op \in {"ONLINE", "OFFLINE"} THEN Retain(op) ELSE UNCHANGED <<retained, inbox>>
      /\ UNCHANGED <<life, setup, subs, callback, timer, queue, master, handler, tracked, told>>
      /\ UNCHANGED bounds
  BY <1>2 DEF BrokerReceives, TypeOK
<1>4. /\ Tracked' /\ inbox' \in Seq(ConnectionState) /\ retained' \in ConnectionState \cup {"none"}
      /\ retained' = IF op \in {"ONLINE", "OFFLINE"} THEN op ELSE retained
  <2>1. CASE op \in {"ONLINE", "OFFLINE"}
    <3>1. op \in ConnectionState
      BY <2>1 DEF ConnectionState
    <3> QED  BY <1>3, <2>1, <3>1, Retained DEF Retain, TypeOK
  <2>2. CASE op \notin {"ONLINE", "OFFLINE"}
    BY <1>3, <2>2 DEF Tracked, TypeOK
  <2> QED  BY <2>1, <2>2
<1>5. /\ op \in Op /\ link[1].topics \in SUBSET Topics
      /\ 1 \in 1..n /\ \A i \in 1..(n - 1) : i + 1 \in 1..n
  BY <1>2 DEF PacketType
<1>6. \A i \in 1..n : /\ link[i].op = "ONLINE" => i = 1
                      /\ link[i].op = "disconnect" => i = n /\ life = "ending"
  BY DEF Link
<1> HIDE DEF op, n
<1>7. TypeOK'
  <2>1. broker' \in SUBSET Topics /\ alive' \in BOOLEAN /\ connected' \in BOOLEAN
    BY <1>3, <1>5 DEF TypeOK, op
  <2> QED  BY <1>2, <1>3, <1>4, <2>1 DEF TypeOK, PacketType, bounds
<1>8. CASE op = "disconnect"
  <2>1. link' = <<>> /\ Len(link') = 0 /\ life = "ending"
    BY <1>2, <1>5, <1>6, <1>8 DEF op
  <2>2. n = 1 /\ \A i \in 1..n : link[i].op = "disconnect"
    BY <1>2, <1>5, <1>6, <1>8 DEF op
  <2>3. retained # "ONLINE"
    BY <1>1, <2>1, <2>2 DEF Left, n
  <2>4. retained' # "ONLINE" /\ connected' = FALSE /\ alive' = FALSE /\ broker' = {}
    BY <1>3, <1>4, <1>8, <2>3
  <2>5. Coming' /\ Link' /\ Left'
    BY <2>1, <2>4 DEF Coming, Link, Left
  <2>6. Setup'
    BY <1>1, <1>3, <2>4 DEF Subscribed, Setup, bounds
  <2> QED  BY <1>4, <1>7, <2>5, <2>6 DEF Subscribed
<1>9. CASE op # "disconnect"
  <2>1. broker' = broker \cup link[1].topics /\ alive' = TRUE /\ connected' = TRUE
    BY <1>3, <1>9
  <2>2. \A j \in 1..n : j = 1 \/ (j - 1 \in 1..(n - 1) /\ link'[j - 1] = link[j])
    <3> SUFFICES ASSUME NEW j \in 1..n, j # 1
                 PROVE  j - 1 \in 1..(n - 1) /\ link'[j - 1] = link[j]
      OBVIOUS
    <3>1. j - 1 \in 1..(n - 1) /\ (j - 1) + 1 = j
      BY <1>2 DEF n
    <3>2. link'[j - 1] = link[(j - 1) + 1]
      BY <1>2, <3>1
    <3> QED  BY <3>1, <3>2
  <2>3. ASSUME NEW t \in Topics
        PROVE  t \in subs' <=> t \in broker' \/ \E i \in 1..Len(link') : t \in link'[i].topics
    <3>1. t \in subs <=> t \in broker \/ \E i \in 1..n : t \in link[i].topics
      BY <1>1 DEF Subscribed, Coming, n
    <3>2. (\E i \in 1..n : t \in link[i].topics) <=>
              t \in link[1].topics \/ \E i \in 1..(n - 1) : t \in link'[i].topics
      BY <1>2, <1>5, <2>2
    <3> QED  BY <1>2, <1>3, <2>1, <3>1, <3>2
  <2>4. ASSUME NEW i \in 1..Len(link'), NEW t \in Needed(link'[i].op, starts)
        PROVE  t \in broker' \/ \E j \in 1..(i - 1) : t \in link'[j].topics
    <3>1. i + 1 \in 1..n /\ link'[i] = link[i + 1] /\ (i + 1) - 1 = i /\ i \in Nat
      BY <1>2, <1>5
    <3>2. t \in broker \/ \E j \in 1..i : t \in link[j].topics
      BY <2>4, <3>1 DEF Subscribed, Coming, n
    <3>3. ASSUME NEW j \in 1..i, t \in link[j].topics
          PROVE  t \in link[1].topics \/ \E k \in 1..(i - 1) : t \in link'[k].topics
      <4>1. j \in 1..n /\ (j # 1 => j - 1 \in 1..(i - 1))
        BY <1>2, <3>1
      <4> QED  BY <2>2, <3>3, <4>1
    <3> QED  BY <2>1, <3>2, <3>3
  <2>5. Coming'
    BY <1>3, <2>3, <2>4 DEF Coming, bounds
  <2>6. \A i \in 1..Len(link') : /\ link'[i].op # "ONLINE"
                                 /\ link'[i].op = "disconnect" => i = Len(link') /\ life = "ending"
    <3> SUFFICES ASSUME NEW i \in 1..Len(link')
                 PROVE  /\ link'[i].op # "ONLINE"
                        /\ link'[i].op = "disconnect" => i = Len(link') /\ life = "ending"
      OBVIOUS
    <3>1. i \in 1..(n - 1) /\ i \in Nat /\ n \in Nat
      BY <1>2
    <3>2. i + 1 \in 1..n /\ link'[i] = link[i + 1] /\ i + 1 # 1
      BY <1>2, <1>5, <3>1
    <3>3. i + 1 = n => i = Len(link')
      BY <1>2, <3>1
    <3> QED  BY <1>6, <3>2, <3>3
  <2>7. Link'
    BY <1>3, <2>1, <2>6 DEF Link
  <2>8. Left'
    <3>1. CASE life \in {"leaving", "ending"}
      <4>1. CASE op = "OFFLINE"
        BY <1>3, <1>4, <2>1, <2>6, <4>1 DEF Left
      <4>2. CASE op # "OFFLINE" /\ \E i \in 1..n : link[i].op = "OFFLINE"
        <5>1. PICK i \in 1..n : link[i].op = "OFFLINE"
          BY <4>2
        <5>2. i - 1 \in 1..(n - 1) /\ link'[i - 1] = link[i]
          BY <2>2, <4>2, <5>1 DEF op
        <5>3. \E j \in 1..Len(link') : link'[j].op = "OFFLINE"
          BY <1>2, <5>1, <5>2
        <5> QED  BY <2>1, <5>3 DEF Left
      <4>3. CASE op # "OFFLINE" /\ ~\E i \in 1..n : link[i].op = "OFFLINE"
        <5>1. retained # "ONLINE" /\ op # "ONLINE"
          BY <1>1, <1>5, <3>1, <4>3 DEF Left, op, n
        <5> QED  BY <1>4, <2>1, <2>6, <4>3, <5>1 DEF Left
      <4> QED  BY <4>1, <4>2, <4>3
    <3>2. CASE life \notin {"leaving", "ending"}
      BY <1>3, <2>1, <3>2 DEF Left
    <3> QED  BY <3>1, <3>2
  <2>9. Setup'
    BY <1>1, <1>3, <2>1 DEF Subscribed, Setup, bounds
  <2> QED  BY <1>4, <1>7, <2>5, <2>7, <2>8, <2>9 DEF Subscribed
<1> QED  BY <1>8, <1>9

LEMMA NextInv == SessionInv /\ [Next]_vars => SessionInv'
<1> SUFFICES ASSUME SessionInv, [Next]_vars PROVE SessionInv'
  OBVIOUS
<1>1. CASE UNCHANGED vars
  BY <1>1 DEF vars, agvVars, brokerVars, masterVars, bounds, SessionInv, TypeOK, Subscribed,
              Coming, Setup, Link, Left, Tracked
<1>2. CASE Agv
  BY <1>2, ConnectInv, ConnectFailsInv, AnnouncedInv, ReconnectInv, DetachedInv, DisconnectInv,
     EndedInv, AttachedInv, OrderSubscribedInv, InstantActionsSubscribedInv DEF Agv
<1>3. CASE Next /\ ~Agv
  BY <1>3, StartInv, StopInv, ConnectionLostInv, PublishCurrentStateInv, BrokerReceivesInv,
     BrokerNoticesInv, MasterSubscribesInv, MasterLosesConnectionInv, MasterStopsInv,
     TrackAgvsInv, MasterReceivesInv DEF Next
<1> QED  BY <1>1, <1>2, <1>3

LEMMA Inductive == Spec => []SessionInv
BY InitInv, NextInv, PTL DEF Spec

(* TypeOK, for every bound. *)
THEOREM TypeCorrect == Spec => []TypeOK
<1>1. SessionInv => TypeOK
  BY DEF SessionInv
<1> QED  BY <1>1, Inductive, PTL

(* The initial state of the attached callback reaches the broker after     *)
(* both subscriptions, and so does the one of the connection callback in   *)
(* the first session; every other state that carries it, of                *)
(* _publishCurrentState or of a later session's connection callback, after *)
(* the subscription to orders.                                             *)
THEOREM StateAfterSubscriptions == Spec => []InitialStateSubscribed
<1>1. SessionInv => InitialStateSubscribed
  <2> SUFFICES ASSUME SessionInv, link # <<>>, NEW t \in Needed(Head(link).op, starts)
               PROVE  t \in broker
    BY DEF InitialStateSubscribed
  <2>1. /\ link \in Seq(PacketType) /\ Head(link) = link[1] /\ Len(link) \in Nat \ {0}
        /\ 1 \in 1..Len(link) /\ 1..(1 - 1) = {}
    BY DEF SessionInv, TypeOK, PacketType
  <2> QED  BY <2>1 DEF SessionInv, Subscribed, Coming
<1> QED  BY <1>1, Inductive, PTL

(* Subscriptions outlive the connections they were made in.                *)
THEOREM ReachedAgain == Spec => []ReachedWhenIdle
<1>1. SessionInv => ReachedWhenIdle
  <2> SUFFICES ASSUME SessionInv, Started, setup = "done", connected, link = <<>>
               PROVE  broker = Topics
    BY DEF ReachedWhenIdle
  <2>1. subs = Topics /\ Len(link) = 0
    BY DEF SessionInv, Subscribed, Setup, Started
  <2>2. \A t \in Topics : t \in broker
    BY <2>1 DEF SessionInv, Subscribed, Coming
  <2> QED  BY <2>2 DEF SessionInv, TypeOK
<1> QED  BY <1>1, Inductive, PTL

(* A client that has stopped is not taken to be online.                    *)
THEOREM StoppedIsNotOnline == Spec => []NeverLeftOnline
<1>1. SessionInv => NeverLeftOnline
  BY DEF SessionInv, Left, NeverLeftOnline
<1> QED  BY <1>1, Inductive, PTL

(* The master's view of the AGV follows the broker's.                      *)
THEOREM MasterFollows == Spec => []TrackedLatest
<1>1. SessionInv => TrackedLatest
  BY DEF SessionInv, Tracked, TrackedLatest
<1> QED  BY <1>1, Inductive, PTL
==============================================================================
