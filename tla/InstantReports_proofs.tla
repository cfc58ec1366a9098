------------------------- MODULE InstantReports_proofs -------------------------
(***************************************************************************)
(* What the application hears of its instant actions, for any messages and *)
(* any losses: if outcomes are published more often than state messages    *)
(* may be lost or be under way already, each outcome is heard, once and in *)
(* the order of what happened; and if one message is initiated at a time,  *)
(* a validation error is heard of the actions of its message.              *)
(***************************************************************************)
EXTENDS InstantReports, Integers, SequenceTheorems, FiniteSetTheorems, TLAPS

Enough == PublishCount > Capacity + MaxLost

Status == {"ABSENT", "RUNNING", "ENDED"}
State == [status : [ActionId -> Status], refused : SUBSET ActionId, invalid : Seq(Invalid),
          failed : SUBSET ActionId]

TypeOK ==
    /\ waiting \subseteq ActionId /\ refOf \in [ActionId -> Nat]
    /\ last \in [ActionId -> Status] /\ ref \in Nat
    /\ known \in Seq([ref : Int, error : Invalid])
    /\ awaited \subseteq [msg : Messages, ref : Nat]
    /\ initiated \subseteq Messages /\ messages \in Seq(Messages)
    /\ heard \in [ActionId -> Seq({"RUNNING", "ENDED"} \cup ActionId \cup Invalid)]
    /\ states \in Seq(State) /\ lost \in 0..MaxLost
    /\ online \in BOOLEAN /\ cuts \in Nat
    /\ checking \subseteq ActionId /\ accepted \subseteq ActionId
    /\ status \in [ActionId -> Status]
    /\ refused \subseteq ActionId /\ invalid \in Seq(Invalid) /\ failed \subseteq ActionId
    /\ count \in [About -> Nat] /\ acks \in 0..Capacity /\ removed \subseteq About

-----------------------------------------------------------------------------
(* The life of an action at the AGV. *)

Absent(a) == status[a] = "ABSENT"

(* An action is checked, accepted or refused, begins and ends once.        *)
Once ==
    \A a \in ActionId :
        /\ a \in checking => a \notin accepted
        /\ a \in checking \cup accepted => Absent(a) /\ a \notin refused \cup removed
        /\ a \in refused => Absent(a) /\ a \notin removed
        /\ a \in removed => Absent(a)
        /\ a \in failed => status[a] = "ENDED" \/ a \in removed

Arrived(a) == a \in checking \cup accepted \cup refused \cup removed \/ ~Absent(a)

Unsent(a) == \A m \in initiated : a \notin m.actions

(* An action arrives with its message, which is sent once.                 *)
SentOnce ==
    /\ \A i \in DOMAIN messages :
          /\ messages[i] \in initiated
          /\ \A j \in DOMAIN messages : messages[i] = messages[j] => i = j
          /\ \A a \in messages[i].actions : ~Arrived(a)
    /\ \A a \in ActionId : Unsent(a) => ~Arrived(a) /\ a \notin waiting

-----------------------------------------------------------------------------
(* What the state messages under way say of an action. *)

(* What state s says of action a. *)
Says(s, a) ==
    IF s.status[a] # "ABSENT" THEN s.status[a]
    ELSE IF a \in s.refused THEN "REFUSED"
    ELSE IF a \in s.failed THEN "FAILED"
    ELSE "NOTHING"

Now(a) ==
    IF ~Absent(a) THEN status[a]
    ELSE IF a \in refused THEN "REFUSED"
    ELSE IF a \in failed THEN "FAILED"
    ELSE "NOTHING"

Before == {"NOTHING", "RUNNING"}
Outcomes == {"ENDED", "REFUSED"}

(* What is left when the outcome has been removed. *)
After == {"NOTHING", "FAILED"}

(* Of the n states under way the first j say no outcome of an action yet,  *)
(* the next up to k do, and the others no longer.  It is now as cur says,  *)
(* or removed if gone.  Unless it is the outcome, that it is running is    *)
(* said until the outcome, once it has been told (ran).  The outcome is    *)
(* counted cnt times: for the publications that were under way when it     *)
(* came, for states that are lost and for those under way.                 *)
Track(q, n, j, k, cur, gone, ran, cnt, acked, missed) ==
    /\ \A l \in 1..j : q[l] \in Before
    /\ \A l \in (j + 1)..k : q[l] \in Outcomes
    /\ \A l \in (k + 1)..n : q[l] \in After
    /\ \A l \in 1..j : ran \/ q[l] = "RUNNING" =>
          \A i \in l..j : q[i] = "RUNNING"
    /\ ran \/ (\E l \in 1..j : q[l] = "RUNNING") =>
          /\ \A l \in (j + 1)..k : q[l] = "ENDED"
          /\ gone \/ cur \in {"RUNNING", "ENDED"}
    /\ IF gone
       THEN cur \in After /\ PublishCount <= cnt /\ cnt <= Capacity + missed + (k - j)
       ELSE /\ k = n
            /\ IF cur \in Before THEN j = n /\ cnt = 0
               ELSE cur \in Outcomes /\ cnt + acked <= Capacity + missed + (k - j)

Said(a) == [l \in DOMAIN states |-> Says(states[l], a)]

Pending(a) == a \in waiting \/ Unsent(a)

Tracked(a) ==
    /\ last[a] \in {"ABSENT", "RUNNING"}
    /\ heard[a] = IF last[a] = "ABSENT" THEN <<>> ELSE <<"RUNNING">>
    /\ \E j \in 0..Len(states) : \E k \in j..Len(states) :
          Track(Said(a), Len(states), j, k, Now(a), a \in removed, last[a] = "RUNNING",
                count[a], acks, lost)

Heard(a) ==
    heard[a] \in {<<>>, <<"RUNNING">>, <<"ENDED">>, <<"RUNNING", "ENDED">>}
                     \cup {<<x>> : x \in {a} \cup Invalid}

RInv ==
    /\ TypeOK /\ Once /\ SentOnce
    /\ \A a \in ActionId : IF Pending(a) THEN Tracked(a) ELSE Heard(a)

-----------------------------------------------------------------------------
(* How Track changes, for one action. *)

(* The action begins, ends or is refused. *)
LEMMA TrackChange ==
    ASSUME NEW q, NEW n \in Nat, NEW j \in 0..n, NEW k \in j..n, NEW cur, NEW ran \in BOOLEAN,
           NEW cnt \in Nat, NEW acked \in 0..Capacity, NEW missed \in 0..MaxLost,
           Track(q, n, j, k, cur, FALSE, ran, cnt, acked, missed), cur \in Before,
           NEW cur2 \in {"RUNNING"} \cup Outcomes, cur2 = "REFUSED" => cur = "NOTHING"
    PROVE  Track(q, n, j, k, cur2, FALSE, ran, cnt, acked, missed)
<1>1. k = n /\ j = n /\ cnt = 0
  BY DEF Track
<1>2. Capacity \in Nat /\ MaxLost \in Nat
  BY ReportsAssumption
<1>3. cnt + acked <= Capacity + missed + (k - j)
  BY <1>1, <1>2
<1>4. ran \/ (\E l \in 1..j : q[l] = "RUNNING") => cur = "RUNNING"
  BY DEF Track, Before
<1>5. ran \/ (\E l \in 1..j : q[l] = "RUNNING") => cur2 \in {"RUNNING", "ENDED"}
  BY <1>4 DEF Outcomes
<1>6. IF cur2 \in Before THEN j = n /\ cnt = 0
      ELSE cur2 \in Outcomes /\ cnt + acked <= Capacity + missed + (k - j)
  BY <1>1, <1>3 DEF Before, Outcomes
<1>7. /\ \A l \in 1..j : q[l] \in Before
      /\ \A l \in (j + 1)..k : q[l] \in Outcomes
      /\ \A l \in (k + 1)..n : q[l] \in After
      /\ \A l \in 1..j : ran \/ q[l] = "RUNNING" => \A i \in l..j : q[i] = "RUNNING"
      /\ ran \/ (\E l \in 1..j : q[l] = "RUNNING") => \A l \in (j + 1)..k : q[l] = "ENDED"
  BY DEF Track
<1> QED  BY <1>1, <1>5, <1>6, <1>7 DEF Track

Prolongs(q2, q, n, cur) == (\A l \in 1..n : q2[l] = q[l]) /\ q2[n + 1] = cur

TrackedBy(q, n, cur, gone, ran, cnt, acked, missed) ==
    \E j \in 0..n : \E k \in j..n : Track(q, n, j, k, cur, gone, ran, cnt, acked, missed)

(* The state is published. *)
LEMMA TrackPublish ==
    ASSUME NEW q, NEW n \in Nat, NEW j \in 0..n, NEW k \in j..n, NEW cur, NEW gone \in BOOLEAN,
           NEW ran \in BOOLEAN, NEW cnt \in Nat, NEW acked \in 0..Capacity,
           NEW missed \in 0..MaxLost,
           Track(q, n, j, k, cur, gone, ran, cnt, acked, missed),
           NEW q2, Prolongs(q2, q, n, cur)
    PROVE  TrackedBy(q2, n + 1, cur, gone, ran, cnt, acked + 1, missed)
<1> USE DEF Prolongs, TrackedBy
<1>1. Capacity \in Nat /\ MaxLost \in Nat /\ n + 1 \in Nat
  BY ReportsAssumption
<1>2. /\ \A l \in 1..j : q[l] \in Before
      /\ \A l \in (j + 1)..k : q[l] \in Outcomes
      /\ \A l \in (k + 1)..n : q[l] \in After
      /\ \A l \in 1..j : ran \/ q[l] = "RUNNING" => \A i \in l..j : q[i] = "RUNNING"
      /\ ran \/ (\E l \in 1..j : q[l] = "RUNNING") =>
            /\ \A l \in (j + 1)..k : q[l] = "ENDED"
            /\ gone \/ cur \in {"RUNNING", "ENDED"}
  BY DEF Track
<1>3. \A l \in 1..(n + 1) : l \in 1..n \/ l = n + 1
  OBVIOUS
<1>4. CASE gone
  <2>1. cur \in After /\ PublishCount <= cnt /\ cnt <= Capacity + missed + (k - j)
    BY <1>4 DEF Track
  <2>2. \A l \in (k + 1)..(n + 1) : q2[l] \in After
    BY <1>2, <2>1
  <2>3. \A l \in 1..k : q2[l] = q[l]
    OBVIOUS
  <2>4. Track(q2, n + 1, j, k, cur, gone, ran, cnt, acked + 1, missed)
    BY <1>2, <1>4, <2>1, <2>2, <2>3 DEF Track
  <2> QED  BY <2>4
<1>5. CASE ~gone /\ cur \in Before
  <2>1. k = n /\ j = n /\ cnt = 0
    BY <1>5 DEF Track
  <2>2. \A l \in 1..(n + 1) : q2[l] \in Before
    BY <1>2, <1>3, <1>5, <2>1
  <2>3. ran \/ (\E l \in 1..(n + 1) : q2[l] = "RUNNING") => cur = "RUNNING"
    <3>1. ran \/ (\E l \in 1..n : q[l] = "RUNNING") => cur = "RUNNING"
      BY <1>2, <1>5, <2>1 DEF Before
    <3> QED  BY <1>3, <3>1
  <2>4. ASSUME NEW l \in 1..(n + 1), ran \/ q2[l] = "RUNNING", NEW i \in l..(n + 1)
        PROVE  q2[i] = "RUNNING"
    <3>1. CASE i = n + 1
      BY <2>3, <2>4, <3>1
    <3>2. CASE i # n + 1
      <4>1. l \in 1..n /\ i \in l..n
        BY <2>4, <3>2
      <4>2. ran \/ q[l] = "RUNNING"
        BY <2>4, <4>1
      <4>3. q[i] = "RUNNING"
        BY <1>2, <2>1, <4>1, <4>2
      <4> QED  BY <4>1, <4>3
    <3> QED  BY <3>1, <3>2
  <2>5. Track(q2, n + 1, n + 1, n + 1, cur, gone, ran, cnt, acked + 1, missed)
    BY <1>5, <2>1, <2>2, <2>3, <2>4 DEF Track
  <2> QED  BY <2>5
<1>6. CASE ~gone /\ cur \notin Before
  <2>1. k = n /\ cur \in Outcomes /\ cnt + acked <= Capacity + missed + (k - j)
    BY <1>6 DEF Track
  <2>2. cnt + (acked + 1) <= Capacity + missed + ((n + 1) - j)
    BY <1>1, <2>1
  <2>3. \A l \in (j + 1)..(n + 1) : q2[l] \in Outcomes
    BY <1>2, <1>3, <2>1
  <2>4. \A l \in 1..j : q2[l] = q[l]
    OBVIOUS
  <2>5. ran \/ (\E l \in 1..j : q2[l] = "RUNNING") =>
            /\ \A l \in (j + 1)..(n + 1) : q2[l] = "ENDED"
            /\ cur = "ENDED"
    <3>1. ran \/ (\E l \in 1..j : q[l] = "RUNNING") => cur = "ENDED"
      BY <1>2, <1>6, <2>1 DEF Outcomes
    <3>2. ran \/ (\E l \in 1..j : q[l] = "RUNNING") => \A l \in (j + 1)..n : q2[l] = "ENDED"
      BY <1>2, <2>1
    <3> QED  BY <1>3, <2>4, <3>1, <3>2
  <2>6. \A l \in 1..j : ran \/ q2[l] = "RUNNING" => \A i \in l..j : q2[i] = "RUNNING"
    BY <1>2, <2>4
  <2>7. \A l \in 1..j : q2[l] \in Before
    BY <1>2, <2>4
  <2>8. Track(q2, n + 1, j, n + 1, cur, gone, ran, cnt, acked + 1, missed)
    BY <1>6, <2>1, <2>2, <2>3, <2>5, <2>6, <2>7 DEF Track
  <2> QED  BY <2>8
<1> QED  BY <1>4, <1>5, <1>6

(* A publication resolves: the outcome is counted, and perhaps removed.    *)
LEMMA TrackCounted ==
    ASSUME NEW q, NEW n \in Nat, NEW j \in 0..n, NEW k \in j..n, NEW cur, NEW gone \in BOOLEAN,
           NEW ran \in BOOLEAN, NEW cnt \in Nat, NEW acked \in 1..Capacity,
           NEW missed \in 0..MaxLost,
           Track(q, n, j, k, cur, gone, ran, cnt, acked, missed),
           NEW over, over <=> cur \in Outcomes /\ cnt + 1 >= PublishCount
    PROVE  Track(q, n, j, k, IF over THEN "NOTHING" ELSE cur, gone \/ over, ran,
                 IF cur \in Outcomes THEN cnt + 1 ELSE cnt, acked - 1, missed)
<1>1. Capacity \in Nat /\ MaxLost \in Nat /\ PublishCount \in Nat
  BY ReportsAssumption
<1>2. /\ \A l \in 1..j : q[l] \in Before
      /\ \A l \in (j + 1)..k : q[l] \in Outcomes
      /\ \A l \in (k + 1)..n : q[l] \in After
      /\ \A l \in 1..j : ran \/ q[l] = "RUNNING" => \A i \in l..j : q[i] = "RUNNING"
      /\ ran \/ (\E l \in 1..j : q[l] = "RUNNING") =>
            /\ \A l \in (j + 1)..k : q[l] = "ENDED"
            /\ gone \/ cur \in {"RUNNING", "ENDED"}
  BY DEF Track
<1>3. CASE gone
  <2>1. cur \in After /\ PublishCount <= cnt /\ cnt <= Capacity + missed + (k - j)
    BY <1>3 DEF Track
  <2>2. cur \notin Outcomes /\ ~over
    BY <2>1 DEF Outcomes, After
  <2>3. (gone \/ over) = TRUE /\ gone = TRUE
    BY <1>3
  <2> QED  BY <1>2, <2>1, <2>2, <2>3 DEF Track
<1>4. CASE ~gone /\ over
  <2>1. cur \in Outcomes /\ cnt + 1 >= PublishCount /\ k = n
        /\ cnt + acked <= Capacity + missed + (k - j)
    BY <1>4 DEF Track, Before, Outcomes
  <2>2. cnt + 1 <= Capacity + missed + (k - j)
    BY <1>1, <2>1
  <2> QED  BY <1>1, <1>2, <1>4, <2>1, <2>2 DEF Track, After
<1>5. CASE ~gone /\ ~over /\ cur \in Outcomes
  <2>1. k = n /\ cnt + acked <= Capacity + missed + (k - j)
    BY <1>5 DEF Track, Before, Outcomes
  <2>2. (cnt + 1) + (acked - 1) <= Capacity + missed + (k - j)
    BY <1>1, <2>1
  <2>3. cur \notin Before
    BY <1>5 DEF Before, Outcomes
  <2> QED  BY <1>2, <1>5, <2>1, <2>2, <2>3 DEF Track
<1>6. CASE ~gone /\ ~over /\ cur \notin Outcomes
  <2>1. k = n /\ cur \in Before /\ j = n /\ cnt = 0
    BY <1>6 DEF Track
  <2> QED  BY <1>2, <1>6, <2>1 DEF Track
<1> QED  BY <1>3, <1>4, <1>5, <1>6

(* What is left of an outcome that has been removed may change.            *)
LEMMA TrackAfter ==
    ASSUME NEW q, NEW n, NEW j, NEW k, NEW cur, NEW ran, NEW cnt, NEW acked, NEW missed,
           Track(q, n, j, k, cur, TRUE, ran, cnt, acked, missed), NEW cur2 \in After
    PROVE  Track(q, n, j, k, cur2, TRUE, ran, cnt, acked, missed)
BY DEF Track

(* What the next state to arrive may say: an outcome that is removed has   *)
(* been published so often that a state under way still says it.           *)
LEMMA TrackHead ==
    ASSUME Enough, NEW q, NEW n \in Nat \ {0}, NEW j \in 0..n, NEW k \in j..n, NEW cur,
           NEW gone \in BOOLEAN, NEW ran \in BOOLEAN, NEW cnt \in Nat, NEW acked \in 0..Capacity,
           NEW missed \in 0..MaxLost,
           Track(q, n, j, k, cur, gone, ran, cnt, acked, missed)
    PROVE  /\ k >= 1
           /\ q[1] \in Before \/ q[1] \in Outcomes
           /\ q[1] \in Before => j >= 1
           /\ ran => q[1] \in {"RUNNING", "ENDED"}
<1>1. Capacity \in Nat /\ MaxLost \in Nat /\ PublishCount \in Nat
  BY ReportsAssumption
<1>2. k >= 1
  <2>1. CASE gone
    <3>1. PublishCount <= cnt /\ cnt <= Capacity + missed + (k - j)
      BY <2>1 DEF Track
    <3> QED  BY <1>1, <3>1 DEF Enough
  <2>2. CASE ~gone
    BY <2>2 DEF Track
  <2> QED  BY <2>1, <2>2
<1>3. CASE j >= 1
  <2>1. 1 \in 1..j
    BY <1>3
  <2> QED  BY <1>2, <1>3, <2>1 DEF Track
<1>4. CASE j = 0
  <2>1. 1 \in (j + 1)..k
    BY <1>2, <1>4
  <2> QED  BY <1>2, <2>1 DEF Track, Before, Outcomes
<1> QED  BY <1>3, <1>4

IsTail(q2, q, n) == \A l \in 1..(n - 1) : q2[l] = q[l + 1]

(* The next state arrives, and says no outcome. *)
LEMMA TrackArrive ==
    ASSUME Enough, NEW q, NEW n \in Nat \ {0}, NEW j \in 0..n, NEW k \in j..n, NEW cur,
           NEW gone \in BOOLEAN, NEW ran \in BOOLEAN, NEW cnt \in Nat, NEW acked \in 0..Capacity,
           NEW missed \in 0..MaxLost,
           Track(q, n, j, k, cur, gone, ran, cnt, acked, missed),
           NEW q2, IsTail(q2, q, n),
           q[1] \in Before, NEW ran2 \in BOOLEAN, ran2 <=> ran \/ q[1] = "RUNNING"
    PROVE  \E j2 \in 0..(n - 1) : \E k2 \in j2..(n - 1) :
              Track(q2, n - 1, j2, k2, cur, gone, ran2, cnt, acked, missed)
<1> USE DEF IsTail
<1>1. j >= 1
  BY TrackHead
<1> DEFINE j2 == j - 1
           k2 == k - 1
<1>2. /\ j2 \in 0..(n - 1) /\ k2 \in j2..(n - 1) /\ 1 \in 1..j
      /\ \A l \in 1..j2 : l + 1 \in 1..j /\ l \in 1..(n - 1)
      /\ \A l \in (j2 + 1)..k2 : l + 1 \in (j + 1)..k /\ l \in 1..(n - 1)
      /\ \A l \in (k2 + 1)..(n - 1) : l + 1 \in (k + 1)..n /\ l \in 1..(n - 1)
  BY <1>1
<1>3. /\ \A l \in 1..j2 : q2[l] \in Before
      /\ \A l \in (j2 + 1)..k2 : q2[l] \in Outcomes
      /\ \A l \in (k2 + 1)..(n - 1) : q2[l] \in After
  BY <1>2 DEF Track
<1>4. ASSUME NEW l \in 1..j2, ran2 \/ q2[l] = "RUNNING", NEW i \in l..j2
      PROVE  q2[i] = "RUNNING"
  <2>1. i \in 1..j2 /\ i + 1 \in 1..j /\ l + 1 \in 1..j /\ i + 1 \in (l + 1)..j /\ i + 1 \in 1..j
    BY <1>1, <1>2
  <2>2. ran \/ q[1] = "RUNNING" \/ q[l + 1] = "RUNNING"
    BY <1>2, <1>4
  <2>3. q[i + 1] = "RUNNING"
    BY <1>2, <2>1, <2>2 DEF Track
  <2> QED  BY <1>2, <2>1, <2>3
<1>5. ran2 \/ (\E l \in 1..j2 : q2[l] = "RUNNING") => ran \/ \E l \in 1..j : q[l] = "RUNNING"
  BY <1>2
<1>6. ran2 \/ (\E l \in 1..j2 : q2[l] = "RUNNING") =>
          /\ \A l \in (j2 + 1)..k2 : q2[l] = "ENDED"
          /\ gone \/ cur \in {"RUNNING", "ENDED"}
  BY <1>2, <1>5 DEF Track
<1>7. k2 - j2 = k - j /\ (k = n <=> k2 = n - 1) /\ (j = n <=> j2 = n - 1)
  OBVIOUS
<1>8. IF gone
      THEN cur \in After /\ PublishCount <= cnt /\ cnt <= Capacity + missed + (k2 - j2)
      ELSE /\ k2 = n - 1
           /\ IF cur \in Before THEN j2 = n - 1 /\ cnt = 0
              ELSE cur \in Outcomes /\ cnt + acked <= Capacity + missed + (k2 - j2)
  BY <1>7 DEF Track
<1> HIDE DEF j2, k2
<1>9. Track(q2, n - 1, j2, k2, cur, gone, ran2, cnt, acked, missed)
  BY <1>3, <1>4, <1>6, <1>8 DEF Track
<1> QED  BY <1>2, <1>9

(* The next state is lost. *)
LEMMA TrackLose ==
    ASSUME Enough, NEW q, NEW n \in Nat \ {0}, NEW j \in 0..n, NEW k \in j..n, NEW cur,
           NEW gone \in BOOLEAN, NEW ran \in BOOLEAN, NEW cnt \in Nat, NEW acked \in 0..Capacity,
           NEW missed \in 0..MaxLost,
           Track(q, n, j, k, cur, gone, ran, cnt, acked, missed),
           NEW q2, IsTail(q2, q, n)
    PROVE  \E j2 \in 0..(n - 1) : \E k2 \in j2..(n - 1) :
              Track(q2, n - 1, j2, k2, cur, gone, ran, cnt, acked, missed + 1)
<1> USE DEF IsTail
<1>1. Capacity \in Nat /\ MaxLost \in Nat /\ PublishCount \in Nat
  BY ReportsAssumption
<1>2. k >= 1
  BY TrackHead
<1> DEFINE j2 == IF j >= 1 THEN j - 1 ELSE 0
           k2 == k - 1
<1>3. /\ j2 \in 0..(n - 1) /\ k2 \in j2..(n - 1)
      /\ \A l \in 1..j2 : l + 1 \in 1..j /\ l \in 1..(n - 1)
      /\ \A l \in (j2 + 1)..k2 : l + 1 \in (j + 1)..k /\ l \in 1..(n - 1)
      /\ \A l \in (k2 + 1)..(n - 1) : l + 1 \in (k + 1)..n /\ l \in 1..(n - 1)
  BY <1>2
<1>4. /\ \A l \in 1..j2 : q2[l] \in Before
      /\ \A l \in (j2 + 1)..k2 : q2[l] \in Outcomes
      /\ \A l \in (k2 + 1)..(n - 1) : q2[l] \in After
  BY <1>3 DEF Track
<1>5. ASSUME NEW l \in 1..j2, ran \/ q2[l] = "RUNNING", NEW i \in l..j2
      PROVE  q2[i] = "RUNNING"
  <2>1. i \in 1..j2 /\ l + 1 \in 1..j /\ i + 1 \in (l + 1)..j
    BY <1>3
  <2>2. ran \/ q[l + 1] = "RUNNING"
    BY <1>3, <1>5
  <2>3. q[i + 1] = "RUNNING"
    BY <2>1, <2>2 DEF Track
  <2> QED  BY <1>3, <2>1, <2>3
<1>6. ran \/ (\E l \in 1..j2 : q2[l] = "RUNNING") => ran \/ \E l \in 1..j : q[l] = "RUNNING"
  BY <1>3
<1>7. ran \/ (\E l \in 1..j2 : q2[l] = "RUNNING") =>
          /\ \A l \in (j2 + 1)..k2 : q2[l] = "ENDED"
          /\ gone \/ cur \in {"RUNNING", "ENDED"}
  BY <1>3, <1>6 DEF Track
<1>8. /\ k - j <= 1 + (k2 - j2) /\ (k = n => k2 = n - 1) /\ (j = n => j2 = n - 1)
      /\ k2 \in Nat /\ j2 \in Nat
  BY <1>2
<1> HIDE DEF j2, k2
<1>9. IF gone
      THEN cur \in After /\ PublishCount <= cnt /\ cnt <= Capacity + (missed + 1) + (k2 - j2)
      ELSE /\ k2 = n - 1
           /\ IF cur \in Before THEN j2 = n - 1 /\ cnt = 0
              ELSE cur \in Outcomes /\ cnt + acked <= Capacity + (missed + 1) + (k2 - j2)
  <2>1. CASE gone
    BY <1>1, <1>8, <2>1 DEF Track
  <2>2. CASE ~gone /\ cur \in Before
    BY <1>8, <2>2 DEF Track
  <2>3. CASE ~gone /\ cur \notin Before
    BY <1>1, <1>8, <2>3 DEF Track
  <2> QED  BY <2>1, <2>2, <2>3
<1>10. Track(q2, n - 1, j2, k2, cur, gone, ran, cnt, acked, missed + 1)
  BY <1>4, <1>5, <1>7, <1>9 DEF Track
<1> QED  BY <1>3, <1>10

-----------------------------------------------------------------------------
(* Types. *)

LEMMA MessageFields ==
    ASSUME NEW m \in Messages
    PROVE  m.actions \subseteq ActionId /\ m.valid \in BOOLEAN /\ m.id \in MessageId
BY ReportsAssumption DEF MessageId

LEMMA InvalidMessages == Invalid \subseteq MessageId
BY DEF Invalid, MessageId

LEMMA PublishTyped ==
    ASSUME TypeOK, Publish, online' \in BOOLEAN, status' \in [ActionId -> Status],
           refused' \subseteq ActionId, invalid' \in Seq(Invalid), failed' \subseteq ActionId
    PROVE  states' \in Seq(State) /\ acks' \in 0..Capacity
<1>1. Capacity \in Nat /\ acks \in Nat /\ acks <= Capacity /\ states \in Seq(State)
  BY ReportsAssumption DEF TypeOK
<1>2. acks' \in 0..Capacity
  BY <1>1 DEF Publish
<1> DEFINE s == [status |-> status', refused |-> refused', invalid |-> invalid', failed |-> failed']
<1>3. s \in State
  BY DEF State
<1>4. states' = IF online' THEN Append(states, s) ELSE states
  BY DEF Publish
<1> HIDE DEF s
<1>5. Append(states, s) \in Seq(State)
  BY <1>1, <1>3, AppendProperties
<1> QED  BY <1>1, <1>2, <1>4, <1>5

LEMMA RemoveTyped ==
    ASSUME TypeOK, NEW over, RemoveErrors(over)
    PROVE  refused' = refused \ over /\ invalid' \in Seq(Invalid)
<1> DEFINE Kept == {i \in DOMAIN invalid : invalid[i] \notin over}
           n == Cardinality(Kept)
<1>1. PICK pos \in [1..n -> Kept] : invalid' = [i \in DOMAIN pos |-> invalid[pos[i]]]
  BY DEF RemoveErrors
<1>2. invalid \in Seq(Invalid) /\ DOMAIN invalid = 1..Len(invalid) /\ Len(invalid) \in Nat
  BY LenProperties DEF TypeOK
<1>3. n \in Nat
  <2>1. IsFiniteSet(1..Len(invalid))
    BY <1>2, FS_Interval
  <2>2. Kept \subseteq 1..Len(invalid)
    BY <1>2
  <2> QED  BY <2>1, <2>2, FS_Subset, FS_CardinalityType
<1>4. \A i \in Kept : invalid[i] \in Invalid
  BY <1>2, ElementOfSeq
<1> HIDE DEF n, Kept
<1>5. invalid' \in [1..n -> Invalid]
  BY <1>1, <1>4
<1>6. invalid' \in Seq(Invalid)
  BY <1>3, <1>5, SeqDef
<1>7. refused' = refused \ over
  BY DEF RemoveErrors
<1> QED  BY <1>6, <1>7

LEMMA ReportedAbout == TypeOK => Reported \subseteq About
<1> SUFFICES ASSUME TypeOK PROVE ToSet(invalid) \subseteq MessageId /\ refused \subseteq ActionId
  BY DEF Reported, About
<1>1. \A i \in DOMAIN invalid : invalid[i] \in Invalid
  BY ElementOfSeq DEF TypeOK
<1> QED  BY <1>1, InvalidMessages DEF ToSet, TypeOK

(* What the master control knows and tells. *)
LEMMA KnownTyped ==
    ASSUME TypeOK, NEW s \in State
    PROVE  KnownErrors(s) \in Seq([ref : Int, error : Invalid])
<1> DEFINE K == [ref : Int, error : Invalid]
           old == Len(known)
           new == Len(s.invalid)
           more == [i \in 1..(new - old) |-> [ref |-> ref + 1 - i, error |-> s.invalid[old + i]]]
<1>1. known \in Seq(K) /\ ref \in Nat /\ s.invalid \in Seq(Invalid)
  BY DEF TypeOK, State
<1>2. old \in Nat /\ new \in Nat
  BY <1>1, LenProperties
<1>3. CASE new >= old
  <2>1. \A i \in 1..(new - old) : s.invalid[old + i] \in Invalid
    <3>1. \A i \in 1..(new - old) : old + i \in 1..new
      BY <1>2, <1>3
    <3> QED  BY <1>1, <3>1, ElementOfSeq
  <2>2. more \in [1..(new - old) -> K]
    BY <1>1, <2>1
  <2>3. more \in Seq(K)
    <3>1. new - old \in Nat
      BY <1>2, <1>3
    <3> HIDE DEF more, old, new, K
    <3> QED  BY <2>2, <3>1, SeqDef
  <2>4. known \o more \in Seq(K)
    BY <1>1, <2>3, ConcatProperties
  <2> QED  BY <1>1, <1>3, <2>4 DEF KnownErrors
<1>4. CASE new < old
  <2>1. SubSeq(known, old - new + 1, old) \in Seq(K)
    <3> HIDE DEF new, K
    <3>1. old - new + 1 \in 1..(old + 1)
      <4> HIDE DEF old
      <4> QED  BY <1>2, <1>4
    <3>2. old - new + 1 \in 1..(Len(known) + 1) /\ old \in (old - new + 1 - 1)..Len(known)
      BY <1>2, <1>4, <3>1
    <3> QED  BY <1>1, <3>2, SubSeqProperties
  <2> QED  BY <1>1, <1>2, <1>4, <2>1 DEF KnownErrors
<1> QED  BY <1>2, <1>3, <1>4

LEMMA ErrorsTyped ==
    ASSUME TypeOK, NEW s \in State, NEW a \in ActionId
    PROVE  ErrorsAbout(a, s, KnownErrors(s)) \subseteq {a} \cup Invalid
<1> DEFINE ks == KnownErrors(s)
<1>1. ks \in Seq([ref : Int, error : Invalid])
  BY KnownTyped
<1> HIDE DEF ks
<1>2. \A i \in DOMAIN ks : ks[i].error \in Invalid
  <2> DEFINE K == [ref : Int, error : Invalid]
  <2>1. \A c \in K : c.error \in Invalid
    OBVIOUS
  <2> HIDE DEF K
  <2>2. \A i \in DOMAIN ks : ks[i] \in K
    BY <1>1, LenProperties, ElementOfSeq DEF K
  <2> QED  BY <2>1, <2>2
<1>3. ErrorsAbout(a, s, ks) \subseteq {a} \cup Invalid
  BY <1>2 DEF ErrorsAbout
<1> QED  BY <1>3 DEF ks

LEMMA FrontOf ==
    ASSUME NEW S, NEW q \in Seq(S), q # <<>>
    PROVE  /\ Front(q) \in Seq(S) /\ Len(Front(q)) = Len(q) - 1
           /\ \A i \in 1..(Len(q) - 1) : Front(q)[i] = q[i]
<1>1. Len(q) \in Nat \ {0}
  BY LenProperties, EmptySeq
<1> DEFINE n == Len(q) - 1
<1>2. /\ n \in Int /\ 1 \in Int /\ n - 1 + 1 = n /\ n \in Nat /\ (1 <= n \/ n = 0)
      /\ \A i \in 1..n : i \in 1..Len(q) /\ 1 + i - 1 = i
  <2> DEFINE c == Len(q)
  <2>1. c \in Nat \ {0} /\ n = c - 1
    BY <1>1
  <2> HIDE DEF c, n
  <2>2. n \in Nat /\ n - 1 + 1 = n /\ (1 <= n \/ n = 0)
    BY <2>1
  <2>3. \A i \in 1..n : i \in 1..c /\ 1 + i - 1 = i
    BY <2>1
  <2> QED  BY <2>2, <2>3 DEF c
<1> HIDE DEF n
<1>3. /\ SubSeq(q, 1, n) \in Seq(S)
      /\ Len(SubSeq(q, 1, n)) = IF 1 <= n THEN n - 1 + 1 ELSE 0
      /\ \A i \in 1..(n - 1 + 1) : SubSeq(q, 1, n)[i] = q[1 + i - 1]
  <2>1. \A i \in 1..n : q[i] \in S
    BY <1>2, ElementOfSeq
  <2> QED  BY <1>2, <2>1, SubSeqProperties
<1>4. Len(SubSeq(q, 1, n)) = n /\ \A i \in 1..n : SubSeq(q, 1, n)[i] = q[i]
  BY <1>2, <1>3
<1> QED  BY <1>3, <1>4 DEF Front, n

LEMMA InitiateTyped ==
    ASSUME TypeOK, NEW m \in Messages, InitiateInstantActions(m)
    PROVE  TypeOK'
<1>1. m.actions \subseteq ActionId
  BY MessageFields
<1>2. waiting' \subseteq ActionId /\ initiated' \subseteq Messages
  BY <1>1 DEF InitiateInstantActions, TypeOK
<1>3. refOf' \in [ActionId -> Nat] /\ awaited' \subseteq [msg : Messages, ref : Nat]
  BY DEF InitiateInstantActions, TypeOK
<1>4. messages' \in Seq(Messages)
  BY AppendProperties DEF InitiateInstantActions, TypeOK
<1> QED  BY <1>2, <1>3, <1>4 DEF InitiateInstantActions, agv, TypeOK

LEMMA ResolvesTyped ==
    ASSUME TypeOK, NEW p \in awaited, PublishResolves(p)
    PROVE  TypeOK'
<1>1. p.ref \in Nat
  BY DEF TypeOK
<1> QED  BY <1>1 DEF PublishResolves, network, agv, TypeOK

LEMMA RejectsTyped ==
    ASSUME TypeOK, NEW p \in awaited, PublishRejects(p)
    PROVE  TypeOK'
<1>1. messages' \in Seq(Messages)
  BY FrontOf DEF PublishRejects, TypeOK
<1> QED  BY <1>1 DEF PublishRejects, agv, TypeOK

LEMMA ReceiveTyped ==
    ASSUME TypeOK, ReceiveActions
    PROVE  TypeOK'
<1>1. Head(messages) \in Messages /\ messages' \in Seq(Messages)
  BY HeadTailProperties DEF ReceiveActions, TypeOK
<1> DEFINE m == Head(messages)
<1>2. m.actions \subseteq ActionId /\ m.valid \in BOOLEAN /\ (~m.valid => m.id \in Invalid)
  BY <1>1, MessageFields DEF Invalid
<1> HIDE DEF m
<1>3. CASE m.valid
  BY <1>1, <1>2, <1>3 DEF m, ReceiveActions, master, TypeOK
<1>4. CASE ~m.valid
  <2>1. invalid' = Append(invalid, m.id) /\ Publish /\ UNCHANGED <<online, status, refused, failed>>
    BY <1>4 DEF m, ReceiveActions
  <2>2. invalid' \in Seq(Invalid)
    BY <1>2, <1>4, <2>1, AppendProperties DEF TypeOK
  <2>3. states' \in Seq(State) /\ acks' \in 0..Capacity
    BY <2>1, <2>2, PublishTyped DEF TypeOK
  <2> QED  BY <1>1, <1>4, <2>2, <2>3 DEF m, ReceiveActions, master, TypeOK
<1> QED  BY <1>3, <1>4

LEMMA CheckTyped ==
    ASSUME TypeOK, NEW a \in ActionId, CheckAction(a)
    PROVE  TypeOK'
<1>1. refused' \subseteq ActionId /\ accepted' \subseteq ActionId /\ checking' \subseteq ActionId
  BY DEF CheckAction, TypeOK
<1>2. states' \in Seq(State) /\ acks' \in 0..Capacity
  <2>1. CASE Publish
    BY <1>1, <2>1, PublishTyped DEF CheckAction, network, TypeOK
  <2>2. CASE UNCHANGED <<states, acks>>
    BY <2>2 DEF TypeOK
  <2> QED  BY <2>1, <2>2 DEF CheckAction
<1> QED  BY <1>1, <1>2 DEF CheckAction, master, network, TypeOK

LEMMA ChangesTyped ==
    ASSUME TypeOK, NEW a \in ActionId, NEW s \in {"RUNNING", "ENDED"}, ActionChanges(a, s)
    PROVE  TypeOK'
<1>1. status' \in [ActionId -> Status] /\ accepted' \subseteq ActionId /\ failed' \subseteq ActionId
  BY DEF ActionChanges, Status, TypeOK
<1>2. states' \in Seq(State) /\ acks' \in 0..Capacity
  BY <1>1, PublishTyped DEF ActionChanges, network, TypeOK
<1> QED  BY <1>1, <1>2 DEF ActionChanges, master, network, TypeOK

LEMMA PublishedTyped ==
    ASSUME TypeOK, Published
    PROVE  TypeOK'
<1> DEFINE Over == {x \in Reported : count[x] + 1 >= PublishCount}
<1>1. Over \subseteq About /\ Reported \subseteq About
  BY ReportedAbout
<1>2. RemoveErrors(Over) /\ removed' = removed \cup Over
  BY DEF Published
<1>3. refused' \subseteq ActionId /\ invalid' \in Seq(Invalid) /\ removed' \subseteq About
  BY <1>1, <1>2, RemoveTyped DEF TypeOK
<1>4. count' \in [About -> Nat]
  BY <1>1 DEF Published, TypeOK
<1>5. status' \in [ActionId -> Status]
  BY DEF Published, Status, TypeOK
<1>6. acks' \in 0..Capacity
  BY ReportsAssumption DEF Published, TypeOK
<1>7. UNCHANGED <<master, network, checking, accepted, failed, states>>
  BY DEF Published
<1> HIDE DEF Over
<1> QED  BY <1>3, <1>4, <1>5, <1>6, <1>7 DEF master, network, TypeOK

LEMMA AcceptTyped ==
    ASSUME TypeOK, AcceptOrder
    PROVE  TypeOK'
<1>1. Publish /\ failed' \subseteq ActionId
      /\ UNCHANGED <<master, network, checking, accepted, status, refused, invalid, count, removed>>
  BY DEF AcceptOrder
<1>2. states' \in Seq(State) /\ acks' \in 0..Capacity
  BY <1>1, PublishTyped DEF network, TypeOK
<1> QED  BY <1>1, <1>2 DEF master, network, TypeOK

LEMMA AgainTyped ==
    ASSUME TypeOK, PublishAgain \/ Reconnected
    PROVE  TypeOK'
<1>1. Publish /\ UNCHANGED <<master, agv, messages, lost, cuts>> /\ online' \in BOOLEAN
  BY DEF PublishAgain, Reconnected, network, TypeOK
<1>2. states' \in Seq(State) /\ acks' \in 0..Capacity
  BY <1>1, PublishTyped DEF agv, TypeOK
<1> QED  BY <1>1, <1>2 DEF master, agv, TypeOK

LEMMA LoseTyped ==
    ASSUME TypeOK, LoseState
    PROVE  TypeOK'
<1>1. states' \in Seq(State)
  BY HeadTailProperties DEF LoseState, TypeOK
<1>2. lost' \in 0..MaxLost
  BY ReportsAssumption DEF LoseState, TypeOK
<1> QED  BY <1>1, <1>2 DEF LoseState, master, agv, TypeOK

LEMMA CutTyped ==
    ASSUME TypeOK, ConnectionLost
    PROVE  TypeOK'
<1>1. online' \in BOOLEAN /\ cuts' \in Nat
  <2>1. online' = FALSE /\ cuts' = cuts + 1 /\ cuts \in Nat
    BY DEF ConnectionLost, TypeOK
  <2>2. online' \in BOOLEAN
    BY <2>1
  <2>3. cuts' \in Nat
    BY <2>1
  <2> QED  BY <2>2, <2>3
<1>2. UNCHANGED <<master, agv, messages, lost, states, acks>>
  BY DEF ConnectionLost
<1> QED  BY <1>1, <1>2 DEF master, agv, TypeOK

(* What the application is told of an action, and what is known of it then. *)
LEMMA DispatchTells ==
    ASSUME TypeOK, DispatchState, NEW a \in ActionId
    PROVE  \/ /\ heard'[a] = heard[a] /\ last'[a] = last[a]
              /\ a \in waiting' <=> a \in waiting
              /\ a \in waiting => Says(Head(states), a) \in {"NOTHING", last[a]}
           \/ /\ a \in waiting /\ a \notin waiting' /\ last'[a] = last[a]
              /\ Says(Head(states), a) \in {"NOTHING", "REFUSED", "FAILED"}
              /\ \E x \in {a} \cup Invalid : heard'[a] = heard[a] \o <<x>>
           \/ /\ a \in waiting /\ a \in waiting' /\ last'[a] = "RUNNING"
              /\ Says(Head(states), a) = "RUNNING" /\ last[a] # "RUNNING"
              /\ heard'[a] = heard[a] \o <<"RUNNING">>
           \/ /\ a \in waiting /\ a \notin waiting' /\ last'[a] = "ENDED"
              /\ Says(Head(states), a) = "ENDED" /\ last[a] # "ENDED"
              /\ heard'[a] = heard[a] \o <<"ENDED">>
<1> DEFINE s == Head(states)
           E(b) == ErrorsAbout(b, s, KnownErrors(s))
           Changed == {b \in waiting : HasChanged(b, s)}
           Refused == {b \in waiting : E(b) # {}}
           Tell(b) == IF b \in Changed THEN <<s.status[b]>>
                      ELSE IF b \in Refused THEN <<CHOOSE e \in E(b) : TRUE>>
                      ELSE <<>>
<1>1. s \in State
  BY HeadTailProperties DEF DispatchState, TypeOK
<1>2. E(a) \subseteq {a} \cup Invalid
  BY <1>1, ErrorsTyped
<1>3. /\ heard'[a] = heard[a] \o Tell(a)
      /\ last'[a] = IF a \in Changed THEN s.status[a] ELSE last[a]
      /\ waiting' = waiting \ (Refused \cup {b \in Changed : s.status[b] = "ENDED"})
  BY DEF DispatchState
<1>4. s.status[a] \in {"ABSENT", "RUNNING", "ENDED"}
  BY <1>1 DEF State, Status
<1>5. heard[a] \o <<>> = heard[a]
  BY ConcatEmptySeq DEF TypeOK
<1>6. s.status[a] # "ABSENT" => E(a) = {}
  BY DEF ErrorsAbout
<1>7. a \in s.refused \cup s.failed /\ s.status[a] = "ABSENT" => E(a) # {}
  BY DEF ErrorsAbout
<1>8. a \in Changed <=> a \in waiting /\ s.status[a] # "ABSENT" /\ s.status[a] # last[a]
  BY DEF HasChanged
<1>9. a \in Refused <=> a \in waiting /\ E(a) # {}
  OBVIOUS
<1>10. a \in waiting' <=> a \in waiting /\ a \notin Refused
                          /\ ~(a \in Changed /\ s.status[a] = "ENDED")
  BY <1>3
<1>11. Says(s, a) = IF s.status[a] # "ABSENT" THEN s.status[a]
                    ELSE IF a \in s.refused THEN "REFUSED"
                    ELSE IF a \in s.failed THEN "FAILED" ELSE "NOTHING"
  BY DEF Says
<1>12. Tell(a) = IF a \in Changed THEN <<s.status[a]>>
                 ELSE IF a \in Refused THEN <<CHOOSE e \in E(a) : TRUE>> ELSE <<>>
  OBVIOUS
<1> HIDE DEF Changed, Refused, E, Tell
<1>13. CASE a \in Changed
  <2>1. a \in waiting /\ a \notin Refused /\ Says(s, a) = s.status[a]
        /\ s.status[a] \in {"RUNNING", "ENDED"} /\ heard'[a] = heard[a] \o <<s.status[a]>>
        /\ last'[a] = s.status[a] /\ last[a] # s.status[a]
    BY <1>3, <1>4, <1>6, <1>8, <1>9, <1>11, <1>12, <1>13
  <2>2. CASE s.status[a] = "RUNNING"
    BY <1>10, <1>13, <2>1, <2>2
  <2>3. CASE s.status[a] = "ENDED"
    BY <1>10, <1>13, <2>1, <2>3
  <2> QED  BY <2>1, <2>2, <2>3
<1>14. CASE a \notin Changed /\ a \in Refused
  <2>1. a \in waiting /\ a \notin waiting' /\ s.status[a] = "ABSENT" /\ E(a) # {}
    BY <1>6, <1>9, <1>10, <1>14
  <2>2. (CHOOSE e \in E(a) : TRUE) \in {a} \cup Invalid
    BY <1>2, <2>1
  <2>3. heard'[a] = heard[a] \o <<CHOOSE e \in E(a) : TRUE>>
    BY <1>3, <1>12, <1>14
  <2>4. \E x \in {a} \cup Invalid : heard'[a] = heard[a] \o <<x>>
    BY <2>2, <2>3
  <2>5. Says(s, a) \in {"NOTHING", "REFUSED", "FAILED"} /\ last'[a] = last[a]
    BY <1>3, <1>11, <1>14, <2>1
  <2> QED  BY <2>1, <2>4, <2>5
<1>15. CASE a \notin Changed /\ a \notin Refused
  <2>1. heard'[a] = heard[a] /\ last'[a] = last[a] /\ (a \in waiting' <=> a \in waiting)
    BY <1>3, <1>5, <1>10, <1>12, <1>15
  <2>2. a \in waiting => Says(s, a) \in {"NOTHING", last[a]}
    BY <1>7, <1>8, <1>9, <1>11, <1>15
  <2> QED  BY <2>1, <2>2
<1> QED  BY <1>13, <1>14, <1>15

LEMMA DispatchTyped ==
    ASSUME TypeOK, DispatchState
    PROVE  TypeOK'
<1> DEFINE X == {"RUNNING", "ENDED"} \cup ActionId \cup Invalid
<1>1. states' \in Seq(State) /\ Head(states) \in State
  BY HeadTailProperties DEF DispatchState, TypeOK
<1>2. known' \in Seq([ref : Int, error : Invalid])
  BY <1>1, KnownTyped DEF DispatchState
<1>3. waiting' \subseteq ActionId
  BY DEF DispatchState, TypeOK
<1>4. ASSUME NEW a \in ActionId
      PROVE  heard'[a] \in Seq(X) /\ last'[a] \in Status
  <2>1. heard[a] \in Seq(X) /\ last[a] \in Status
    BY DEF TypeOK
  <2>2. \A x \in X : <<x>> \in Seq(X)
    <3> HIDE DEF X
    <3> QED  OBVIOUS
  <2>3. \A x \in X : heard[a] \o <<x>> \in Seq(X)
    <3> HIDE DEF X
    <3> QED  BY <2>1, <2>2, ConcatProperties
  <2>4. {"RUNNING", "ENDED"} \cup {a} \cup Invalid \subseteq X
    OBVIOUS
  <2>5. heard'[a] = heard[a] \/ \E x \in {"RUNNING", "ENDED"} \cup {a} \cup Invalid :
                                     heard'[a] = heard[a] \o <<x>>
    BY DispatchTells
  <2>6. last'[a] \in Status
    BY <2>1, DispatchTells DEF Status
  <2> HIDE DEF X
  <2> QED  BY <2>1, <2>3, <2>4, <2>5, <2>6
<1>5. heard' = [a \in ActionId |-> heard'[a]] /\ last' = [a \in ActionId |-> last'[a]]
  <2> DEFINE s == Head(states)
             E(b) == ErrorsAbout(b, s, KnownErrors(s))
             Changed == {b \in waiting : HasChanged(b, s)}
             Refused == {b \in waiting : E(b) # {}}
             Tell(b) == IF b \in Changed THEN <<s.status[b]>>
                        ELSE IF b \in Refused THEN <<CHOOSE e \in E(b) : TRUE>>
                        ELSE <<>>
             told(b) == heard[b] \o Tell(b)
             then(b) == IF b \in Changed THEN s.status[b] ELSE last[b]
  <2>1. heard' = [a \in ActionId |-> told(a)] /\ last' = [a \in ActionId |-> then(a)]
    BY DEF DispatchState
  <2> HIDE DEF told, then
  <2> QED  BY <2>1
<1>6. heard' \in [ActionId -> Seq(X)] /\ last' \in [ActionId -> Status]
  <2> HIDE DEF X
  <2> QED  BY <1>4, <1>5
<1> QED  BY <1>1, <1>2, <1>3, <1>6 DEF DispatchState, network, agv, TypeOK

LEMMA TypeStep == TypeOK /\ [Next]_vars => TypeOK'
<1> SUFFICES ASSUME TypeOK, [Next]_vars PROVE TypeOK'
  OBVIOUS
<1>1. CASE Next
  BY <1>1, InitiateTyped, ResolvesTyped, RejectsTyped, DispatchTyped, LoseTyped, ReceiveTyped,
     CheckTyped, ChangesTyped, AcceptTyped, PublishedTyped, AgainTyped, CutTyped DEF Next
<1>2. CASE UNCHANGED vars
  BY <1>2 DEF vars, master, agv, network, TypeOK
<1> QED  BY <1>1, <1>2

-----------------------------------------------------------------------------
(* An action arrives once, and becomes an outcome once. *)

LEMMA ReportedActions ==
    ASSUME TypeOK, NEW a \in ActionId
    PROVE  a \in Reported <=> status[a] = "ENDED" \/ a \in refused
<1>1. ToSet(invalid) \subseteq MessageId
  <2>1. \A i \in DOMAIN invalid : invalid[i] \in Invalid
    BY ElementOfSeq DEF TypeOK
  <2> QED  BY <2>1, InvalidMessages DEF ToSet
<1>2. a \notin ToSet(invalid)
  BY <1>1, ReportsAssumption
<1> QED  BY <1>2 DEF Reported

LEMMA UnsentOf ==
    ASSUME TypeOK, NEW m \in Messages, m \notin initiated, NEW a \in m.actions
    PROVE  Unsent(a)
<1> SUFFICES ASSUME NEW n \in initiated, a \in n.actions PROVE FALSE
  BY DEF Unsent
<1>1. n \in Messages /\ n # m
  BY DEF TypeOK
<1>2. m.actions \cap n.actions = {}
  BY <1>1, ReportsAssumption
<1> QED  BY <1>2

(* Of the actions at the AGV, a publication that resolves changes those    *)
(* that are over.                                                          *)
LEMMA PublishedActions ==
    ASSUME TypeOK, Published, NEW a \in ActionId
    PROVE  \E over \in BOOLEAN :
              /\ over <=> (status[a] = "ENDED" \/ a \in refused) /\ count[a] + 1 >= PublishCount
              /\ status'[a] = IF over THEN "ABSENT" ELSE status[a]
              /\ a \in refused' <=> a \in refused /\ ~over
              /\ a \in removed' <=> a \in removed \/ over
              /\ count'[a] = IF status[a] = "ENDED" \/ a \in refused THEN count[a] + 1
                             ELSE count[a]
              /\ checking = {} /\ checking' = {} /\ accepted' = accepted /\ failed' = failed
<1> DEFINE Over == {x \in Reported : count[x] + 1 >= PublishCount}
<1>1. a \in Reported <=> status[a] = "ENDED" \/ a \in refused
  BY ReportedActions
<1>2. refused' = refused \ Over
  BY DEF Published, RemoveErrors
<1>3. a \in About
  BY DEF About
<1>4. /\ removed' = removed \cup Over
      /\ status' = [b \in ActionId |-> IF b \in Over THEN "ABSENT" ELSE status[b]]
      /\ count' = [x \in About |-> IF x \in Reported THEN count[x] + 1 ELSE count[x]]
      /\ checking = {} /\ checking' = checking /\ accepted' = accepted /\ failed' = failed
  BY DEF Published
<1>5. a \in Over <=> a \in Reported /\ count[a] + 1 >= PublishCount
  OBVIOUS
<1> DEFINE over == a \in Over
<1>6. over \in BOOLEAN
  OBVIOUS
<1> HIDE DEF Over
<1>7. /\ over <=> (status[a] = "ENDED" \/ a \in refused) /\ count[a] + 1 >= PublishCount
      /\ status'[a] = IF over THEN "ABSENT" ELSE status[a]
      /\ a \in refused' <=> a \in refused /\ ~over
      /\ a \in removed' <=> a \in removed \/ over
      /\ count'[a] = IF status[a] = "ENDED" \/ a \in refused THEN count[a] + 1 ELSE count[a]
  BY <1>1, <1>2, <1>3, <1>4, <1>5
<1> HIDE DEF over
<1> QED  BY <1>4, <1>6, <1>7

LEMMA OnceStep == TypeOK /\ Once /\ SentOnce /\ [Next]_vars => Once'
<1> SUFFICES ASSUME TypeOK, Once, SentOnce, [Next]_vars PROVE Once'
  OBVIOUS
<1>1. ASSUME UNCHANGED agv PROVE Once'
  BY <1>1 DEF agv, Once, Absent
<1>2. CASE ReceiveActions
  <2>1. CASE Head(messages).valid
    <3>1. checking = {} /\ checking' = Head(messages).actions /\ messages # <<>>
          /\ UNCHANGED <<accepted, removed, status, refused, failed>>
      BY <1>2, <2>1 DEF ReceiveActions
    <3>2. 1 \in DOMAIN messages /\ messages[1] = Head(messages)
      BY <3>1, EmptySeq, LenProperties DEF TypeOK
    <3>3. \A a \in Head(messages).actions : ~Arrived(a)
      BY <3>2 DEF SentOnce
    <3> QED  BY <3>1, <3>3 DEF Once, Absent, Arrived
  <2>2. CASE ~Head(messages).valid
    BY <1>2, <2>2 DEF ReceiveActions, Once, Absent
  <2> QED  BY <2>1, <2>2
<1>3. ASSUME NEW a \in ActionId, CheckAction(a) PROVE Once'
  BY <1>3 DEF CheckAction, Once, Absent
<1>4. ASSUME NEW a \in ActionId, NEW s \in {"RUNNING", "ENDED"}, ActionChanges(a, s) PROVE Once'
  <2>1. a \notin checking \cup refused \cup removed /\ a \notin accepted'
    BY <1>4 DEF ActionChanges, Once, Absent
  <2>2. \A b \in ActionId \ {a} : status'[b] = status[b] /\ (b \in accepted' <=> b \in accepted)
    BY <1>4 DEF ActionChanges, TypeOK
  <2>3. UNCHANGED <<checking, refused, removed>>
    BY <1>4 DEF ActionChanges
  <2>4. ASSUME NEW b \in failed' PROVE b \in ActionId => status'[b] = "ENDED" \/ b \in removed'
    <3>1. CASE b = a
      <4>1. s = "ENDED" \/ b \in failed
        BY <1>4, <2>4 DEF ActionChanges
      <4>2. CASE s = "ENDED"
        BY <1>4, <3>1, <4>2 DEF ActionChanges, TypeOK
      <4>3. CASE b \in failed
        BY <1>4, <2>1, <3>1, <4>3 DEF ActionChanges, Once, Absent
      <4> QED  BY <4>1, <4>2, <4>3
    <3>2. CASE b # a
      <4>1. b \in failed
        BY <1>4, <2>4, <3>2 DEF ActionChanges
      <4> QED  BY <2>2, <2>3, <3>2, <4>1 DEF Once
    <3> QED  BY <3>1, <3>2
  <2> QED  BY <2>1, <2>2, <2>3, <2>4 DEF Once, Absent
<1>5. CASE Published
  <2> SUFFICES ASSUME NEW a \in ActionId
               PROVE  /\ a \in checking' => a \notin accepted'
                      /\ a \in checking' \cup accepted' =>
                            status'[a] = "ABSENT" /\ a \notin refused' \cup removed'
                      /\ a \in refused' => status'[a] = "ABSENT" /\ a \notin removed'
                      /\ a \in removed' => status'[a] = "ABSENT"
                      /\ a \in failed' => status'[a] = "ENDED" \/ a \in removed'
    BY DEF Once, Absent
  <2>1. PICK over \in BOOLEAN :
            /\ over <=> (status[a] = "ENDED" \/ a \in refused) /\ count[a] + 1 >= PublishCount
            /\ status'[a] = IF over THEN "ABSENT" ELSE status[a]
            /\ a \in refused' <=> a \in refused /\ ~over
            /\ a \in removed' <=> a \in removed \/ over
            /\ checking = {} /\ checking' = {} /\ accepted' = accepted /\ failed' = failed
    BY <1>5, PublishedActions
  <2> QED  BY <2>1 DEF Once, Absent
<1>6. CASE AcceptOrder
  BY <1>6 DEF AcceptOrder, Once, Absent
<1> QED
  BY <1>1, <1>2, <1>3, <1>4, <1>5, <1>6 DEF Next, InitiateInstantActions, PublishResolves,
     PublishRejects, DispatchState, LoseState, PublishAgain, ConnectionLost, Reconnected, vars

(* Actions that arrive have been sent. *)
LEMMA SentKept ==
    ASSUME TypeOK, SentOnce, UNCHANGED <<messages, initiated>>, waiting' \subseteq waiting,
           \A a \in ActionId : Arrived(a)' => Arrived(a)
    PROVE  SentOnce'
<1>1. \A i \in DOMAIN messages : messages[i] \in Messages
  BY ElementOfSeq DEF TypeOK
<1> QED  BY <1>1, MessageFields DEF SentOnce, Unsent

LEMMA SentStep == TypeOK /\ Once /\ SentOnce /\ [Next]_vars => SentOnce'
<1> SUFFICES ASSUME TypeOK, Once, SentOnce, [Next]_vars PROVE SentOnce'
  OBVIOUS
<1> DEFINE n == Len(messages)
<1>0. /\ n \in Nat /\ DOMAIN messages = 1..n
      /\ \A i \in 1..n : messages[i] \in Messages /\ messages[i].actions \subseteq ActionId
  BY LenProperties, ElementOfSeq, MessageFields DEF TypeOK
<1>1. ASSUME UNCHANGED agv PROVE \A a : Arrived(a)' <=> Arrived(a)
  BY <1>1 DEF agv, Arrived, Absent
<1>2. ASSUME NEW m \in Messages, InitiateInstantActions(m) PROVE SentOnce'
  <2>1. m \notin initiated /\ initiated' = initiated \cup {m} /\ messages' = Append(messages, m)
        /\ waiting' = waiting \cup m.actions /\ UNCHANGED agv
    BY <1>2 DEF InitiateInstantActions
  <2>2. \A a \in m.actions : Unsent(a) /\ a \in ActionId
    BY <2>1, UnsentOf, MessageFields
  <2>3. \A a \in m.actions : ~Arrived(a)
    BY <2>2 DEF SentOnce
  <2>4. /\ DOMAIN messages' = 1..(n + 1)
        /\ \A i \in 1..n : messages'[i] = messages[i]
        /\ messages'[n + 1] = m
    BY <1>0, <2>1, AppendProperties DEF TypeOK
  <2>5. \A i \in 1..(n + 1) : i \in 1..n \/ i = n + 1
    BY <1>0
  <2>6. \A i \in 1..n : messages[i] # m
    BY <1>0, <2>1 DEF SentOnce
  <2>7. ASSUME NEW i \in DOMAIN messages'
        PROVE  /\ messages'[i] \in initiated'
               /\ \A j \in DOMAIN messages' : messages'[i] = messages'[j] => i = j
               /\ \A a \in messages'[i].actions : ~Arrived(a)'
    BY <1>0, <1>1, <2>1, <2>3, <2>4, <2>5, <2>6 DEF SentOnce
  <2>8. ASSUME NEW a \in ActionId, Unsent(a)' PROVE ~Arrived(a)' /\ a \notin waiting'
    BY <1>1, <2>1, <2>8 DEF SentOnce, Unsent
  <2> QED  BY <2>7, <2>8 DEF SentOnce
<1>3. ASSUME NEW p \in awaited, PublishRejects(p) PROVE SentOnce'
  <2>1. messages # <<>> /\ messages' = Front(messages) /\ waiting' \subseteq waiting
        /\ UNCHANGED agv /\ initiated' = initiated
    BY <1>3 DEF PublishRejects
  <2>2. /\ messages' \in Seq(Messages) /\ Len(messages') = n - 1
        /\ \A i \in 1..(n - 1) : messages'[i] = messages[i]
    BY <2>1, FrontOf DEF TypeOK
  <2>3. DOMAIN messages' = 1..(n - 1) /\ \A i \in 1..(n - 1) : i \in 1..n
    BY <1>0, <2>2, LenProperties
  <2>4. ASSUME NEW i \in DOMAIN messages'
        PROVE  /\ messages'[i] \in initiated'
               /\ \A j \in DOMAIN messages' : messages'[i] = messages'[j] => i = j
               /\ \A a \in messages'[i].actions : ~Arrived(a)'
    BY <1>0, <1>1, <2>1, <2>2, <2>3 DEF SentOnce
  <2>5. \A a \in ActionId : Unsent(a)' => ~Arrived(a)' /\ a \notin waiting'
    BY <1>1, <2>1 DEF SentOnce, Unsent
  <2> QED  BY <2>4, <2>5 DEF SentOnce
<1>4. CASE ReceiveActions
  <2> DEFINE m == Head(messages)
  <2>1. messages # <<>> /\ messages' = Tail(messages)
        /\ UNCHANGED <<waiting, initiated, accepted, removed, status, refused>>
        /\ checking = {} /\ checking' \subseteq m.actions
    <3>1. CASE m.valid
      BY <1>4, <3>1 DEF ReceiveActions, master
    <3>2. CASE ~m.valid
      BY <1>4, <3>2 DEF ReceiveActions, master
    <3> QED  BY <3>1, <3>2
  <2>2. n >= 1 /\ m = messages[1]
    BY <1>0, <2>1, EmptySeq DEF TypeOK
  <2>3. /\ messages' \in Seq(Messages) /\ Len(messages') = n - 1
        /\ \A i \in 1..(n - 1) : messages'[i] = messages[i + 1]
    BY <2>1, HeadTailProperties DEF TypeOK
  <2>4. /\ DOMAIN messages' = 1..(n - 1) /\ 1 \in 1..n
        /\ \A i \in 1..(n - 1) : i + 1 \in 1..n /\ i + 1 # 1
        /\ \A i, j \in 1..(n - 1) : i + 1 = j + 1 => i = j
    BY <1>0, <2>2, <2>3, LenProperties
  <2>5. \A a : Arrived(a)' => Arrived(a) \/ a \in m.actions
    BY <2>1 DEF Arrived, Absent
  <2>6. \A i \in 1..(n - 1) : messages[i + 1] # m
    BY <1>0, <2>2, <2>4 DEF SentOnce
  <2>7. \A i \in 1..(n - 1) : messages[i + 1].actions \cap m.actions = {}
    BY <1>0, <2>2, <2>4, <2>6, ReportsAssumption
  <2>8. m \in initiated
    BY <1>0, <2>2, <2>4 DEF SentOnce
  <2> HIDE DEF m
  <2>9. ASSUME NEW i \in DOMAIN messages'
        PROVE  /\ messages'[i] \in initiated'
               /\ \A j \in DOMAIN messages' : messages'[i] = messages'[j] => i = j
               /\ \A a \in messages'[i].actions : ~Arrived(a)'
    BY <1>0, <2>1, <2>3, <2>4, <2>5, <2>7 DEF SentOnce
  <2>10. \A a \in ActionId : Unsent(a)' => ~Arrived(a)' /\ a \notin waiting'
    BY <2>1, <2>5, <2>8 DEF SentOnce, Unsent
  <2> QED  BY <2>9, <2>10 DEF SentOnce
<1>5. ASSUME NEW b \in ActionId, CheckAction(b) PROVE SentOnce'
  <2>1. \A a \in ActionId : Arrived(a)' => Arrived(a)
    BY <1>5 DEF CheckAction, Arrived, Absent
  <2> QED  BY <1>5, <2>1, SentKept DEF CheckAction, master, network
<1>6. ASSUME NEW b \in ActionId, NEW s \in {"RUNNING", "ENDED"}, ActionChanges(b, s) PROVE SentOnce'
  <2>1. \A a \in ActionId : Arrived(a)' => Arrived(a)
    BY <1>6 DEF ActionChanges, Arrived, Absent, TypeOK
  <2> QED  BY <1>6, <2>1, SentKept DEF ActionChanges, master, network
<1>7. CASE Published
  <2>1. \A a \in ActionId : Arrived(a)' => Arrived(a)
    <3> TAKE a \in ActionId
    <3>1. PICK over \in BOOLEAN :
              /\ over <=> (status[a] = "ENDED" \/ a \in refused) /\ count[a] + 1 >= PublishCount
              /\ status'[a] = IF over THEN "ABSENT" ELSE status[a]
              /\ a \in refused' <=> a \in refused /\ ~over
              /\ a \in removed' <=> a \in removed \/ over
              /\ checking = {} /\ checking' = {} /\ accepted' = accepted
      BY <1>7, PublishedActions
    <3> QED  BY <3>1 DEF Arrived, Absent
  <2> QED  BY <1>7, <2>1, SentKept DEF Published, master, network
<1>13. CASE AcceptOrder
  <2>1. \A a \in ActionId : Arrived(a)' => Arrived(a)
    BY <1>13 DEF AcceptOrder, Arrived, Absent
  <2> QED  BY <1>13, <2>1, SentKept DEF AcceptOrder, master, network
<1>8. ASSUME UNCHANGED <<agv, messages, initiated>>, waiting' \subseteq waiting PROVE SentOnce'
  BY <1>1, <1>8, SentKept
<1>9. CASE DispatchState
  <2>1. waiting' \subseteq waiting
    BY <1>9 DEF DispatchState
  <2> QED  BY <1>8, <1>9, <2>1 DEF DispatchState, network
<1>10. ASSUME NEW p \in awaited, PublishResolves(p) PROVE SentOnce'
  BY <1>8, <1>10 DEF PublishResolves, network
<1>11. CASE LoseState \/ PublishAgain \/ ConnectionLost \/ Reconnected
  BY <1>8, <1>11 DEF LoseState, PublishAgain, ConnectionLost, Reconnected, master, network
<1>12. CASE UNCHANGED vars
  BY <1>8, <1>12 DEF vars, master, network
<1> QED
  BY <1>2, <1>3, <1>4, <1>5, <1>6, <1>7, <1>9, <1>10, <1>11, <1>12, <1>13 DEF Next

-----------------------------------------------------------------------------
(* What is under way about an action, step by step. *)

LEMMA TrackTyped ==
    ASSUME TypeOK, NEW a \in ActionId
    PROVE  /\ Len(states) \in Nat /\ DOMAIN states = 1..Len(states)
           /\ \A l \in 1..Len(states) : states[l] \in State /\ Said(a)[l] = Says(states[l], a)
           /\ count[a] \in Nat /\ acks \in 0..Capacity /\ lost \in 0..MaxLost
           /\ last[a] \in Status /\ Capacity \in Nat /\ MaxLost \in Nat
<1>1. a \in About
  BY DEF About
<1>2. Len(states) \in Nat /\ DOMAIN states = 1..Len(states)
      /\ \A l \in 1..Len(states) : states[l] \in State
  BY LenProperties, ElementOfSeq DEF TypeOK
<1>3. \A l \in 1..Len(states) : Said(a)[l] = Says(states[l], a)
  BY <1>2 DEF Said
<1> QED  BY <1>1, <1>2, <1>3, ReportsAssumption DEF TypeOK

LEMMA TrackedHeard ==
    ASSUME NEW a \in ActionId, Tracked(a)
    PROVE  Heard(a)
BY DEF Tracked, Heard

Follows(a) == IF Pending(a) THEN Tracked(a) ELSE Heard(a)

(* A step that neither publishes nor tells anything. *)
LEMMA FollowsQuiet ==
    ASSUME NEW a \in ActionId, Follows(a),
           UNCHANGED <<states, acks, lost, status, refused, failed, removed, count, heard, last>>,
           Pending(a)' => Pending(a)
    PROVE  Follows(a)'
<1>1. Tracked(a) => Tracked(a)'
  BY DEF Tracked, Said, Now, Absent
<1>2. Heard(a) => Heard(a)'
  BY DEF Heard
<1> QED  BY <1>1, <1>2, TrackedHeard DEF Follows

(* The current state is published, in which a may have changed. *)
LEMMA TrackedPublish ==
    ASSUME TypeOK, Publish, NEW a \in ActionId, UNCHANGED <<lost, count, heard, last, removed>>,
           last[a] \in {"ABSENT", "RUNNING"},
           heard[a] = IF last[a] = "ABSENT" THEN <<>> ELSE <<"RUNNING">>,
           NEW j \in 0..Len(states), NEW k \in j..Len(states),
           Track(Said(a), Len(states), j, k, Now(a)', a \in removed, last[a] = "RUNNING",
                 count[a], acks, lost)
    PROVE  Tracked(a)'
<1> DEFINE n == Len(states)
           q == Said(a)
           q2 == Said(a)'
           now == Now(a)'
           gone == a \in removed
           ran == last[a] = "RUNNING"
<1>1. /\ n \in Nat /\ DOMAIN states = 1..n /\ \A l \in 1..n : q[l] = Says(states[l], a)
      /\ count[a] \in Nat /\ acks \in 0..Capacity /\ lost \in 0..MaxLost
  BY TrackTyped
<1>2. CASE online'
  <2> DEFINE s == [status |-> status', refused |-> refused', invalid |-> invalid', failed |-> failed']
  <2>1. states' = Append(states, s) /\ acks' = acks + 1
    BY <1>2 DEF Publish
  <2>2. Says(s, a) = now
    BY DEF Says, Now, Absent
  <2> HIDE DEF s
  <2>3. /\ states' \in Seq(State \cup {s}) /\ Len(states') = n + 1
        /\ \A l \in 1..n : states'[l] = states[l]
        /\ states'[n + 1] = s
    <3>1. states \in Seq(State \cup {s})
      <4>1. states \in Seq(State)
        BY DEF TypeOK
      <4>2. Seq(State) \subseteq Seq(State \cup {s})
        <5> HIDE DEF n
        <5> QED  OBVIOUS
      <4> QED  BY <4>1, <4>2
    <3> QED  BY <2>1, <3>1, AppendProperties
  <2>4. DOMAIN states' = 1..(n + 1)
    BY <2>3, LenProperties
  <2>5. \A l \in 1..(n + 1) : q2[l] = Says(states'[l], a)
    BY <2>4 DEF Said
  <2>6. \A l \in 1..n : l \in 1..(n + 1)
    BY <1>1
  <2>7. n + 1 \in 1..(n + 1)
    BY <1>1
  <2>8. (\A l \in 1..n : q2[l] = q[l]) /\ q2[n + 1] = now
    BY <1>1, <2>2, <2>3, <2>5, <2>6, <2>7
  <2>9. gone \in BOOLEAN /\ ran \in BOOLEAN
    OBVIOUS
  <2>10. Track(q, n, j, k, now, gone, ran, count[a], acks, lost)
    OBVIOUS
  <2> HIDE DEF n, q, q2, now, gone, ran
  <2>11. \E j2 \in 0..(n + 1) : \E k2 \in j2..(n + 1) :
            Track(q2, n + 1, j2, k2, now, gone, ran, count[a], acks + 1, lost)
    <3> DEFINE cnt == count[a]
    <3>1. j \in 0..n /\ k \in j..n
      BY DEF n
    <3>2. n \in Nat /\ cnt \in Nat /\ acks \in 0..Capacity /\ lost \in 0..MaxLost
      BY <1>1
    <3>3. Track(q, n, j, k, now, gone, ran, cnt, acks, lost)
      BY <2>10
    <3>4. Prolongs(q2, q, n, now)
      BY <2>8 DEF Prolongs
    <3> HIDE DEF cnt
    <3>5. TrackedBy(q2, n + 1, now, gone, ran, cnt, acks + 1, lost)
      BY <2>9, <3>1, <3>2, <3>3, <3>4, TrackPublish
    <3> QED  BY <3>5 DEF cnt, TrackedBy
  <2>12. \E j2 \in 0..Len(states') : \E k2 \in j2..Len(states') :
            Track(Said(a)', Len(states'), j2, k2, Now(a)', a \in removed', last'[a] = "RUNNING",
                  count'[a], acks', lost')
    BY <2>1, <2>3, <2>11 DEF q2, now, gone, ran
  <2> QED  BY <2>12 DEF Tracked
<1>3. CASE ~online'
  <2>1. states' = states /\ acks' = acks
    BY <1>3 DEF Publish
  <2>2. Said(a)' = Said(a)
    BY <2>1 DEF Said
  <2> QED  BY <2>1, <2>2 DEF Tracked
<1> QED  BY <1>2, <1>3

LEMMA FollowsPublish ==
    ASSUME TypeOK, Publish, NEW a \in ActionId, Follows(a),
           UNCHANGED <<lost, count, heard, last, removed, waiting, initiated>>,
           \/ Now(a)' = Now(a)
           \/ /\ Now(a) \in Before /\ a \notin removed
              /\ Now(a)' \in {"RUNNING"} \cup Outcomes
              /\ Now(a)' = "REFUSED" => Now(a) = "NOTHING"
           \/ a \in removed /\ Now(a)' \in After
    PROVE  Follows(a)'
<1>1. Pending(a)' <=> Pending(a)
  BY DEF Pending, Unsent
<1>2. Heard(a) => Heard(a)'
  BY DEF Heard
<1>3. ASSUME Tracked(a) PROVE Tracked(a)'
  <2>1. PICK j \in 0..Len(states) : \E k \in j..Len(states) :
          Track(Said(a), Len(states), j, k, Now(a), a \in removed, last[a] = "RUNNING",
                count[a], acks, lost)
    BY <1>3 DEF Tracked
  <2>2. PICK k \in j..Len(states) :
          Track(Said(a), Len(states), j, k, Now(a), a \in removed, last[a] = "RUNNING",
                count[a], acks, lost)
    BY <2>1
  <2>3. /\ Len(states) \in Nat /\ count[a] \in Nat /\ acks \in 0..Capacity /\ lost \in 0..MaxLost
    BY TrackTyped
  <2>4. Track(Said(a), Len(states), j, k, Now(a)', a \in removed, last[a] = "RUNNING",
              count[a], acks, lost)
    <3>1. CASE Now(a)' = Now(a)
      BY <2>2, <3>1
    <3>2. CASE /\ Now(a) \in Before /\ a \notin removed
               /\ Now(a)' \in {"RUNNING"} \cup Outcomes
               /\ Now(a)' = "REFUSED" => Now(a) = "NOTHING"
      <4> DEFINE q == Said(a)
                 n == Len(states)
                 cur == Now(a)
                 cur2 == Now(a)'
                 ran == last[a] = "RUNNING"
      <4>1. Track(q, n, j, k, cur, FALSE, ran, count[a], acks, lost)
        <5>1. (a \in removed) = FALSE
          BY <3>2
        <5> QED  BY <2>2, <5>1
      <4>2. ran \in BOOLEAN
        OBVIOUS
      <4> HIDE DEF q, n, cur, cur2, ran
      <4>3. Track(q, n, j, k, cur2, FALSE, ran, count[a], acks, lost)
        <5>1. j \in 0..n /\ k \in j..n /\ n \in Nat
          BY <2>3 DEF n
        <5>2. cur \in Before /\ cur2 \in {"RUNNING"} \cup Outcomes
              /\ (cur2 = "REFUSED" => cur = "NOTHING")
          BY <3>2 DEF cur, cur2
        <5> QED  BY <2>3, <4>1, <4>2, <5>1, <5>2, TrackChange
      <4>4. (a \in removed) = FALSE
        BY <3>2
      <4> QED  BY <4>3, <4>4 DEF q, n, cur2, ran
    <3>3. CASE a \in removed /\ Now(a)' \in After
      BY <2>2, <3>3 DEF Track
    <3> QED  BY <3>1, <3>2, <3>3
  <2> QED  BY <1>3, <2>4, TrackedPublish DEF Tracked
<1> QED  BY <1>1, <1>2, <1>3 DEF Follows

LEMMA FollowsCounted ==
    ASSUME TypeOK, Once, Published, NEW a \in ActionId, Follows(a)
    PROVE  Follows(a)'
<1>1. UNCHANGED <<waiting, initiated, heard, last, states, lost>> /\ acks > 0 /\ acks' = acks - 1
  BY DEF Published, master, network
<1>2. Pending(a)' <=> Pending(a)
  BY <1>1 DEF Pending, Unsent
<1>3. Heard(a) => Heard(a)'
  BY <1>1 DEF Heard
<1>4. PICK over \in BOOLEAN :
          /\ over <=> (status[a] = "ENDED" \/ a \in refused) /\ count[a] + 1 >= PublishCount
          /\ status'[a] = IF over THEN "ABSENT" ELSE status[a]
          /\ a \in refused' <=> a \in refused /\ ~over
          /\ a \in removed' <=> a \in removed \/ over
          /\ count'[a] = IF status[a] = "ENDED" \/ a \in refused THEN count[a] + 1 ELSE count[a]
          /\ failed' = failed
  BY PublishedActions
<1>5. status[a] \in {"ABSENT", "RUNNING", "ENDED"}
  BY DEF TypeOK, Status
<1>6. (status[a] = "ENDED" \/ a \in refused) <=> Now(a) \in Outcomes
  BY <1>5 DEF Now, Absent, Once, Outcomes
<1>7. IF over THEN Now(a)' \in After ELSE Now(a)' = Now(a)
  BY <1>4, <1>5, <1>6 DEF Now, Absent, Once, Outcomes, After
<1>8. ASSUME Tracked(a) PROVE Tracked(a)'
  <2>1. PICK j \in 0..Len(states) : \E k \in j..Len(states) :
          Track(Said(a), Len(states), j, k, Now(a), a \in removed, last[a] = "RUNNING",
                count[a], acks, lost)
    BY <1>8 DEF Tracked
  <2>2. PICK k \in j..Len(states) :
          Track(Said(a), Len(states), j, k, Now(a), a \in removed, last[a] = "RUNNING",
                count[a], acks, lost)
    BY <2>1
  <2> DEFINE q == Said(a)
             n == Len(states)
             cur == Now(a)
             cur2 == Now(a)'
             gone == a \in removed
             ran == last[a] = "RUNNING"
  <2>3. /\ n \in Nat /\ count[a] \in Nat /\ acks \in 1..Capacity /\ lost \in 0..MaxLost
        /\ j \in 0..n /\ k \in j..n
    BY <1>1, TrackTyped
  <2>4. Track(q, n, j, k, cur, gone, ran, count[a], acks, lost)
    BY <2>2
  <2>5. gone \in BOOLEAN /\ ran \in BOOLEAN
    OBVIOUS
  <2>6. over <=> cur \in Outcomes /\ count[a] + 1 >= PublishCount
    BY <1>4, <1>6
  <2>7. /\ Said(a)' = q /\ Len(states') = n /\ (over => cur2 \in After) /\ (~over => cur2 = cur)
        /\ count'[a] = IF cur \in Outcomes THEN count[a] + 1 ELSE count[a]
        /\ (last'[a] = "RUNNING") = ran
    BY <1>1, <1>4, <1>6, <1>7 DEF Said
  <2>8. (a \in removed') = (gone \/ over)
    BY <1>4
  <2> HIDE DEF q, n, cur, cur2, gone, ran
  <2>9. Track(q, n, j, k, cur2, gone \/ over, ran,
              IF cur \in Outcomes THEN count[a] + 1 ELSE count[a], acks - 1, lost)
    <3>1. Track(q, n, j, k, IF over THEN "NOTHING" ELSE cur, gone \/ over, ran,
                IF cur \in Outcomes THEN count[a] + 1 ELSE count[a], acks - 1, lost)
      BY <2>3, <2>4, <2>5, <2>6, TrackCounted
    <3>2. CASE over
      <4> DEFINE cnt == IF cur \in Outcomes THEN count[a] + 1 ELSE count[a]
      <4>1. (gone \/ over) = TRUE /\ cur2 \in After
        BY <2>7, <3>2
      <4> HIDE DEF cnt
      <4>2. Track(q, n, j, k, "NOTHING", TRUE, ran, cnt, acks - 1, lost)
        BY <3>1, <3>2, <4>1 DEF cnt
      <4>3. Track(q, n, j, k, cur2, TRUE, ran, cnt, acks - 1, lost)
        BY <4>1, <4>2, TrackAfter
      <4> QED  BY <4>1, <4>3 DEF cnt
    <3>3. CASE ~over
      BY <2>7, <3>1, <3>3
    <3> QED  BY <3>2, <3>3
  <2>10. Track(Said(a)', Len(states'), j, k, Now(a)', a \in removed', last'[a] = "RUNNING",
               count'[a], acks', lost')
    BY <1>1, <2>7, <2>8, <2>9 DEF cur2
  <2>11. j \in 0..Len(states') /\ k \in j..Len(states')
    BY <2>3, <2>7
  <2>12. /\ last'[a] \in {"ABSENT", "RUNNING"}
         /\ heard'[a] = IF last'[a] = "ABSENT" THEN <<>> ELSE <<"RUNNING">>
    BY <1>1, <1>8 DEF Tracked
  <2> QED  BY <2>10, <2>11, <2>12 DEF Tracked
<1> QED  BY <1>2, <1>3, <1>8 DEF Follows

(* A state arrives, or is lost. *)
LEMMA TailSaid ==
    ASSUME TypeOK, states # <<>>, states' = Tail(states), NEW a \in ActionId
    PROVE  /\ Len(states) \in Nat \ {0} /\ Len(states') = Len(states) - 1
           /\ IsTail(Said(a)', Said(a), Len(states))
           /\ Said(a)[1] = Says(Head(states), a)
<1> DEFINE n == Len(states)
<1>1. /\ n \in Nat /\ DOMAIN states = 1..n
      /\ \A l \in 1..n : Said(a)[l] = Says(states[l], a)
  BY TrackTyped
<1>2. /\ states' \in Seq(State) /\ Len(states') = n - 1
      /\ \A l \in 1..(n - 1) : states'[l] = states[l + 1]
  BY HeadTailProperties DEF TypeOK
<1>3. n \in Nat \ {0} /\ Head(states) = states[1]
  BY <1>1, EmptySeq DEF TypeOK
<1>4. DOMAIN states' = 1..(n - 1) /\ 1 \in 1..n /\ \A l \in 1..(n - 1) : l + 1 \in 1..n
  BY <1>2, <1>3, LenProperties
<1>5. \A l \in 1..(n - 1) : Said(a)'[l] = Says(states'[l], a)
  BY <1>4 DEF Said
<1> QED  BY <1>1, <1>2, <1>3, <1>4, <1>5 DEF IsTail

LEMMA FollowsLost ==
    ASSUME Enough, TypeOK, LoseState, NEW a \in ActionId, Follows(a)
    PROVE  Follows(a)'
<1>1. /\ states # <<>> /\ states' = Tail(states) /\ lost' = lost + 1
      /\ UNCHANGED <<master, agv, acks>>
  BY DEF LoseState
<1>2. (Pending(a)' <=> Pending(a)) /\ (Heard(a) => Heard(a)')
  BY <1>1 DEF Pending, Unsent, Heard, master
<1>3. ASSUME Tracked(a) PROVE Tracked(a)'
  <2>1. PICK j \in 0..Len(states) : \E k \in j..Len(states) :
          Track(Said(a), Len(states), j, k, Now(a), a \in removed, last[a] = "RUNNING",
                count[a], acks, lost)
    BY <1>3 DEF Tracked
  <2>2. PICK k \in j..Len(states) :
          Track(Said(a), Len(states), j, k, Now(a), a \in removed, last[a] = "RUNNING",
                count[a], acks, lost)
    BY <2>1
  <2> DEFINE q == Said(a)
             q2 == Said(a)'
             n == Len(states)
             cur == Now(a)
             gone == a \in removed
             ran == last[a] = "RUNNING"
  <2>3. /\ n \in Nat \ {0} /\ j \in 0..n /\ k \in j..n /\ Len(states') = n - 1
        /\ IsTail(q2, q, n)
    BY <1>1, TailSaid
  <2>4. count[a] \in Nat /\ acks \in 0..Capacity /\ lost \in 0..MaxLost
    BY TrackTyped
  <2>5. Track(q, n, j, k, cur, gone, ran, count[a], acks, lost)
    BY <2>2
  <2>6. gone \in BOOLEAN /\ ran \in BOOLEAN
    OBVIOUS
  <2>7. /\ Now(a)' = cur /\ (a \in removed') = gone /\ (last'[a] = "RUNNING") = ran
        /\ count'[a] = count[a]
    BY <1>1 DEF Now, Absent, agv, master
  <2>8. Said(a)' = q2
    OBVIOUS
  <2> HIDE DEF q, q2, n, cur, gone, ran
  <2>9. \E j2 \in 0..(n - 1) : \E k2 \in j2..(n - 1) :
           Track(q2, n - 1, j2, k2, cur, gone, ran, count[a], acks, lost + 1)
    BY <2>3, <2>4, <2>5, <2>6, TrackLose
  <2>10. \E j2 \in 0..Len(states') : \E k2 \in j2..Len(states') :
            Track(Said(a)', Len(states'), j2, k2, Now(a)', a \in removed', last'[a] = "RUNNING",
                  count'[a], acks', lost')
    BY <1>1, <2>3, <2>7, <2>8, <2>9
  <2>11. /\ last'[a] \in {"ABSENT", "RUNNING"}
         /\ heard'[a] = IF last'[a] = "ABSENT" THEN <<>> ELSE <<"RUNNING">>
    BY <1>1, <1>3 DEF Tracked, master
  <2> QED  BY <2>10, <2>11 DEF Tracked
<1> QED  BY <1>2, <1>3 DEF Follows

LEMMA RunningEnded == <<"RUNNING">> \o <<"ENDED">> = <<"RUNNING", "ENDED">>
<1> DEFINE S == {"RUNNING", "ENDED"}
           r == <<"RUNNING">>
           e == <<"ENDED">>
<1>1. r \in Seq(S) /\ e \in Seq(S) /\ Len(r) = 1 /\ Len(e) = 1 /\ r[1] = "RUNNING" /\ e[1] = "ENDED"
  OBVIOUS
<1> HIDE DEF r, e
<1>2. r \o e \in Seq(S) /\ Len(r \o e) = 2 /\ (r \o e)[1] = "RUNNING" /\ (r \o e)[2] = "ENDED"
  BY <1>1, ConcatProperties
<1>3. \A q \in Seq(S) : Len(q) = 2 /\ q[1] = "RUNNING" /\ q[2] = "ENDED" => q = <<"RUNNING", "ENDED">>
  OBVIOUS
<1> QED  BY <1>2, <1>3 DEF r, e

(* An action that has not been sent is not spoken of. *)
LEMMA UnsentQuiet ==
    ASSUME TypeOK, Once, SentOnce, NEW a \in ActionId, Unsent(a)
    PROVE  Now(a) = "NOTHING" /\ a \notin removed /\ a \notin waiting
BY DEF Once, SentOnce, Arrived, Absent, Now

LEMMA FollowsDispatched ==
    ASSUME Enough, TypeOK, Once, SentOnce, DispatchState, NEW a \in ActionId, Follows(a)
    PROVE  Follows(a)'
<1>1. states # <<>> /\ states' = Tail(states) /\ UNCHANGED <<initiated, network, agv, acks>>
      /\ waiting' \subseteq waiting
  BY DEF DispatchState
<1>2. Unsent(a)' <=> Unsent(a)
  BY <1>1 DEF Unsent
<1>3. CASE ~Pending(a)
  <2>1. heard'[a] = heard[a] /\ ~Pending(a)'
    BY <1>1, <1>2, <1>3, DispatchTells DEF Pending
  <2> QED  BY <1>3, <2>1 DEF Follows, Heard
<1>4. CASE Pending(a)
  <2>0. /\ Tracked(a) /\ last[a] \in {"ABSENT", "RUNNING"}
        /\ heard[a] = IF last[a] = "ABSENT" THEN <<>> ELSE <<"RUNNING">>
    BY <1>4 DEF Follows, Tracked
  <2>1. PICK j \in 0..Len(states) : \E k \in j..Len(states) :
          Track(Said(a), Len(states), j, k, Now(a), a \in removed, last[a] = "RUNNING",
                count[a], acks, lost)
    BY <2>0 DEF Tracked
  <2>2. PICK k \in j..Len(states) :
          Track(Said(a), Len(states), j, k, Now(a), a \in removed, last[a] = "RUNNING",
                count[a], acks, lost)
    BY <2>1
  <2> DEFINE q == Said(a)
             q2 == Said(a)'
             n == Len(states)
             cur == Now(a)
             gone == a \in removed
             ran == last[a] = "RUNNING"
             ran2 == last'[a] = "RUNNING"
             h == Says(Head(states), a)
  <2>3. /\ n \in Nat \ {0} /\ j \in 0..n /\ k \in j..n /\ Len(states') = n - 1
        /\ IsTail(q2, q, n)
        /\ q[1] = h
    BY <1>1, TailSaid
  <2>4. count[a] \in Nat /\ acks \in 0..Capacity /\ lost \in 0..MaxLost
    BY TrackTyped
  <2>5. Track(q, n, j, k, cur, gone, ran, count[a], acks, lost)
    BY <2>2
  <2>6. gone \in BOOLEAN /\ ran \in BOOLEAN /\ ran2 \in BOOLEAN
    OBVIOUS
  <2>7. /\ Now(a)' = cur /\ (a \in removed') = gone /\ count'[a] = count[a]
        /\ acks' = acks /\ lost' = lost
    BY <1>1 DEF Now, Absent, agv, network
  <2>8. Said(a)' = q2 /\ (last'[a] = "RUNNING") = ran2 /\ (last[a] = "RUNNING") = ran
    OBVIOUS
  <2>9. \/ /\ heard'[a] = heard[a] /\ last'[a] = last[a]
           /\ a \in waiting' <=> a \in waiting
           /\ a \in waiting => h \in {"NOTHING", last[a]}
        \/ /\ a \in waiting /\ a \notin waiting' /\ last'[a] = last[a]
           /\ h \in {"NOTHING", "REFUSED", "FAILED"}
           /\ \E x \in {a} \cup Invalid : heard'[a] = heard[a] \o <<x>>
        \/ /\ a \in waiting /\ a \in waiting' /\ last'[a] = "RUNNING"
           /\ h = "RUNNING" /\ last[a] # "RUNNING"
           /\ heard'[a] = heard[a] \o <<"RUNNING">>
        \/ /\ a \in waiting /\ a \notin waiting' /\ last'[a] = "ENDED"
           /\ h = "ENDED" /\ last[a] # "ENDED"
           /\ heard'[a] = heard[a] \o <<"ENDED">>
    BY DispatchTells
  <2>10. Unsent(a) => cur = "NOTHING" /\ ~gone /\ a \notin waiting
    BY UnsentQuiet
  <2> HIDE DEF q, q2, n, cur, gone, ran, ran2, h
  <2>11. /\ h \in Before \/ h \in Outcomes
         /\ ran => h \in {"RUNNING", "ENDED"}
    BY <2>3, <2>4, <2>5, <2>6, TrackHead
  <2>12. ASSUME h \in Before, ran2 <=> ran \/ h = "RUNNING",
                last'[a] \in {"ABSENT", "RUNNING"},
                heard'[a] = IF last'[a] = "ABSENT" THEN <<>> ELSE <<"RUNNING">>
         PROVE  Tracked(a)'
    <3>1. \E j2 \in 0..(n - 1) : \E k2 \in j2..(n - 1) :
             Track(q2, n - 1, j2, k2, cur, gone, ran2, count[a], acks, lost)
      BY <2>3, <2>4, <2>5, <2>6, <2>12, TrackArrive
    <3>2. \E j2 \in 0..Len(states') : \E k2 \in j2..Len(states') :
             Track(Said(a)', Len(states'), j2, k2, Now(a)', a \in removed', last'[a] = "RUNNING",
                   count'[a], acks', lost')
      BY <2>3, <2>7, <2>8, <3>1
    <3> QED  BY <2>12, <3>2 DEF Tracked
  <2>13. \A x : <<>> \o <<x>> = <<x>>
    <3> TAKE x
    <3>1. <<x>> \in Seq({x})
      OBVIOUS
    <3> QED  BY <3>1, ConcatEmptySeq
  <2>14. CASE Unsent(a)
    <3>1. /\ Pending(a)' /\ heard'[a] = heard[a] /\ last'[a] = last[a]
      BY <1>2, <2>9, <2>10, <2>14 DEF Pending
    <3>2. h = "NOTHING" /\ ~ran
      <4>1. ~gone /\ cur = "NOTHING"
        BY <2>10, <2>14
      <4>2. j = n /\ ~ran /\ ~\E l \in 1..j : q[l] = "RUNNING"
        BY <2>5, <4>1 DEF Track, Before
      <4>3. 1 \in 1..j
        BY <2>3, <4>2
      <4> QED  BY <2>3, <2>5, <4>2, <4>3 DEF Track, Before
    <3>3. Tracked(a)'
      <4>1. h \in Before /\ (ran2 <=> ran \/ h = "RUNNING")
        BY <2>8, <3>1, <3>2 DEF Before
      <4> QED  BY <2>0, <2>12, <3>1, <4>1
    <3> QED  BY <3>1, <3>3 DEF Follows
  <2>15. CASE a \in waiting /\ ~Unsent(a)
    <3>1. CASE /\ heard'[a] = heard[a] /\ last'[a] = last[a]
               /\ a \in waiting' <=> a \in waiting
               /\ a \in waiting => h \in {"NOTHING", last[a]}
      <4>1. h \in {"NOTHING", last[a]}
        BY <2>15, <3>1
      <4>2. h \in Before /\ (ran2 <=> ran \/ h = "RUNNING")
        BY <2>0, <2>8, <2>11, <3>1, <4>1 DEF Before, Outcomes
      <4>3. Tracked(a)'
        BY <2>0, <2>12, <3>1, <4>2
      <4> QED  BY <2>15, <3>1, <4>3 DEF Follows, Pending
    <3>2. CASE /\ a \in waiting /\ a \notin waiting' /\ last'[a] = last[a]
               /\ h \in {"NOTHING", "REFUSED", "FAILED"}
               /\ \E x \in {a} \cup Invalid : heard'[a] = heard[a] \o <<x>>
      <4>1. PICK x \in {a} \cup Invalid : heard'[a] = heard[a] \o <<x>>
        BY <3>2
      <4>2. heard[a] = <<>>
        BY <2>0, <2>8, <2>11, <3>2
      <4>3. heard'[a] = <<x>>
        BY <2>13, <4>1, <4>2
      <4>4. Heard(a)'
        BY <4>3 DEF Heard
      <4> QED  BY <1>2, <2>15, <3>2, <4>4 DEF Follows, Pending
    <3>3. CASE /\ a \in waiting /\ a \in waiting' /\ last'[a] = "RUNNING"
               /\ h = "RUNNING" /\ last[a] # "RUNNING"
               /\ heard'[a] = heard[a] \o <<"RUNNING">>
      <4>1. heard'[a] = <<"RUNNING">>
        BY <2>0, <2>13, <3>3
      <4>2. h \in Before /\ (ran2 <=> ran \/ h = "RUNNING")
        BY <2>8, <3>3 DEF Before
      <4>3. Tracked(a)'
        BY <2>12, <3>3, <4>1, <4>2
      <4> QED  BY <3>3, <4>3 DEF Follows, Pending
    <3>4. CASE /\ a \in waiting /\ a \notin waiting' /\ last'[a] = "ENDED"
               /\ h = "ENDED" /\ last[a] # "ENDED"
               /\ heard'[a] = heard[a] \o <<"ENDED">>
      <4>1. <<"RUNNING">> \o <<"ENDED">> = <<"RUNNING", "ENDED">>
        BY RunningEnded
      <4>2. heard'[a] \in {<<"ENDED">>, <<"RUNNING", "ENDED">>}
        BY <2>0, <2>13, <3>4, <4>1
      <4>3. Heard(a)'
        BY <4>2 DEF Heard
      <4> QED  BY <1>2, <2>15, <3>4, <4>3 DEF Follows, Pending
    <3> QED  BY <2>9, <3>1, <3>2, <3>3, <3>4
  <2> QED  BY <1>4, <2>14, <2>15 DEF Pending
<1> QED  BY <1>3, <1>4

-----------------------------------------------------------------------------
LEMMA FollowsStep ==
    ASSUME Enough, TypeOK, Once, SentOnce, [Next]_vars, NEW a \in ActionId, Follows(a)
    PROVE  Follows(a)'
<1>1. ASSUME NEW m \in Messages, InitiateInstantActions(m) PROVE Follows(a)'
  <2>1. Pending(a)' => Pending(a)
    <3>1. a \in m.actions => Unsent(a)
      BY <1>1, UnsentOf DEF InitiateInstantActions
    <3> QED  BY <1>1, <3>1 DEF InitiateInstantActions, Pending, Unsent
  <2> QED  BY <1>1, <2>1, FollowsQuiet DEF InitiateInstantActions, agv
<1>2. ASSUME NEW p \in awaited, PublishResolves(p) PROVE Follows(a)'
  BY <1>2, FollowsQuiet DEF PublishResolves, Pending, Unsent, network, agv
<1>3. ASSUME NEW p \in awaited, PublishRejects(p) PROVE Follows(a)'
  BY <1>3, FollowsQuiet DEF PublishRejects, Pending, Unsent, agv
<1>4. CASE DispatchState
  BY <1>4, FollowsDispatched
<1>5. CASE LoseState
  BY <1>5, FollowsLost
<1>6. CASE ReceiveActions
  <2>1. CASE Head(messages).valid
    BY <1>6, <2>1, FollowsQuiet DEF ReceiveActions, Pending, Unsent, master
  <2>2. CASE ~Head(messages).valid
    <3>1. Publish /\ UNCHANGED <<master, lost, count, removed, status, refused, failed>>
      BY <1>6, <2>2 DEF ReceiveActions
    <3>2. Now(a)' = Now(a)
      BY <3>1 DEF Now, Absent
    <3> QED  BY <3>1, <3>2, FollowsPublish DEF master
  <2> QED  BY <2>1, <2>2
<1>7. ASSUME NEW b \in ActionId, CheckAction(b) PROVE Follows(a)'
  <2>1. CASE UNCHANGED <<refused, states, acks>>
    BY <1>7, <2>1, FollowsQuiet DEF CheckAction, Pending, Unsent, master, network
  <2>2. CASE refused' = refused \cup {b} /\ Publish
    <3>1. b \in checking /\ UNCHANGED <<master, network, status, failed, count, removed>>
      BY <1>7 DEF CheckAction
    <3>2. Absent(b) /\ b \notin refused /\ b \notin removed /\ b \notin failed
      BY <3>1 DEF Once, Absent
    <3>3. CASE a = b
      <4>1. Now(a) = "NOTHING" /\ Now(a)' = "REFUSED" /\ a \notin removed
        BY <2>2, <3>1, <3>2, <3>3 DEF Now, Absent
      <4> QED  BY <2>2, <3>1, <4>1, FollowsPublish DEF Before, Outcomes, master, network
    <3>4. CASE a # b
      <4>1. Now(a)' = Now(a)
        BY <2>2, <3>1, <3>4 DEF Now, Absent
      <4> QED  BY <2>2, <3>1, <4>1, FollowsPublish DEF master, network
    <3> QED  BY <3>3, <3>4
  <2> QED  BY <1>7, <2>1, <2>2 DEF CheckAction
<1>8. ASSUME NEW b \in ActionId, NEW s \in {"RUNNING", "ENDED"}, ActionChanges(b, s)
      PROVE  Follows(a)'
  <2>1. /\ (status[b] = "RUNNING" /\ s = "ENDED") \/ b \in accepted
        /\ status' = [status EXCEPT ![b] = s]
        /\ UNCHANGED <<master, network, refused, count, removed>>
        /\ failed' = failed \/ failed' = failed \cup {b}
        /\ Publish
    BY <1>8 DEF ActionChanges
  <2>2. CASE a = b
    <3>1. Now(a)' = s
      BY <2>1, <2>2 DEF Now, Absent, TypeOK
    <3>2. a \notin removed /\ Now(a) \in Before
      BY <2>1, <2>2 DEF Now, Absent, Once, Before
    <3> QED  BY <2>1, <3>1, <3>2, FollowsPublish DEF Outcomes, master, network
  <2>3. CASE a # b
    <3>1. Now(a)' = Now(a)
      BY <2>1, <2>3 DEF Now, Absent, TypeOK
    <3> QED  BY <2>1, <3>1, FollowsPublish DEF master, network
  <2> QED  BY <2>2, <2>3
<1>9. CASE Published
  BY <1>9, FollowsCounted
<1>13. CASE AcceptOrder
  <2>1. Publish /\ failed' = {} /\ UNCHANGED <<master, network, status, refused, count, removed>>
    BY <1>13 DEF AcceptOrder
  <2>2. CASE a \in failed /\ Absent(a)
    <3>1. a \in removed /\ Now(a)' \in After
      BY <2>1, <2>2 DEF Once, Now, Absent, After
    <3> QED  BY <2>1, <3>1, FollowsPublish DEF master, network
  <2>3. CASE a \notin failed \/ ~Absent(a)
    <3>1. Now(a)' = Now(a)
      BY <2>1, <2>3 DEF Now, Absent
    <3> QED  BY <2>1, <3>1, FollowsPublish DEF master, network
  <2> QED  BY <2>2, <2>3
<1>10. CASE PublishAgain \/ Reconnected
  <2>1. Publish /\ UNCHANGED <<master, agv, lost>>
    BY <1>10 DEF PublishAgain, Reconnected, network
  <2>2. Now(a)' = Now(a)
    BY <2>1 DEF Now, Absent, agv
  <2> QED  BY <2>1, <2>2, FollowsPublish DEF master, agv
<1>11. CASE ConnectionLost
  BY <1>11, FollowsQuiet DEF ConnectionLost, Pending, Unsent, master, agv
<1>12. CASE UNCHANGED vars
  BY <1>12, FollowsQuiet DEF vars, Pending, Unsent, master, agv, network
<1> QED
  BY <1>1, <1>2, <1>3, <1>4, <1>5, <1>6, <1>7, <1>8, <1>9, <1>10, <1>11, <1>12, <1>13 DEF Next

LEMMA RInit == Init => RInv
<1> SUFFICES ASSUME Init PROVE RInv
  OBVIOUS
<1>1. Capacity \in Nat /\ MaxLost \in Nat
  BY ReportsAssumption
<1>2. TypeOK
  <2>1. /\ <<>> \in Seq([ref : Int, error : Invalid]) /\ <<>> \in Seq(Messages)
        /\ <<>> \in Seq(State) /\ <<>> \in Seq(Invalid)
        /\ <<>> \in Seq({"RUNNING", "ENDED"} \cup ActionId \cup Invalid)
    OBVIOUS
  <2>2. online \in BOOLEAN
    BY DEF Init
  <2>3. /\ refOf \in [ActionId -> Nat] /\ last \in [ActionId -> Status]
        /\ status \in [ActionId -> Status] /\ count \in [About -> Nat]
    BY DEF Init, Status
  <2>4. heard \in [ActionId -> Seq({"RUNNING", "ENDED"} \cup ActionId \cup Invalid)]
    BY <2>1 DEF Init
  <2>5. lost \in 0..MaxLost /\ acks \in 0..Capacity /\ ref \in Nat /\ cuts \in Nat
    BY <1>1 DEF Init
  <2> QED  BY <2>1, <2>2, <2>3, <2>4, <2>5 DEF Init, TypeOK
<1>3. Once
  BY DEF Init, Once, Absent
<1>4. SentOnce
  <2>1. DOMAIN messages = {}
    BY DEF Init
  <2> QED  BY <2>1 DEF Init, SentOnce, Arrived, Absent
<1>5. ASSUME NEW a \in ActionId PROVE Follows(a)
  <2>1. Pending(a)
    BY DEF Init, Pending, Unsent
  <2>2. /\ last[a] = "ABSENT" /\ heard[a] = <<>> /\ Len(states) = 0 /\ Now(a) = "NOTHING"
        /\ (a \in removed) = FALSE /\ count[a] = 0 /\ acks = 0 /\ lost = 0
    BY DEF Init, Now, Absent, About
  <2>3. Track(Said(a), 0, 0, 0, Now(a), FALSE, last[a] = "RUNNING", 0, 0, 0)
    <3>1. Now(a) \in Before /\ last[a] # "RUNNING"
      BY <2>2 DEF Before
    <3>2. \A l \in 1..0 : FALSE
      OBVIOUS
    <3>3. \A l \in (0 + 1)..0 : FALSE
      OBVIOUS
    <3> QED  BY <3>1, <3>2, <3>3 DEF Track
  <2>4. Track(Said(a), Len(states), 0, 0, Now(a), a \in removed, last[a] = "RUNNING",
              count[a], acks, lost)
    BY <2>2, <2>3
  <2>5. 0 \in 0..Len(states)
    BY <2>2
  <2> QED  BY <2>1, <2>2, <2>4, <2>5 DEF Follows, Tracked
<1> QED  BY <1>2, <1>3, <1>4, <1>5 DEF RInv, Follows

(* The application's knowledge of each action follows what the state       *)
(* messages say of it.                                                     *)
THEOREM ReportsInvariance ==
    ASSUME Enough
    PROVE  Spec => []RInv
<1>1. RInv /\ [Next]_vars => RInv'
  <2> SUFFICES ASSUME RInv, [Next]_vars PROVE RInv'
    OBVIOUS
  <2>1. TypeOK /\ Once /\ SentOnce /\ \A a \in ActionId : Follows(a)
    BY DEF RInv, Follows
  <2>2. TypeOK' /\ Once' /\ SentOnce'
    BY <2>1, TypeStep, OnceStep, SentStep
  <2>3. \A a \in ActionId : Follows(a)'
    BY <2>1, FollowsStep
  <2> QED  BY <2>2, <2>3 DEF RInv, Follows
<1> QED  BY <1>1, RInit, PTL DEF Spec

(* Publications, errors and what is heard have the types of the code.      *)
THEOREM ReportsTypes == Spec => []TypeOK
<1>1. Init => TypeOK
  BY RInit DEF RInv
<1> QED  BY <1>1, TypeStep, PTL DEF Spec

(* An outcome that is removed from the state (_cleanupInstantActionStates) *)
(* has been heard by the application, or a state that says it is under     *)
(* way, if it is published more often than states may be lost or be under  *)
(* way when the outcome comes.                                             *)
THEOREM OutcomesHeard ==
    ASSUME Enough
    PROVE  Spec => []OutcomeHeard
<1>1. RInv => OutcomeHeard
  <2> SUFFICES ASSUME RInv, states = <<>>, NEW a \in removed \cap waiting PROVE FALSE
    BY DEF OutcomeHeard
  <2>1. a \in ActionId /\ TypeOK
    BY DEF RInv, TypeOK
  <2>2. Tracked(a)
    BY <2>1 DEF RInv, Pending
  <2>3. Len(states) = 0
    OBVIOUS
  <2>4. \E j \in 0..0 : \E k \in j..0 :
          Track(Said(a), 0, j, k, Now(a), a \in removed, last[a] = "RUNNING", count[a], acks, lost)
    BY <2>2, <2>3 DEF Tracked
  <2>5. PublishCount <= count[a] /\ count[a] <= Capacity + lost + 0
    BY <2>4 DEF Track
  <2>6. count[a] \in Nat /\ lost \in 0..MaxLost
    BY <2>1, TrackTyped
  <2> QED  BY <2>5, <2>6, ReportsAssumption DEF Enough
<1> QED  BY <1>1, ReportsInvariance, PTL

(* _dispatchState tells the application of an action in the order of what  *)
(* happens, of each status once, and of nothing after its end or an error. *)
THEOREM ActionsHeardOnce ==
    ASSUME Enough
    PROVE  Spec => []HeardOnce
<1>1. RInv => HeardOnce
  <2> SUFFICES ASSUME RInv, NEW a \in ActionId PROVE Heard(a)
    BY DEF HeardOnce, Heard
  <2> QED  BY TrackedHeard DEF RInv
<1> QED  BY <1>1, ReportsInvariance, PTL

-----------------------------------------------------------------------------
(* Which message an error is about. *)

(* The lists of invalid messages in the states under way, and now.         *)
Latest == Len(states) + 1
ListsOf(q, x) == [l \in 1..(Len(q) + 1) |-> IF l <= Len(q) THEN q[l].invalid ELSE x]
Lists == ListsOf(states, invalid)

EndsWith(x, c) == x # <<>> /\ x[Len(x)] = c
Has(x, c) == \E i \in DOMAIN x : x[i] = c

(* The length of x, an error about c at its end not counted.               *)
Older(x, c) == IF EndsWith(x, c) THEN Len(x) - 1 ELSE Len(x)

(* Lists that only lose errors, the first of which is no longer than k.    *)
Shrinking(X, n, k) ==
    /\ \A i \in 1..n : Len(X[i]) <= k
    /\ \A i \in 1..n : \A j \in i..n : Len(X[j]) <= Len(X[i])

(* Lists that only lose errors, but for that of c which comes once.        *)
Growing(X, n, k, c) ==
    /\ \A i \in 1..n : Older(X[i], c) <= k
    /\ \A i \in 1..n : \A j \in i..n : Older(X[j], c) <= Older(X[i], c)
    /\ \A h \in 1..n : EndsWith(X[h], c) =>
          \A i \in h..n : \A j \in i..n : Len(X[j]) <= Len(X[i])

(* No state that arrives will have more errors than are known.             *)
Settled ==
    /\ Shrinking(Lists, Latest, Len(known))
    /\ \A i \in DOMAIN messages : messages[i].valid

(* The error about message m may come. *)
Unsettled(m) ==
    /\ ~m.valid /\ m \in initiated /\ waiting = m.actions
    /\ Growing(Lists, Latest, Len(known), m.id)
    /\ \A i \in DOMAIN messages : messages[i].valid \/ messages[i] = m
    /\ (\E i \in DOMAIN messages : messages[i] = m) =>
          \A l \in 1..Latest : ~Has(Lists[l], m.id)

Phase == Settled \/ \E m \in Messages : Unsettled(m)

(* At most one message is under way; no error is known about it yet.       *)
OneAwaited ==
    /\ \A p \in awaited : awaited = {p} /\ p.ref = ref + 1 /\ waiting \subseteq p.msg.actions
    /\ \A a \in waiting : refOf[a] = IF awaited = {} THEN ref ELSE ref + 1
    /\ \A i \in DOMAIN known : known[i].ref <= ref /\ \A a \in waiting : known[i].ref < refOf[a]

(* Nothing is said of the actions of an invalid message but its error.     *)
InvalidSilent ==
    \A m \in Messages : ~m.valid => \A a \in m.actions :
        ~Arrived(a) /\ \A l \in DOMAIN states : Says(states[l], a) = "NOTHING"

SentErrors ==
    \A l \in 1..Latest : \A i \in DOMAIN Lists[l] : \E m \in initiated : Lists[l][i] = m.id

ErrorsInv == OneAwaited /\ InvalidSilent /\ SentErrors /\ Phase /\ RightError

-----------------------------------------------------------------------------
(* Lists of errors. *)

(* The lists Y, m of them, are X, of which there are n, with x for the     *)
(* last one, or after it.                                                  *)
Extended(Y, m, X, n, x) ==
    /\ m = n \/ m = n + 1
    /\ \A l \in 1..(n - 1) : Y[l] = X[l]
    /\ \A l \in n..m : Y[l] = x

LEMMA OlderNat ==
    ASSUME NEW x \in Seq(Invalid), NEW c
    PROVE  /\ Len(x) \in Nat /\ Older(x, c) \in Nat
           /\ EndsWith(x, c) => Older(x, c) = Len(x) - 1 /\ Len(x) >= 1 /\ Has(x, c)
           /\ ~EndsWith(x, c) => Older(x, c) = Len(x)
<1>1. Len(x) \in Nat /\ DOMAIN x = 1..Len(x) /\ (x # <<>> => Len(x) >= 1)
  BY LenProperties, EmptySeq
<1>2. CASE EndsWith(x, c)
  <2>1. Len(x) >= 1 /\ x[Len(x)] = c /\ Len(x) \in DOMAIN x
    BY <1>1, <1>2 DEF EndsWith
  <2>2. Older(x, c) = Len(x) - 1
    BY <1>2 DEF Older
  <2>3. Has(x, c)
    BY <2>1 DEF Has
  <2>4. Len(x) - 1 \in Nat
    BY <1>1, <2>1
  <2> QED  BY <1>1, <1>2, <2>1, <2>2, <2>3, <2>4
<1>3. CASE ~EndsWith(x, c)
  BY <1>1, <1>3 DEF Older
<1> QED  BY <1>2, <1>3

LEMMA ShrinkExtended ==
    ASSUME NEW n \in Nat \ {0}, NEW m \in Nat, NEW k \in Nat, NEW X, NEW Y, NEW x,
           \A l \in 1..n : Len(X[l]) \in Nat, Len(x) \in Nat,
           Extended(Y, m, X, n, x), Shrinking(X, n, k), Len(x) <= Len(X[n])
    PROVE  Shrinking(Y, m, k)
<1> DEFINE a(l) == Len(X[l])
           b(l) == Len(Y[l])
<1>1. /\ \A l \in 1..n : a(l) \in Nat /\ a(l) <= k
      /\ \A i \in 1..n : \A j \in i..n : a(j) <= a(i)
  BY DEF Shrinking
<1>2. /\ m = n \/ m = n + 1
      /\ \A l \in 1..(n - 1) : b(l) = a(l)
      /\ \A l \in n..m : b(l) = Len(x)
  BY DEF Extended
<1>3. Len(x) <= a(n)
  OBVIOUS
<1> HIDE DEF a, b
<1>4. \A l \in 1..m : (l \in 1..(n - 1) /\ l \in 1..n) \/ l \in n..m
  BY <1>2
<1>5. n \in 1..n /\ \A l \in 1..n : n \in l..n
  OBVIOUS
<1>6. \A l \in 1..m : b(l) <= k
  BY <1>1, <1>2, <1>3, <1>4, <1>5
<1>7. ASSUME NEW i \in 1..m, NEW j \in i..m PROVE b(j) <= b(i)
  <2>1. CASE j \in 1..(n - 1)
    <3>1. i \in 1..(n - 1) /\ i \in 1..n /\ j \in i..n
      BY <1>7, <2>1
    <3> QED  BY <1>1, <1>2, <2>1, <3>1
  <2>2. CASE j \in n..m /\ i \in n..m
    BY <1>2, <2>2
  <2>3. CASE j \in n..m /\ i \in 1..(n - 1)
    <3>1. i \in 1..n /\ a(n) <= a(i) /\ b(i) = a(i) /\ b(j) = Len(x)
      BY <1>1, <1>2, <1>5, <2>3
    <3> QED  BY <1>1, <1>3, <1>5, <3>1
  <2> QED  BY <1>4, <1>7, <2>1, <2>2, <2>3
<1> QED  BY <1>6, <1>7 DEF Shrinking, b

LEMMA GrowExtended ==
    ASSUME NEW n \in Nat \ {0}, NEW m \in Nat, NEW k \in Nat, NEW X, NEW Y, NEW x, NEW c,
           \A l \in 1..n : X[l] \in Seq(Invalid), x \in Seq(Invalid),
           Extended(Y, m, X, n, x), Growing(X, n, k, c), Older(x, c) <= Older(X[n], c),
           (\E h \in 1..n : EndsWith(X[h], c)) => Len(x) <= Len(X[n])
    PROVE  Growing(Y, m, k, c)
<1> DEFINE a(l) == Older(X[l], c)
           b(l) == Older(Y[l], c)
           v(l) == Len(X[l])
           w(l) == Len(Y[l])
           e(l) == EndsWith(X[l], c)
           f(l) == EndsWith(Y[l], c)
           older == Older(x, c)
<1>1. /\ \A l \in 1..n : a(l) \in Nat /\ a(l) <= k /\ v(l) \in Nat
      /\ \A i \in 1..n : \A j \in i..n : a(j) <= a(i)
      /\ \A h \in 1..n : e(h) => \A i \in h..n : \A j \in i..n : v(j) <= v(i)
  BY OlderNat DEF Growing
<1>2. /\ m = n \/ m = n + 1
      /\ \A l \in 1..(n - 1) : b(l) = a(l) /\ w(l) = v(l) /\ (f(l) <=> e(l))
      /\ \A l \in n..m : b(l) = older /\ w(l) = Len(x) /\ (f(l) <=> EndsWith(x, c))
  BY DEF Extended
<1>3. /\ older <= a(n) /\ older \in Nat /\ Len(x) \in Nat
      /\ (\E h \in 1..n : e(h)) => Len(x) <= v(n)
  BY OlderNat
<1> HIDE DEF a, b, v, w, e, f, older
<1>4. \A l \in 1..m : (l \in 1..(n - 1) /\ l \in 1..n) \/ l \in n..m
  BY <1>2
<1>5. n \in 1..n /\ \A l \in 1..n : n \in l..n
  OBVIOUS
<1>6. \A l \in 1..m : b(l) <= k
  BY <1>1, <1>2, <1>3, <1>4, <1>5
<1>7. ASSUME NEW i \in 1..m, NEW j \in i..m PROVE b(j) <= b(i)
  <2>1. CASE j \in 1..(n - 1)
    <3>1. i \in 1..(n - 1) /\ i \in 1..n /\ j \in i..n
      BY <1>7, <2>1
    <3> QED  BY <1>1, <1>2, <2>1, <3>1
  <2>2. CASE j \in n..m /\ i \in n..m
    BY <1>2, <1>3, <2>2
  <2>3. CASE j \in n..m /\ i \in 1..(n - 1)
    <3>1. i \in 1..n /\ a(n) <= a(i) /\ b(i) = a(i) /\ b(j) = older
      BY <1>1, <1>2, <1>5, <2>3
    <3> QED  BY <1>1, <1>3, <1>5, <3>1
  <2> QED  BY <1>4, <1>7, <2>1, <2>2, <2>3
<1>8. ASSUME NEW h \in 1..m, f(h), NEW i \in h..m, NEW j \in i..m PROVE w(j) <= w(i)
  <2>0. i \in 1..m
    BY <1>8
  <2>1. CASE j \in 1..(n - 1)
    <3>1. h \in 1..(n - 1) /\ h \in 1..n /\ i \in h..n /\ i \in 1..(n - 1) /\ j \in i..n
      BY <1>8, <2>1
    <3> QED  BY <1>1, <1>2, <1>8, <2>1, <3>1
  <2>2. CASE j \in n..m /\ i \in n..m
    BY <1>2, <1>3, <2>2
  <2>3. CASE j \in n..m /\ i \in 1..(n - 1)
    <3>1. h \in 1..(n - 1) /\ h \in 1..n /\ i \in h..n /\ n \in i..n /\ i \in 1..n
      BY <1>8, <2>3
    <3>2. v(n) <= v(i) /\ Len(x) <= v(n)
      BY <1>1, <1>2, <1>3, <1>8, <3>1
    <3>3. w(j) = Len(x) /\ w(i) = v(i)
      BY <1>2, <2>3
    <3> QED  BY <1>1, <1>3, <1>5, <3>1, <3>2, <3>3
  <2> QED  BY <1>4, <1>8, <2>0, <2>1, <2>2, <2>3
<1> QED  BY <1>6, <1>7, <1>8 DEF Growing, b, w, f

LEMMA ShrinkTail ==
    ASSUME NEW n \in Nat \ {0, 1}, NEW k, NEW X, NEW Y, IsTail(Y, X, n), Shrinking(X, n, k)
    PROVE  Shrinking(Y, n - 1, k) /\ Shrinking(Y, n - 1, Len(X[1]))
<1>1. \A l \in 1..(n - 1) : l + 1 \in 1..n /\ l + 1 \in 1..n /\ Y[l] = X[l + 1]
  BY DEF IsTail
<1>2. \A i \in 1..(n - 1) : \A j \in i..(n - 1) : j \in 1..(n - 1) /\ j + 1 \in (i + 1)..n
  OBVIOUS
<1>3. 1 \in 1..n /\ \A l \in 1..(n - 1) : l + 1 \in 1..n
  OBVIOUS
<1> QED  BY <1>1, <1>2, <1>3 DEF Shrinking

LEMMA GrowTail ==
    ASSUME NEW n \in Nat \ {0, 1}, NEW k, NEW X, NEW Y, NEW c, IsTail(Y, X, n),
           Growing(X, n, k, c)
    PROVE  /\ Growing(Y, n - 1, k, c) /\ Growing(Y, n - 1, Older(X[1], c), c)
           /\ EndsWith(X[1], c) => Shrinking(Y, n - 1, Len(X[1]))
<1>1. \A l \in 1..(n - 1) : l + 1 \in 1..n /\ Y[l] = X[l + 1]
  BY DEF IsTail
<1>2. \A i \in 1..(n - 1) : \A j \in i..(n - 1) : j \in 1..(n - 1) /\ j + 1 \in (i + 1)..n
  OBVIOUS
<1>3. 1 \in 1..n /\ \A l \in 1..(n - 1) : l + 1 \in 1..n
  OBVIOUS
<1>4. /\ \A i \in 1..(n - 1) : Older(Y[i], c) <= k /\ Older(Y[i], c) <= Older(X[1], c)
      /\ \A i \in 1..(n - 1) : \A j \in i..(n - 1) : Older(Y[j], c) <= Older(Y[i], c)
  BY <1>1, <1>2, <1>3 DEF Growing
<1>5. \A h \in 1..(n - 1) : EndsWith(Y[h], c) =>
          \A i \in h..(n - 1) : \A j \in i..(n - 1) : Len(Y[j]) <= Len(Y[i])
  <2> SUFFICES ASSUME NEW h \in 1..(n - 1), EndsWith(Y[h], c), NEW i \in h..(n - 1),
                      NEW j \in i..(n - 1)
               PROVE  Len(Y[j]) <= Len(Y[i])
    OBVIOUS
  <2>1. h + 1 \in 1..n /\ i + 1 \in (h + 1)..n /\ j + 1 \in (i + 1)..n
        /\ i \in 1..(n - 1) /\ j \in 1..(n - 1)
    OBVIOUS
  <2> QED  BY <1>1, <2>1 DEF Growing
<1>6. ASSUME EndsWith(X[1], c) PROVE Shrinking(Y, n - 1, Len(X[1]))
  <2>1. \A i \in 1..n : \A j \in i..n : Len(X[j]) <= Len(X[i])
    BY <1>3, <1>6 DEF Growing
  <2> QED  BY <1>1, <1>2, <1>3, <2>1 DEF Shrinking
<1> QED  BY <1>4, <1>5, <1>6 DEF Growing

LEMMA GrowShrink ==
    ASSUME NEW n \in Nat, NEW k, NEW X, NEW c, \A l \in 1..n : X[l] \in Seq(Invalid),
           \A l \in 1..n : ~Has(X[l], c)
    PROVE  Growing(X, n, k, c) <=> Shrinking(X, n, k)
<1>1. \A l \in 1..n : ~EndsWith(X[l], c) /\ Older(X[l], c) = Len(X[l])
  BY OlderNat
<1>2. \A i \in 1..n : \A j \in i..n : j \in 1..n
  OBVIOUS
<1> QED  BY <1>1, <1>2 DEF Growing, Shrinking

LEMMA IntervalSize ==
    ASSUME NEW n \in Nat
    PROVE  IsFiniteSet(1..n) /\ Cardinality(1..n) = n
<1>1. 1 \in Int /\ n \in Int
  OBVIOUS
<1>2. IsFiniteSet(1..n) /\ Cardinality(1..n) = IF 1 > n THEN 0 ELSE n - 1 + 1
  BY <1>1, FS_Interval
<1> QED  BY <1>2

LEMMA IncreasingOnto ==
    ASSUME NEW n \in Nat \ {0}, NEW pos \in [1..n -> 1..n],
           \A i, j \in 1..n : i < j => pos[i] < pos[j]
    PROVE  pos[n] = n
<1> SUFFICES ASSUME pos[n] # n PROVE FALSE
  OBVIOUS
<1>1. n \in 1..n /\ pos[n] \in 1..(n - 1)
  OBVIOUS
<1>2. \A i \in 1..n : pos[i] \in 1..(n - 1)
  <2> TAKE i \in 1..n
  <2>1. CASE i = n
    BY <1>1, <2>1
  <2>2. CASE i < n
    <3>1. pos[i] < pos[n] /\ pos[i] \in 1..n
      BY <1>1, <2>2
    <3> QED  BY <1>1, <3>1
  <2> QED  BY <2>1, <2>2
<1>3. pos \in [1..n -> 1..(n - 1)]
  BY <1>2
<1>4. /\ IsFiniteSet(1..n) /\ Cardinality(1..n) = n
      /\ IsFiniteSet(1..(n - 1)) /\ Cardinality(1..(n - 1)) = n - 1
  <2>1. n - 1 \in Nat
    OBVIOUS
  <2> QED  BY <2>1, IntervalSize
<1>5. Cardinality(1..(n - 1)) < Cardinality(1..n)
  BY <1>4
<1>6. \E x, y \in 1..n : x # y /\ pos[x] = pos[y]
  <2> DEFINE S == 1..n
             T == 1..(n - 1)
  <2>1. IsFiniteSet(S) /\ IsFiniteSet(T) /\ Cardinality(T) < Cardinality(S) /\ pos \in [S -> T]
    BY <1>3, <1>4, <1>5
  <2> HIDE DEF S, T
  <2>2. \E x, y \in S : x # y /\ pos[x] = pos[y]
    BY <2>1, FS_PigeonHole
  <2> QED  BY <2>2 DEF S
<1>7. PICK x \in 1..n, y \in 1..n : x # y /\ pos[x] = pos[y]
  BY <1>6
<1>8. x < y \/ y < x
  BY <1>7
<1>9. pos[x] \in 1..n /\ pos[y] \in 1..n
  OBVIOUS
<1> QED  BY <1>7, <1>8, <1>9

(* What remains of the errors when some are removed.                       *)
LEMMA RemoveKeeps ==
    ASSUME TypeOK, TypeOK', NEW over, RemoveErrors(over)
    PROVE  /\ Len(invalid') <= Len(invalid)
           /\ \A i \in DOMAIN invalid' : \E j \in DOMAIN invalid : invalid'[i] = invalid[j]
           /\ \A c : Older(invalid', c) <= Older(invalid, c)
<1> DEFINE Kept == {i \in DOMAIN invalid : invalid[i] \notin over}
           r == Cardinality(Kept)
           n == Len(invalid)
<1>1. PICK pos \in [1..r -> Kept] :
          /\ \A i, j \in DOMAIN pos : i < j => pos[i] < pos[j]
          /\ invalid' = [i \in DOMAIN pos |-> invalid[pos[i]]]
  BY DEF RemoveErrors
<1>2. /\ n \in Nat /\ DOMAIN invalid = 1..n /\ invalid \in Seq(Invalid)
      /\ invalid' \in Seq(Invalid) /\ Len(invalid') \in Nat /\ DOMAIN invalid' = 1..Len(invalid')
  BY LenProperties DEF TypeOK
<1>0. n \in Nat
  BY <1>2
<1>3. Kept \subseteq 1..n
  BY <1>2
<1> HIDE DEF n
<1>4. IsFiniteSet(1..n) /\ Cardinality(1..n) = n
  BY <1>0, IntervalSize
<1>5. r \in Nat /\ r <= n
  BY <1>0, <1>3, <1>4, FS_Subset, FS_CardinalityType
<1> HIDE DEF r, Kept
<1>6. /\ DOMAIN pos = 1..r /\ pos \in [1..r -> 1..n]
      /\ \A i \in 1..r : pos[i] \in 1..n
      /\ DOMAIN invalid' = 1..r /\ \A i \in 1..r : invalid'[i] = invalid[pos[i]]
  BY <1>1, <1>3
<1>7. Len(invalid') = r
  BY <1>2, <1>5, <1>6
<1>8. ASSUME r = n, n # 0 PROVE pos[n] = n
  <2>1. n \in Nat \ {0} /\ pos \in [1..n -> 1..n]
    BY <1>0, <1>6, <1>8
  <2>2. \A i, j \in 1..n : i < j => pos[i] < pos[j]
    BY <1>1, <1>6, <1>8
  <2> QED  BY <2>1, <2>2, IncreasingOnto
<1>9. ASSUME NEW c PROVE Older(invalid', c) <= Older(invalid, c)
  <2> DEFINE o == Older(invalid, c)
             o2 == Older(invalid', c)
  <2>1. /\ o2 \in Nat /\ o \in Nat
        /\ o2 = r \/ o2 = r - 1
        /\ o = n \/ (o = n - 1 /\ EndsWith(invalid, c) /\ n >= 1)
        /\ EndsWith(invalid', c) => o2 = r - 1
    BY <1>2, <1>5, <1>7, OlderNat DEF n
  <2>2. r = n /\ n # 0 => invalid'[n] = invalid[n]
    BY <1>0, <1>6, <1>8
  <2>3. r = n /\ n # 0 /\ EndsWith(invalid, c) => EndsWith(invalid', c)
    BY <1>2, <1>7, <2>2, EmptySeq DEF EndsWith, n
  <2> HIDE DEF o, o2
  <2>4. o2 <= o
    BY <1>0, <1>5, <2>1, <2>3
  <2> QED  BY <2>4 DEF o, o2
<1>10. \A i \in DOMAIN invalid' : \E j \in DOMAIN invalid : invalid'[i] = invalid[j]
  BY <1>2, <1>6
<1> QED  BY <1>5, <1>7, <1>9, <1>10 DEF n

LEMMA ListsOfTyped ==
    ASSUME NEW q \in Seq(State), NEW x \in Seq(Invalid)
    PROVE  LET n == Len(q) + 1
               X == ListsOf(q, x)
           IN  /\ n \in Nat \ {0} /\ Len(q) = n - 1
               /\ \A l \in 1..n : X[l] \in Seq(Invalid) /\ Len(X[l]) \in Nat
               /\ \A l \in 1..(n - 1) : X[l] = q[l].invalid
               /\ X[n] = x
<1> DEFINE n == Len(q) + 1
           X == ListsOf(q, x)
<1>1. /\ Len(q) \in Nat
      /\ \A l \in 1..Len(q) : q[l].invalid \in Seq(Invalid)
  <2>1. \A s \in State : s.invalid \in Seq(Invalid)
    BY DEF State
  <2> QED  BY <2>1, LenProperties, ElementOfSeq
<1>3. n \in Nat \ {0} /\ Len(q) = n - 1
      /\ \A l \in 1..n : l <= Len(q) => l \in 1..Len(q)
  BY <1>1
<1>4. \A l \in 1..n : X[l] \in Seq(Invalid)
  BY <1>1, <1>3 DEF ListsOf
<1>5. \A l \in 1..n : Len(X[l]) \in Nat
  BY <1>4, LenProperties
<1>6. (\A l \in 1..(n - 1) : X[l] = q[l].invalid) /\ X[n] = x
  BY <1>1, <1>3 DEF ListsOf
<1> QED  BY <1>3, <1>4, <1>5, <1>6

LEMMA ListsTyped ==
    ASSUME TypeOK
    PROVE  /\ Latest \in Nat \ {0} /\ Len(states) = Latest - 1
           /\ \A l \in 1..Latest : Lists[l] \in Seq(Invalid) /\ Len(Lists[l]) \in Nat
           /\ \A l \in 1..(Latest - 1) : Lists[l] = states[l].invalid
           /\ Lists[Latest] = invalid
BY ListsOfTyped DEF Lists, Latest, TypeOK

LEMMA ListsTypedNext ==
    ASSUME TypeOK'
    PROVE  /\ Latest' \in Nat \ {0} /\ Len(states') = Latest' - 1
           /\ \A l \in 1..Latest' : Lists'[l] \in Seq(Invalid) /\ Len(Lists'[l]) \in Nat
           /\ \A l \in 1..(Latest' - 1) : Lists'[l] = states'[l].invalid
           /\ Lists'[Latest'] = invalid'
BY ListsOfTyped DEF Lists, Latest, TypeOK

(* The last list changes, and may be published. *)
LEMMA ListsExtended ==
    ASSUME TypeOK, TypeOK', Publish \/ states' = states
    PROVE  Extended(Lists', Latest', Lists, Latest, invalid')
<1>1. /\ Latest \in Nat \ {0} /\ Len(states) = Latest - 1
      /\ \A l \in 1..(Latest - 1) : Lists[l] = states[l].invalid
  BY ListsTyped
<1>2. /\ Latest' \in Nat \ {0} /\ Len(states') = Latest' - 1
      /\ \A l \in 1..(Latest' - 1) : Lists'[l] = states'[l].invalid
      /\ Lists'[Latest'] = invalid'
  BY ListsTypedNext
<1>3. CASE states' = states
  <2>1. Latest' = Latest
    BY <1>1, <1>2, <1>3
  <2>2. \A l \in Latest..Latest : l = Latest
    BY <1>1
  <2> QED  BY <1>1, <1>2, <1>3, <2>1, <2>2 DEF Extended
<1>4. CASE Publish /\ online'
  <2> DEFINE s == [status |-> status', refused |-> refused', invalid |-> invalid', failed |-> failed']
  <2>1. states' = Append(states, s) /\ s.invalid = invalid'
    BY <1>4 DEF Publish
  <2> HIDE DEF s
  <2>2. Len(states') = Len(states) + 1 /\ states'[Len(states) + 1] = s
        /\ \A l \in 1..Len(states) : states'[l] = states[l]
    <3>1. states \in Seq(State \cup {s})
      <4>1. states \in Seq(State)
        BY DEF TypeOK
      <4> QED  BY <4>1
    <3> QED  BY <2>1, <3>1, AppendProperties
  <2>3. Latest' = Latest + 1
    BY <1>1, <1>2, <2>2
  <2>4. \A l \in 1..(Latest - 1) : l \in 1..(Latest' - 1) /\ l \in 1..Len(states)
    BY <1>1, <2>3
  <2>5. \A l \in 1..(Latest - 1) : Lists'[l] = Lists[l]
    BY <1>1, <1>2, <2>2, <2>4
  <2>6. Latest \in 1..(Latest' - 1) /\ Latest = Len(states) + 1
    BY <1>1, <2>3
  <2>7. Lists'[Latest] = invalid' /\ Lists'[Latest + 1] = invalid'
    BY <1>2, <2>1, <2>2, <2>3, <2>6
  <2>8. \A l \in Latest..(Latest + 1) : l = Latest \/ l = Latest + 1
    BY <1>1
  <2> QED  BY <2>3, <2>5, <2>7, <2>8 DEF Extended
<1>5. CASE Publish /\ ~online'
  BY <1>3, <1>5 DEF Publish
<1> QED  BY <1>3, <1>4, <1>5

LEMMA ListsTail ==
    ASSUME TypeOK, TypeOK', states # <<>>, states' = Tail(states), invalid' = invalid
    PROVE  /\ Latest \in Nat \ {0, 1} /\ Latest' = Latest - 1 /\ IsTail(Lists', Lists, Latest)
           /\ Lists[1] = Head(states).invalid /\ Head(states) \in State
<1>1. /\ Latest \in Nat \ {0} /\ Len(states) = Latest - 1
      /\ \A l \in 1..(Latest - 1) : Lists[l] = states[l].invalid
      /\ Lists[Latest] = invalid
  BY ListsTyped
<1>2. /\ Latest' \in Nat \ {0} /\ Len(states') = Latest' - 1
      /\ \A l \in 1..(Latest' - 1) : Lists'[l] = states'[l].invalid
      /\ Lists'[Latest'] = invalid'
  BY ListsTypedNext
<1>3. /\ Len(states') = Len(states) - 1 /\ Head(states) = states[1] /\ Head(states) \in State
      /\ \A l \in 1..(Len(states) - 1) : states'[l] = states[l + 1]
  BY HeadTailProperties, EmptySeq DEF TypeOK
<1>4. Latest' = Latest - 1 /\ Latest # 1 /\ 1 \in 1..(Latest - 1)
  BY <1>1, <1>2, <1>3
<1>5. \A l \in 1..(Latest - 1) : Lists'[l] = Lists[l + 1]
  <2> TAKE l \in 1..(Latest - 1)
  <2>1. CASE l = Latest - 1
    BY <1>1, <1>2, <1>4, <2>1
  <2>2. CASE l # Latest - 1
    <3>1. l \in 1..(Latest' - 1) /\ l + 1 \in 1..(Latest - 1) /\ l \in 1..(Len(states) - 1)
      BY <1>1, <1>4, <2>2
    <3>2. Lists'[l] = states'[l].invalid
      BY <1>2, <3>1
    <3>3. states'[l] = states[l + 1]
      BY <1>3, <3>1
    <3>4. Lists[l + 1] = states[l + 1].invalid
      BY <1>1, <3>1
    <3> QED  BY <3>2, <3>3, <3>4
  <2> QED  BY <2>1, <2>2
<1> QED  BY <1>1, <1>3, <1>4, <1>5 DEF IsTail

-----------------------------------------------------------------------------
(* Whether an error may come, step by step. *)

(* Nothing changes but that messages arrive. *)
LEMMA PhaseSame ==
    ASSUME Phase, UNCHANGED <<states, invalid, known, waiting, initiated>>,
           \A i \in DOMAIN messages' : \E j \in DOMAIN messages : messages'[i] = messages[j]
    PROVE  Phase'
<1>1. Lists' = Lists /\ Latest' = Latest
  BY DEF Lists, Latest
<1>2. Settled => Settled'
  BY <1>1 DEF Settled
<1>3. \A m \in Messages : Unsettled(m) => Unsettled(m)'
  BY <1>1 DEF Unsettled
<1> QED  BY <1>2, <1>3 DEF Phase

(* Errors are removed, or not, and the state may be published. *)
LEMMA PhaseExtended ==
    ASSUME TypeOK, TypeOK', Phase, Publish \/ states' = states,
           UNCHANGED <<known, waiting, initiated, messages>>, Len(invalid') <= Len(invalid),
           \A i \in DOMAIN invalid' : \E j \in DOMAIN invalid : invalid'[i] = invalid[j],
           \A c : Older(invalid', c) <= Older(invalid, c)
    PROVE  Phase'
<1> DEFINE n == Latest
           k == Len(known)
<1>1. /\ n \in Nat \ {0} /\ n' \in Nat /\ k \in Nat /\ n \in 1..n
      /\ \A l \in 1..n : Lists[l] \in Seq(Invalid) /\ Len(Lists[l]) \in Nat
      /\ Lists[n] = invalid /\ invalid' \in Seq(Invalid) /\ Len(invalid') \in Nat
      /\ Extended(Lists', n', Lists, n, invalid')
  <2>1. /\ n \in Nat \ {0} /\ Lists[n] = invalid
        /\ \A l \in 1..n : Lists[l] \in Seq(Invalid) /\ Len(Lists[l]) \in Nat
    BY ListsTyped
  <2>2. n' \in Nat /\ Extended(Lists', n', Lists, n, invalid')
    BY ListsTypedNext, ListsExtended
  <2>3. invalid' \in Seq(Invalid) /\ Len(invalid') \in Nat /\ k \in Nat
    BY LenProperties DEF TypeOK
  <2> HIDE DEF n, k
  <2> QED  BY <2>1, <2>2, <2>3
<1>2. ASSUME Settled PROVE Settled'
  <2>1. Shrinking(Lists', n', k)
    <3>1. Shrinking(Lists, n, k) /\ Len(invalid') <= Len(Lists[n])
      BY <1>1, <1>2 DEF Settled
    <3> HIDE DEF n, k
    <3> QED  BY <1>1, <3>1, ShrinkExtended
  <2> QED  BY <1>2, <2>1 DEF Settled
<1>3. ASSUME NEW m \in Messages, Unsettled(m) PROVE Unsettled(m)'
  <2>1. Growing(Lists', n', k, m.id)
    <3>1. Growing(Lists, n, k, m.id)
      BY <1>3 DEF Unsettled
    <3>2. Older(invalid', m.id) <= Older(Lists[n], m.id) /\ Len(invalid') <= Len(Lists[n])
      BY <1>1
    <3> DEFINE c == m.id
    <3> HIDE DEF n, k, c
    <3> QED  BY <1>1, <3>1, <3>2, GrowExtended DEF c
  <2>2. ASSUME \A l \in 1..n : ~Has(Lists[l], m.id) PROVE \A l \in 1..n' : ~Has(Lists'[l], m.id)
    <3>1. ~Has(invalid', m.id)
      BY <1>1, <2>2 DEF Has
    <3>2. \A l \in 1..n' : (l \in 1..(n - 1) /\ l \in 1..n) \/ l \in n..n'
      BY <1>1
    <3> QED  BY <1>1, <2>2, <3>1, <3>2 DEF Extended
  <2> QED  BY <1>3, <2>1, <2>2 DEF Unsettled
<1> QED  BY <1>2, <1>3 DEF Phase

(* A state is lost. *)
LEMMA PhaseLost ==
    ASSUME TypeOK, TypeOK', Phase, states # <<>>, states' = Tail(states),
           UNCHANGED <<known, waiting, initiated, messages, invalid>>
    PROVE  Phase'
<1>1. /\ Latest \in Nat \ {0, 1} /\ Latest' = Latest - 1 /\ IsTail(Lists', Lists, Latest)
  BY ListsTail
<1>2. ASSUME Settled PROVE Settled'
  BY <1>1, <1>2, ShrinkTail DEF Settled
<1>3. ASSUME NEW m \in Messages, Unsettled(m) PROVE Unsettled(m)'
  <2>1. Growing(Lists', Latest', Len(known), m.id)
    BY <1>1, <1>3, GrowTail DEF Unsettled
  <2>2. \A l \in 1..Latest' : l + 1 \in 1..Latest /\ Lists'[l] = Lists[l + 1]
    BY <1>1 DEF IsTail
  <2> QED  BY <1>3, <2>1, <2>2 DEF Unsettled
<1> QED  BY <1>2, <1>3 DEF Phase

(* Nothing waits, or is awaited, when a message is initiated. *)
LEMMA PhaseInitiated ==
    ASSUME Patient, \A m \in Messages : ~m.valid => m.actions # {}, TypeOK, TypeOK', Phase,
           SentErrors, NEW m \in Messages, InitiateInstantActions(m)
    PROVE  Phase'
<1>1. /\ m \notin initiated /\ initiated' = initiated \cup {m} /\ waiting = {}
      /\ waiting' = m.actions /\ messages' = Append(messages, m)
      /\ UNCHANGED <<states, invalid, known>>
  BY DEF InitiateInstantActions, agv
<1>2. Settled
  BY <1>1 DEF Phase, Unsettled
<1>3. Lists' = Lists /\ Latest' = Latest
  BY <1>1 DEF Lists, Latest
<1>4. \A i \in DOMAIN messages' : messages'[i] = m \/ \E j \in DOMAIN messages : messages'[i] = messages[j]
  <2>1. Len(messages) \in Nat /\ DOMAIN messages = 1..Len(messages) /\ messages' \in Seq(Messages)
        /\ DOMAIN messages' = 1..(Len(messages) + 1) /\ messages'[Len(messages) + 1] = m
        /\ \A i \in 1..Len(messages) : messages'[i] = messages[i]
    BY <1>1, LenProperties, AppendProperties DEF TypeOK
  <2>2. \A i \in 1..(Len(messages) + 1) : i \in 1..Len(messages) \/ i = Len(messages) + 1
    BY <2>1
  <2> QED  BY <2>1, <2>2
<1>5. CASE m.valid
  BY <1>1, <1>2, <1>3, <1>4, <1>5 DEF Phase, Settled
<1>6. CASE ~m.valid
  <2>1. \A l \in 1..Latest : ~Has(Lists[l], m.id)
    <3> SUFFICES ASSUME NEW l \in 1..Latest, NEW i \in DOMAIN Lists[l], Lists[l][i] = m.id
                 PROVE  FALSE
      BY DEF Has
    <3>1. PICK c \in initiated : Lists[l][i] = c.id
      BY DEF SentErrors
    <3>2. c \in Messages /\ c # m
      BY <1>1 DEF TypeOK
    <3> QED  BY <3>1, <3>2, ReportsAssumption
  <2>2. Growing(Lists, Latest, Len(known), m.id)
    BY <1>2, <2>1, ListsTyped, GrowShrink DEF Settled
  <2>3. Unsettled(m)'
    BY <1>1, <1>2, <1>3, <1>4, <1>6, <2>1, <2>2 DEF Unsettled, Settled
  <2> QED  BY <2>3 DEF Phase
<1> QED  BY <1>5, <1>6

(* The message that is awaited has not been sent. *)
LEMMA PhaseRejected ==
    ASSUME \A m \in Messages : ~m.valid => m.actions # {}, TypeOK, TypeOK', SentOnce, OneAwaited,
           Phase, NEW p \in awaited, PublishRejects(p)
    PROVE  Phase'
<1> DEFINE n == Len(messages)
<1>1. /\ messages # <<>> /\ messages[n] = p.msg /\ messages' = Front(messages)
      /\ waiting' = waiting \ p.msg.actions
      /\ UNCHANGED <<states, invalid, known, initiated>>
  BY DEF PublishRejects, agv, Last
<1>2. n \in Nat \ {0} /\ DOMAIN messages = 1..n
  BY <1>1, LenProperties, EmptySeq DEF TypeOK
<1>3. /\ messages' \in Seq(Messages) /\ Len(messages') = n - 1
      /\ \A i \in 1..(n - 1) : messages'[i] = messages[i]
  BY <1>1, FrontOf DEF TypeOK
<1>4. /\ DOMAIN messages' = 1..(n - 1) /\ n \in 1..n
      /\ \A i \in 1..(n - 1) : i \in 1..n /\ i # n
  <2>1. DOMAIN messages' = 1..(n - 1)
    BY <1>3, LenProperties
  <2> HIDE DEF n
  <2> QED  BY <1>2, <2>1
<1>5. \A i \in DOMAIN messages' :
          /\ \E j \in DOMAIN messages : messages'[i] = messages[j]
          /\ messages'[i] # p.msg
  BY <1>1, <1>2, <1>3, <1>4 DEF SentOnce
<1>6. Lists' = Lists /\ Latest' = Latest
  BY <1>1 DEF Lists, Latest
<1>7. ASSUME Settled PROVE Settled'
  BY <1>1, <1>5, <1>6, <1>7 DEF Settled
<1>8. ASSUME NEW m \in Messages, Unsettled(m) PROVE Settled'
  <2>1. p.msg \in Messages /\ waiting \subseteq p.msg.actions /\ waiting = m.actions /\ m.actions # {}
    BY <1>8 DEF OneAwaited, TypeOK, Unsettled
  <2>2. p.msg = m
    BY <2>1, ReportsAssumption
  <2>3. \A l \in 1..Latest : ~Has(Lists[l], m.id)
    BY <1>1, <1>2, <1>4, <1>8, <2>2 DEF Unsettled
  <2>4. Shrinking(Lists, Latest, Len(known))
    BY <1>8, <2>3, ListsTyped, GrowShrink DEF Unsettled
  <2>5. \A i \in DOMAIN messages' : messages'[i].valid
    BY <1>5, <1>8, <2>2 DEF Unsettled
  <2> QED  BY <1>1, <1>6, <2>4, <2>5 DEF Settled
<1> QED  BY <1>7, <1>8 DEF Phase

(* A message arrives that is invalid: the one whose error may come. *)
LEMMA PhaseReceived ==
    ASSUME TypeOK, TypeOK', SentOnce, Phase, ReceiveActions, ~Head(messages).valid
    PROVE  Phase'
<1> DEFINE n == Len(messages)
<1>0. PICK m \in Messages : m = Head(messages)
  BY HeadTailProperties DEF ReceiveActions, TypeOK
<1>1. /\ ~m.valid /\ messages # <<>> /\ messages' = Tail(messages) /\ invalid' = Append(invalid, m.id)
      /\ Publish /\ UNCHANGED <<known, waiting, initiated>>
  BY <1>0 DEF ReceiveActions, master
<1>2. /\ n \in Nat \ {0} /\ DOMAIN messages = 1..n /\ 1 \in 1..n /\ m = messages[1]
  BY <1>0, <1>1, LenProperties, EmptySeq DEF TypeOK
<1>3. /\ messages' \in Seq(Messages) /\ Len(messages') = n - 1
      /\ \A i \in 1..(n - 1) : messages'[i] = messages[i + 1]
  BY <1>1, HeadTailProperties DEF TypeOK
<1>4. /\ DOMAIN messages' = 1..(n - 1)
      /\ \A i \in 1..(n - 1) : i + 1 \in 1..n /\ i + 1 # 1
  BY <1>2, <1>3, LenProperties
<1>5. \A i \in DOMAIN messages' :
          /\ \E j \in DOMAIN messages : messages'[i] = messages[j]
          /\ messages'[i] # m
  BY <1>2, <1>3, <1>4 DEF SentOnce
<1>6. Unsettled(m)
  BY <1>1, <1>2 DEF Phase, Settled, Unsettled
<1>7. \A l \in 1..Latest : ~Has(Lists[l], m.id)
  BY <1>2, <1>6 DEF Unsettled
<1> DEFINE c == m.id
           x == invalid'
           N == Latest
           k == Len(known)
<1>8. /\ N \in Nat \ {0} /\ N' \in Nat /\ N \in 1..N
      /\ \A l \in 1..N : Lists[l] \in Seq(Invalid) /\ Len(Lists[l]) \in Nat
      /\ Lists[N] = invalid /\ x \in Seq(Invalid)
      /\ Extended(Lists', N', Lists, N, x)
  <2>1. /\ N \in Nat \ {0} /\ Lists[N] = invalid
        /\ \A l \in 1..N : Lists[l] \in Seq(Invalid) /\ Len(Lists[l]) \in Nat
    BY ListsTyped
  <2>2. N' \in Nat /\ Extended(Lists', N', Lists, N, x)
    BY <1>1, ListsTypedNext, ListsExtended
  <2>3. x \in Seq(Invalid)
    BY DEF TypeOK
  <2> HIDE DEF N, x
  <2> QED  BY <2>1, <2>2, <2>3
<1>9. k \in Nat
  BY LenProperties DEF TypeOK
<1>10. Older(x, c) = Len(invalid) /\ Older(invalid, c) = Len(invalid)
  <2>1. invalid \in Seq(Invalid) /\ Len(invalid) \in Nat
    BY LenProperties DEF TypeOK
  <2>2. Len(x) = Len(invalid) + 1 /\ x[Len(invalid) + 1] = c
    <3>1. invalid \in Seq(Invalid \cup {c})
      BY <2>1
    <3> QED  BY <1>1, <3>1, AppendProperties
  <2>3. EndsWith(x, c)
    BY <1>8, <2>1, <2>2, EmptySeq DEF EndsWith
  <2>4. ~EndsWith(invalid, c)
    BY <1>7, <1>8, <2>1, OlderNat
  <2> QED  BY <1>8, <2>1, <2>2, <2>3, <2>4, OlderNat
<1>11. \A h \in 1..N : ~EndsWith(Lists[h], c)
  BY <1>7, <1>8, OlderNat
<1>12. Growing(Lists, N, k, c)
  BY <1>6 DEF Unsettled
<1>13. Growing(Lists', N', k, c)
  <2>1. Older(x, c) <= Older(Lists[N], c)
    <3>1. Len(invalid) \in Nat
      BY LenProperties DEF TypeOK
    <3> QED  BY <1>8, <1>10, <3>1
  <2> HIDE DEF c, x, N, k
  <2> QED  BY <1>8, <1>9, <1>11, <1>12, <2>1, GrowExtended
<1>14. Unsettled(m)'
  BY <1>1, <1>5, <1>6, <1>13 DEF Unsettled
<1> QED  BY <1>14 DEF Phase

-----------------------------------------------------------------------------
(* What is known and heard when a state arrives. *)

LEMMA KnownRefs == TypeOK => \A i \in DOMAIN known : known[i].ref \in Int
<1> SUFFICES ASSUME TypeOK PROVE \A i \in DOMAIN known : known[i].ref \in Int
  OBVIOUS
<1> DEFINE K == [ref : Int, error : Invalid]
<1>1. \A k \in K : k.ref \in Int
  OBVIOUS
<1>2. known \in Seq(K)
  BY DEF TypeOK
<1> HIDE DEF K
<1> QED  BY <1>1, <1>2, ElementOfSeq

LEMMA KnownChange ==
    ASSUME TypeOK, NEW s \in State
    PROVE  LET ks == KnownErrors(s)
               old == Len(known)
               new == Len(s.invalid)
           IN  /\ ks \in Seq([ref : Int, error : Invalid]) /\ old \in Nat /\ new \in Nat
               /\ ref = 0 => ks = known
               /\ ref # 0 /\ new <= old =>
                     Len(ks) = new /\ \A i \in DOMAIN ks : \E j \in DOMAIN known : ks[i] = known[j]
               /\ ref # 0 /\ new = old + 1 =>
                     /\ Len(ks) = new /\ ks[new] = [ref |-> ref, error |-> s.invalid[new]]
                     /\ \A i \in 1..old : ks[i] = known[i]
<1> DEFINE K == [ref : Int, error : Invalid]
           ks == KnownErrors(s)
           old == Len(known)
           new == Len(s.invalid)
           more == [i \in 1..(new - old) |-> [ref |-> ref + 1 - i, error |-> s.invalid[old + i]]]
<1>1. /\ ks \in Seq(K) /\ known \in Seq(K) /\ ref \in Nat /\ s.invalid \in Seq(Invalid)
      /\ DOMAIN known = 1..old /\ DOMAIN ks = 1..Len(ks)
  <2>1. ks \in Seq(K)
    BY KnownTyped
  <2>2. known \in Seq(K) /\ ref \in Nat /\ s.invalid \in Seq(Invalid)
    BY DEF TypeOK, State
  <2> HIDE DEF ks, K
  <2> QED  BY <2>1, <2>2, LenProperties
<1>2. old \in Nat /\ new \in Nat
  BY <1>1, LenProperties
<1>3. ref = 0 => ks = known
  BY DEF KnownErrors
<1>4. ref # 0 /\ new >= old => ks = known \o more
  BY DEF KnownErrors
<1>5. ref # 0 /\ new < old => ks = SubSeq(known, old - new + 1, old)
  <2>1. new < old => ~(new >= old)
    <3> HIDE DEF old, new
    <3> QED  BY <1>2
  <2> QED  BY <2>1 DEF KnownErrors
<1>6. ASSUME ref # 0, new < old
      PROVE  Len(ks) = new /\ \A i \in DOMAIN ks : \E j \in DOMAIN known : ks[i] = known[j]
  <2> DEFINE d == old - new + 1
  <2>1. d \in Int /\ old \in Int /\ d >= 1 /\ old - d + 1 = new /\ (d <= old \/ new = 0)
    <3>1. d = old - new + 1 /\ new < old
      BY <1>6
    <3> HIDE DEF old, new, d
    <3> QED  BY <1>2, <3>1
  <2>2. \A i \in d..old : i \in 1..old /\ known[i] \in K
    <3>1. \A i \in d..old : i \in 1..old
      BY <1>2, <2>1
    <3> QED  BY <1>1, <3>1, ElementOfSeq
  <2> HIDE DEF d, K
  <2>3. /\ Len(SubSeq(known, d, old)) = (IF d <= old THEN old - d + 1 ELSE 0)
        /\ \A i \in 1..(old - d + 1) : SubSeq(known, d, old)[i] = known[d + i - 1]
    BY <2>1, <2>2, SubSeqProperties
  <2>4. ks = SubSeq(known, d, old)
    BY <1>5, <1>6 DEF d
  <2>5. Len(ks) = new
    BY <2>1, <2>3, <2>4
  <2>6. \A i \in 1..new : d + i - 1 \in 1..old
    <3> HIDE DEF old, new
    <3> QED  BY <1>2, <2>1
  <2> QED  BY <1>1, <2>1, <2>3, <2>4, <2>5, <2>6
<1>7. ASSUME ref # 0, new = old
      PROVE  ks = known
  <2>1. \A i \in 1..(new - old) : FALSE
    BY <1>2, <1>7
  <2>2. more = <<>>
    <3>1. 1..(new - old) = {}
      BY <2>1
    <3>2. more \in [{} -> K]
      BY <3>1
    <3>3. more \in [1..0 -> K]
      BY <3>2
    <3>4. more \in Seq(K)
      <4> HIDE DEF more, K
      <4> QED  BY <3>3, SeqDef
    <3> HIDE DEF more, K
    <3>5. DOMAIN more = 1..0 /\ DOMAIN more = 1..Len(more) /\ Len(more) \in Nat
      BY <3>3, <3>4, LenProperties
    <3>6. Len(more) = 0
      BY <3>5
    <3> QED  BY <3>4, <3>6, EmptySeq
  <2> HIDE DEF more, K
  <2> QED  BY <1>1, <1>2, <1>4, <1>7, <2>2, ConcatEmptySeq
<1>8. ASSUME ref # 0, new = old + 1
      PROVE  /\ Len(ks) = new /\ ks[new] = [ref |-> ref, error |-> s.invalid[new]]
             /\ \A i \in 1..old : ks[i] = known[i]
  <2>1. new - old = 1 /\ new \in 1..new /\ old + 1 = new /\ ref + 1 - 1 = ref
    <3>1. ref \in Nat
      BY <1>1
    <3> HIDE DEF old, new
    <3> QED  BY <1>2, <1>8, <3>1
  <2>2. s.invalid[new] \in Invalid
    BY <1>1, <1>2, <2>1, ElementOfSeq
  <2>3. more = [i \in 1..1 |-> [ref |-> ref + 1 - i, error |-> s.invalid[old + i]]]
    BY <2>1
  <2>4. more \in [1..1 -> K] /\ more[1] = [ref |-> ref, error |-> s.invalid[new]]
    <3>1. \A i \in 1..1 : i = 1
      OBVIOUS
    <3>2. 1 \in 1..1
      OBVIOUS
    <3> HIDE DEF old, new
    <3> QED  BY <1>1, <2>1, <2>2, <2>3, <3>1, <3>2
  <2> HIDE DEF more, K
  <2>5. more \in Seq(K) /\ Len(more) = 1
    <3>1. more \in Seq(K)
      BY <2>4, SeqDef
    <3>2. DOMAIN more = 1..1 /\ DOMAIN more = 1..Len(more) /\ Len(more) \in Nat
      BY <2>4, <3>1, LenProperties
    <3> QED  BY <3>1, <3>2
  <2>6. /\ Len(known \o more) = old + 1
        /\ \A i \in 1..(old + 1) : (known \o more)[i] = IF i <= old THEN known[i] ELSE more[i - old]
    BY <1>1, <2>5, ConcatProperties
  <2>7. ks = known \o more
    BY <1>2, <1>4, <1>8
  <2>8. ~(new <= old) /\ new \in 1..(old + 1) /\ \A i \in 1..old : i \in 1..(old + 1) /\ i <= old
    <3> HIDE DEF old, new
    <3> QED  BY <1>2, <1>8
  <2> QED  BY <1>8, <2>1, <2>4, <2>6, <2>7, <2>8
<1>9. new <= old <=> new < old \/ new = old
  <2> HIDE DEF old, new
  <2> QED  BY <1>2
<1> QED  BY <1>1, <1>2, <1>3, <1>6, <1>7, <1>8, <1>9

(* An action waits on unless there is an error about it or it has ended.   *)
LEMMA DispatchErrors ==
    ASSUME TypeOK, DispatchState, NEW a \in ActionId
    PROVE  LET s == Head(states)
               E == ErrorsAbout(a, s, KnownErrors(s))
           IN  /\ a \in waiting' => a \in waiting /\ E = {}
               /\ a \in waiting /\ a \notin waiting' => E # {} \/ s.status[a] # "ABSENT"
               /\ heard'[a] = heard[a]
                  \/ (a \in waiting /\ \E x \in {"RUNNING", "ENDED"} \cup E :
                                          heard'[a] = heard[a] \o <<x>>)
<1> DEFINE s == Head(states)
           E(b) == ErrorsAbout(b, s, KnownErrors(s))
           Changed == {b \in waiting : HasChanged(b, s)}
           Refused == {b \in waiting : E(b) # {}}
           Tell(b) == IF b \in Changed THEN <<s.status[b]>>
                      ELSE IF b \in Refused THEN <<CHOOSE e \in E(b) : TRUE>>
                      ELSE <<>>
<1>0. s \in State
  BY HeadTailProperties DEF DispatchState, TypeOK
<1>1. /\ heard'[a] = heard[a] \o Tell(a)
      /\ waiting' = waiting \ (Refused \cup {b \in Changed : s.status[b] = "ENDED"})
  BY DEF DispatchState
<1>2. s.status[a] \in {"ABSENT", "RUNNING", "ENDED"}
  BY <1>0 DEF State, Status
<1>3. heard[a] \o <<>> = heard[a]
  BY ConcatEmptySeq DEF TypeOK
<1>4. a \in Changed => a \in waiting /\ s.status[a] # "ABSENT"
  BY DEF HasChanged
<1>5. a \in Refused <=> a \in waiting /\ E(a) # {}
  OBVIOUS
<1>6. Tell(a) = IF a \in Changed THEN <<s.status[a]>>
                ELSE IF a \in Refused THEN <<CHOOSE e \in E(a) : TRUE>> ELSE <<>>
  OBVIOUS
<1>7. E(a) # {} => (CHOOSE e \in E(a) : TRUE) \in E(a)
  OBVIOUS
<1>8. E(a) = ErrorsAbout(a, s, KnownErrors(s))
  OBVIOUS
<1> HIDE DEF E, Tell
<1>11. a \in waiting' => a \in waiting /\ a \notin Refused
  BY <1>1
<1>12. a \in waiting /\ a \notin waiting' => a \in Refused \/ a \in Changed
  BY <1>1
<1> HIDE DEF Changed, Refused
<1>9. heard'[a] = heard[a]
      \/ (a \in waiting /\ \E x \in {"RUNNING", "ENDED"} \cup E(a) : heard'[a] = heard[a] \o <<x>>)
  <2>1. CASE a \in Changed
    <3>1. heard'[a] = heard[a] \o <<s.status[a]>> /\ a \in waiting
          /\ s.status[a] \in {"RUNNING", "ENDED"} \cup E(a)
      BY <1>1, <1>2, <1>4, <1>6, <2>1
    <3> QED  BY <3>1
  <2>2. CASE a \notin Changed /\ a \in Refused
    <3>1. heard'[a] = heard[a] \o <<CHOOSE e \in E(a) : TRUE>> /\ a \in waiting
      BY <1>1, <1>5, <1>6, <2>2
    <3>2. (CHOOSE e \in E(a) : TRUE) \in {"RUNNING", "ENDED"} \cup E(a)
      BY <1>5, <1>7, <2>2
    <3> QED  BY <3>1, <3>2
  <2>3. CASE a \notin Changed /\ a \notin Refused
    BY <1>1, <1>3, <1>6, <2>3
  <2> QED  BY <2>1, <2>2, <2>3
<1>10. /\ a \in waiting' => a \in waiting /\ E(a) = {}
       /\ a \in waiting /\ a \notin waiting' => E(a) # {} \/ s.status[a] # "ABSENT"
  BY <1>4, <1>5, <1>11, <1>12
<1> QED  BY <1>8, <1>9, <1>10

(* Errors are about messages as they are known. *)
LEMMA ErrorsOf ==
    ASSUME NEW s, NEW a, NEW ks, NEW e,
           \A i \in DOMAIN ks : ks[i].ref = refOf[a] => ks[i].error = e
    PROVE  ErrorsAbout(a, s, ks) \subseteq {a, e}
BY DEF ErrorsAbout

LEMMA NoErrorsOf ==
    ASSUME NEW s, NEW a, NEW ks, \A i \in DOMAIN ks : ks[i].ref # refOf[a]
    PROVE  /\ ErrorsAbout(a, s, ks) \subseteq {a}
           /\ Says(s, a) = "NOTHING" => ErrorsAbout(a, s, ks) = {}
BY DEF ErrorsAbout, Says

LEMMA HeardOf ==
    ASSUME TypeOK, RightError, NEW m \in Messages, NEW a \in m.actions, NEW x, NEW h,
           x \in Invalid => x = m.id, h = heard[a] \o <<x>>
    PROVE  \A i \in DOMAIN h : h[i] \in Invalid => h[i] = m.id
<1> DEFINE X == {"RUNNING", "ENDED"} \cup ActionId \cup Invalid \cup {x}
           q == heard[a]
           r == <<x>>
<1>1. a \in ActionId
  BY MessageFields
<1>2. q \in Seq(X)
  <2>1. q \in Seq({"RUNNING", "ENDED"} \cup ActionId \cup Invalid)
    BY <1>1 DEF TypeOK
  <2> QED  BY <2>1
<1>3. r \in Seq(X) /\ Len(r) = 1 /\ r[1] = x
  OBVIOUS
<1>4. \A i \in DOMAIN q : q[i] \in Invalid => q[i] = m.id
  BY DEF RightError
<1> HIDE DEF X, q, r
<1>5. /\ Len(q) \in Nat /\ DOMAIN q = 1..Len(q) /\ q \o r \in Seq(X)
      /\ Len(q \o r) = Len(q) + 1
      /\ \A i \in 1..(Len(q) + 1) : (q \o r)[i] = IF i <= Len(q) THEN q[i] ELSE r[i - Len(q)]
  <2>1. Len(q) \in Nat /\ DOMAIN q = 1..Len(q)
    BY <1>2, LenProperties
  <2>2. /\ q \o r \in Seq(X) /\ Len(q \o r) = Len(q) + Len(r)
        /\ \A i \in 1..(Len(q) + Len(r)) :
              (q \o r)[i] = IF i <= Len(q) THEN q[i] ELSE r[i - Len(q)]
    BY <1>2, <1>3, ConcatProperties
  <2> QED  BY <1>3, <2>1, <2>2
<1>6. DOMAIN (q \o r) = 1..(Len(q) + 1)
  BY <1>5, LenProperties
<1>7. ASSUME NEW i \in 1..(Len(q) + 1), (q \o r)[i] \in Invalid PROVE (q \o r)[i] = m.id
  <2>1. CASE i <= Len(q)
    BY <1>4, <1>5, <1>7, <2>1
  <2>2. CASE ~(i <= Len(q))
    <3>1. i - Len(q) = 1
      BY <1>5, <2>2
    <3> QED  BY <1>3, <1>5, <1>7, <2>2, <3>1
  <2> QED  BY <2>1, <2>2
<1> QED  BY <1>6, <1>7 DEF q, r

-----------------------------------------------------------------------------
(* What invalid messages leave behind, step by step. *)

LEMMA ArrivedStep ==
    ASSUME TypeOK, [Next]_vars, NEW a \in ActionId, Arrived(a)'
    PROVE  \/ Arrived(a)
           \/ messages # <<>> /\ Head(messages).valid /\ a \in Head(messages).actions
<1>1. ASSUME UNCHANGED agv PROVE Arrived(a)
  BY <1>1 DEF agv, Arrived, Absent
<1>2. CASE ReceiveActions
  <2>1. CASE Head(messages).valid
    BY <1>2, <2>1 DEF ReceiveActions, Arrived, Absent
  <2>2. CASE ~Head(messages).valid
    BY <1>2, <2>2 DEF ReceiveActions, Arrived, Absent
  <2> QED  BY <2>1, <2>2
<1>3. ASSUME NEW b \in ActionId, CheckAction(b) PROVE Arrived(a)
  BY <1>3 DEF CheckAction, Arrived, Absent
<1>4. ASSUME NEW b \in ActionId, NEW s \in {"RUNNING", "ENDED"}, ActionChanges(b, s) PROVE Arrived(a)
  BY <1>4 DEF ActionChanges, Arrived, Absent, TypeOK
<1>5. CASE Published
  <2>1. PICK over \in BOOLEAN :
            /\ over <=> (status[a] = "ENDED" \/ a \in refused) /\ count[a] + 1 >= PublishCount
            /\ status'[a] = IF over THEN "ABSENT" ELSE status[a]
            /\ a \in refused' <=> a \in refused /\ ~over
            /\ a \in removed' <=> a \in removed \/ over
            /\ checking = {} /\ checking' = {} /\ accepted' = accepted
    BY <1>5, PublishedActions
  <2> QED  BY <2>1 DEF Arrived, Absent
<1>6. CASE AcceptOrder
  BY <1>6 DEF AcceptOrder, Arrived, Absent
<1> QED
  BY <1>1, <1>2, <1>3, <1>4, <1>5, <1>6 DEF Next, InitiateInstantActions, PublishResolves,
     PublishRejects, DispatchState, LoseState, PublishAgain, ConnectionLost, Reconnected, vars

(* The state is published, or taken by the master control. *)
LEMMA StatesStep ==
    ASSUME [Next]_vars
    PROVE  \/ Publish
           \/ states' = states
           \/ states # <<>> /\ states' = Tail(states) /\ invalid' = invalid
<1>1. ASSUME NEW a \in ActionId, CheckAction(a) PROVE Publish \/ states' = states
  BY <1>1 DEF CheckAction
<1>2. CASE ReceiveActions
  BY <1>2 DEF ReceiveActions
<1>3. ASSUME NEW a \in ActionId, NEW s \in {"RUNNING", "ENDED"}, ActionChanges(a, s) PROVE Publish
  BY <1>3 DEF ActionChanges
<1>4. ASSUME NEW p \in awaited, PublishResolves(p) \/ PublishRejects(p) PROVE states' = states
  BY <1>4 DEF PublishResolves, PublishRejects
<1>5. CASE DispatchState \/ LoseState
  BY <1>5 DEF DispatchState, LoseState, agv
<1> QED
  BY <1>1, <1>2, <1>3, <1>4, <1>5 DEF Next, InitiateInstantActions, AcceptOrder, Published, PublishAgain,
     ConnectionLost, Reconnected, vars

LEMMA InvalidStep ==
    ASSUME TypeOK, TypeOK', SentOnce, [Next]_vars
    PROVE  /\ initiated \subseteq initiated'
           /\ \A i \in DOMAIN invalid' :
                 \/ \E j \in DOMAIN invalid : invalid'[i] = invalid[j]
                 \/ \E m \in initiated : invalid'[i] = m.id
<1>1. initiated \subseteq initiated'
  BY DEF Next, InitiateInstantActions, PublishResolves, PublishRejects, DispatchState, LoseState,
     ReceiveActions, CheckAction, ActionChanges, AcceptOrder, Published, PublishAgain,
     ConnectionLost, Reconnected, master, vars
<1> SUFFICES \A i \in DOMAIN invalid' : \/ \E j \in DOMAIN invalid : invalid'[i] = invalid[j]
                                        \/ \E m \in initiated : invalid'[i] = m.id
  BY <1>1
<1>2. ASSUME invalid' = invalid
      PROVE  \A i \in DOMAIN invalid' : \E j \in DOMAIN invalid : invalid'[i] = invalid[j]
  BY <1>2
<1>3. CASE Published
  BY <1>3, RemoveKeeps DEF Published
<1>4. CASE ReceiveActions
  <2>1. CASE Head(messages).valid
    BY <1>2, <1>4, <2>1 DEF ReceiveActions
  <2>2. CASE ~Head(messages).valid
    <3>1. PICK m \in Messages : m = Head(messages)
      BY <1>4, HeadTailProperties DEF ReceiveActions, TypeOK
    <3>2. messages # <<>> /\ invalid' = Append(invalid, m.id) /\ ~m.valid
      BY <1>4, <2>2, <3>1 DEF ReceiveActions
    <3>3. m \in initiated
      <4>1. 1 \in DOMAIN messages /\ m = messages[1]
        BY <3>1, <3>2, EmptySeq, LenProperties DEF TypeOK
      <4> QED  BY <4>1 DEF SentOnce
    <3>4. m.id \in Invalid
      BY <3>2 DEF Invalid
    <3>5. /\ Len(invalid) \in Nat /\ DOMAIN invalid = 1..Len(invalid)
          /\ DOMAIN invalid' = 1..(Len(invalid) + 1) /\ invalid'[Len(invalid) + 1] = m.id
          /\ \A i \in 1..Len(invalid) : invalid'[i] = invalid[i]
      BY <3>2, <3>4, AppendProperties, LenProperties DEF TypeOK
    <3>6. \A i \in 1..(Len(invalid) + 1) : i \in 1..Len(invalid) \/ i = Len(invalid) + 1
      BY <3>5
    <3> QED  BY <3>3, <3>5, <3>6
  <2> QED  BY <2>1, <2>2
<1>5. CASE ~Published /\ ~ReceiveActions
  <2>1. invalid' = invalid
    BY <1>5 DEF Next, InitiateInstantActions, PublishResolves, PublishRejects, DispatchState,
       LoseState, CheckAction, ActionChanges, AcceptOrder, PublishAgain, ConnectionLost,
       Reconnected, agv, vars
  <2> QED  BY <1>2, <2>1
<1> QED  BY <1>3, <1>4, <1>5

LEMMA SilentStep ==
    ASSUME TypeOK, TypeOK', Once', InvalidSilent, [Next]_vars
    PROVE  InvalidSilent'
<1> SUFFICES ASSUME NEW m \in Messages, ~m.valid, NEW a \in m.actions
             PROVE  ~Arrived(a)' /\ \A l \in DOMAIN states' : Says(states'[l], a) = "NOTHING"
  BY DEF InvalidSilent
<1>0. a \in ActionId
  BY MessageFields
<1>1. ~Arrived(a) /\ \A l \in DOMAIN states : Says(states[l], a) = "NOTHING"
  BY DEF InvalidSilent
<1>2. ~Arrived(a)'
  <2> SUFFICES ASSUME Arrived(a)' PROVE FALSE
    OBVIOUS
  <2>1. messages # <<>> /\ Head(messages).valid /\ a \in Head(messages).actions
    BY <1>0, <1>1, ArrivedStep
  <2>2. Head(messages) \in Messages
    BY <2>1, HeadTailProperties DEF TypeOK
  <2>3. Head(messages) # m
    BY <2>1
  <2> QED  BY <2>1, <2>2, <2>3, ReportsAssumption
<1>3. status'[a] = "ABSENT" /\ a \notin refused' \cup failed'
  BY <1>0, <1>2 DEF Arrived, Absent, Once
<1>4. Len(states) \in Nat /\ DOMAIN states = 1..Len(states) /\ DOMAIN states' = 1..Len(states')
  BY LenProperties DEF TypeOK
<1>5. CASE states' = states
  BY <1>1, <1>2, <1>5
<1>6. CASE Publish /\ states' # states
  <2> DEFINE s == [status |-> status', refused |-> refused', invalid |-> invalid', failed |-> failed']
  <2>1. states' = Append(states, s)
    BY <1>6 DEF Publish
  <2>2. s \in State
    BY DEF State, TypeOK
  <2>3. Says(s, a) = "NOTHING"
    BY <1>3 DEF Says
  <2> HIDE DEF s
  <2>4. /\ Len(states') = Len(states) + 1 /\ states'[Len(states) + 1] = s
        /\ \A i \in 1..Len(states) : states'[i] = states[i]
    BY <2>1, <2>2, AppendProperties DEF TypeOK
  <2>5. \A i \in 1..(Len(states) + 1) : i \in 1..Len(states) \/ i = Len(states) + 1
    BY <1>4
  <2> QED  BY <1>1, <1>2, <1>4, <2>3, <2>4, <2>5
<1>7. CASE states # <<>> /\ states' = Tail(states)
  <2>1. /\ Len(states') = Len(states) - 1
        /\ \A l \in 1..(Len(states) - 1) : states'[l] = states[l + 1]
    BY <1>7, HeadTailProperties DEF TypeOK
  <2>2. \A l \in 1..(Len(states) - 1) : l + 1 \in 1..Len(states)
    BY <1>4
  <2> QED  BY <1>1, <1>2, <1>4, <2>1, <2>2
<1> QED  BY <1>5, <1>6, <1>7, StatesStep

LEMMA SentErrorsStep ==
    ASSUME TypeOK, TypeOK', SentOnce, SentErrors, [Next]_vars
    PROVE  SentErrors'
<1> SUFFICES ASSUME NEW l \in 1..Latest', NEW i \in DOMAIN Lists'[l]
             PROVE  \E m \in initiated : Lists'[l][i] = m.id
  BY InvalidStep DEF SentErrors
<1>0. Latest \in Nat \ {0} /\ Lists[Latest] = invalid /\ Latest' \in Nat /\ Latest \in 1..Latest
  BY ListsTyped, ListsTypedNext
<1>1. CASE Publish \/ states' = states
  <2>1. Extended(Lists', Latest', Lists, Latest, invalid')
    BY <1>1, ListsExtended
  <2>2. CASE l \in 1..(Latest - 1)
    <3>1. l \in 1..Latest /\ Lists'[l] = Lists[l]
      BY <1>0, <2>1, <2>2 DEF Extended
    <3> QED  BY <3>1 DEF SentErrors
  <2>3. CASE l \in Latest..Latest'
    <3>1. Lists'[l] = invalid'
      BY <2>1, <2>3 DEF Extended
    <3>2. (\E j \in DOMAIN invalid : invalid'[i] = invalid[j]) \/ \E m \in initiated : invalid'[i] = m.id
      BY <3>1, InvalidStep
    <3> QED  BY <1>0, <3>1, <3>2 DEF SentErrors
  <2> QED  BY <1>0, <2>2, <2>3
<1>2. CASE states # <<>> /\ states' = Tail(states) /\ invalid' = invalid
  <2>1. Latest' = Latest - 1 /\ IsTail(Lists', Lists, Latest)
    BY <1>2, ListsTail
  <2>2. l + 1 \in 1..Latest /\ Lists'[l] = Lists[l + 1]
    BY <1>0, <2>1 DEF IsTail
  <2> QED  BY <2>2 DEF SentErrors
<1> QED  BY <1>1, <1>2, StatesStep

-----------------------------------------------------------------------------
(* A state arrives at the master control. *)

OldKnown == \A i \in DOMAIN known' : \E j \in DOMAIN known : known'[i] = known[j]

(* The error about message m has come.                                     *)
NewKnown(m) ==
    /\ Len(known') = Len(known) + 1
    /\ known'[Len(known) + 1] = [ref |-> ref, error |-> m.id]
    /\ \A i \in 1..Len(known) : known'[i] = known[i]

LEMMA RightDispatched ==
    ASSUME TypeOK, RightError, DispatchState,
           \A m \in Messages : \A a \in m.actions : a \in waiting =>
               ErrorsAbout(a, Head(states), KnownErrors(Head(states))) \subseteq {a, m.id}
    PROVE  RightError'
<1> SUFFICES ASSUME NEW m \in Messages, NEW a \in m.actions
             PROVE  \A i \in DOMAIN heard'[a] : heard'[a][i] \in Invalid => heard'[a][i] = m.id
  BY DEF RightError
<1> DEFINE E == ErrorsAbout(a, Head(states), KnownErrors(Head(states)))
<1>1. a \in ActionId
  BY MessageFields
<1>2. a \notin Invalid /\ "RUNNING" \notin Invalid /\ "ENDED" \notin Invalid
  BY <1>1, InvalidMessages, ReportsAssumption DEF About
<1>3. heard'[a] = heard[a]
      \/ (a \in waiting /\ \E x \in {"RUNNING", "ENDED"} \cup E : heard'[a] = heard[a] \o <<x>>)
  BY <1>1, DispatchErrors
<1>4. CASE heard'[a] = heard[a]
  BY <1>4 DEF RightError
<1>5. ASSUME a \in waiting, NEW x \in {"RUNNING", "ENDED"} \cup E, heard'[a] = heard[a] \o <<x>>
      PROVE  \A i \in DOMAIN heard'[a] : heard'[a][i] \in Invalid => heard'[a][i] = m.id
  <2>1. E \subseteq {a, m.id}
    BY <1>5
  <2>2. x \in Invalid => x = m.id
    BY <1>2, <1>5, <2>1
  <2> HIDE DEF E
  <2> QED  BY <1>5, <2>2, HeardOf
<1> QED  BY <1>3, <1>4, <1>5

LEMMA DispatchSettled ==
    ASSUME TypeOK, TypeOK', Settled, DispatchState
    PROVE  Settled' /\ OldKnown
<1> DEFINE s == Head(states)
           old == Len(known)
           new == Len(s.invalid)
<1>1. /\ states # <<>> /\ states' = Tail(states) /\ UNCHANGED <<messages, invalid>>
      /\ known' = KnownErrors(s)
  BY DEF DispatchState, network, agv
<1>2. /\ Latest \in Nat \ {0, 1} /\ Latest' = Latest - 1 /\ IsTail(Lists', Lists, Latest)
      /\ Lists[1] = s.invalid /\ s \in State
  BY <1>1, ListsTail
<1>3. Shrinking(Lists', Latest', old) /\ Shrinking(Lists', Latest', new)
  BY <1>2, ShrinkTail DEF Settled
<1>4. new <= old
  <2>1. 1 \in 1..Latest
    BY <1>2
  <2> QED  BY <1>2, <2>1 DEF Settled, Shrinking
<1>5. (ref = 0 => known' = known) /\ (ref # 0 => Len(known') = new /\ OldKnown)
  <2> HIDE DEF s
  <2> QED  BY <1>1, <1>2, <1>4, KnownChange DEF OldKnown
<1>6. Shrinking(Lists', Latest', Len(known'))
  BY <1>3, <1>5
<1> QED  BY <1>1, <1>5, <1>6 DEF Settled, OldKnown

LEMMA DispatchUnsettled ==
    ASSUME TypeOK, TypeOK', NEW m \in Messages, Unsettled(m), DispatchState
    PROVE  \/ OldKnown /\ (Settled' \/ (waiting' = waiting => Unsettled(m)'))
           \/ NewKnown(m) /\ Settled'
<1> DEFINE s == Head(states)
           old == Len(known)
           new == Len(s.invalid)
           c == m.id
<1>1. /\ states # <<>> /\ states' = Tail(states) /\ UNCHANGED <<messages, invalid, initiated>>
      /\ known' = KnownErrors(s)
  BY DEF DispatchState, network, agv
<1>2. /\ Latest \in Nat \ {0, 1} /\ Latest' = Latest - 1 /\ IsTail(Lists', Lists, Latest)
      /\ Lists[1] = s.invalid /\ s \in State
  BY <1>1, ListsTail
<1>3. /\ Growing(Lists', Latest', old, c) /\ Growing(Lists', Latest', Older(s.invalid, c), c)
      /\ EndsWith(s.invalid, c) => Shrinking(Lists', Latest', new)
  BY <1>2, GrowTail DEF Unsettled
<1>4. Older(s.invalid, c) <= old
  <2>1. 1 \in 1..Latest
    BY <1>2
  <2> QED  BY <1>2, <2>1 DEF Unsettled, Growing
<1>5. s.invalid \in Seq(Invalid) /\ old \in Nat /\ new \in Nat
  BY <1>2, LenProperties DEF State, TypeOK
<1>6. /\ ref = 0 => known' = known
      /\ ref # 0 /\ new <= old => Len(known') = new /\ OldKnown
      /\ ref # 0 /\ new = old + 1 =>
            /\ Len(known') = new /\ known'[new] = [ref |-> ref, error |-> s.invalid[new]]
            /\ \A i \in 1..old : known'[i] = known[i]
  <2> HIDE DEF s
  <2> QED  BY <1>1, <1>2, KnownChange DEF OldKnown
<1>7. ASSUME waiting' = waiting, Growing(Lists', Latest', Len(known'), c) PROVE Unsettled(m)'
  <2>1. \A l \in 1..Latest' : l + 1 \in 1..Latest /\ Lists'[l] = Lists[l + 1]
    BY <1>2 DEF IsTail
  <2> QED  BY <1>1, <1>7, <2>1 DEF Unsettled
<1>8. CASE ref = 0
  <2>1. known' = known
    BY <1>6, <1>8
  <2> QED  BY <1>3, <1>7, <2>1 DEF OldKnown
<1>9. CASE ref # 0 /\ ~EndsWith(s.invalid, c)
  <2>1. Older(s.invalid, c) = new
    BY <1>5, <1>9, OlderNat
  <2>2. Len(known') = new /\ OldKnown
    BY <1>4, <1>6, <1>9, <2>1
  <2> QED  BY <1>3, <1>7, <2>1, <2>2
<1>10. CASE ref # 0 /\ EndsWith(s.invalid, c)
  <2>1. Older(s.invalid, c) = new - 1 /\ Has(s.invalid, c)
    BY <1>5, <1>10, OlderNat
  <2>2. new <= old \/ new = old + 1
    <3>1. new - 1 <= old
      BY <1>4, <2>1
    <3> HIDE DEF new, old
    <3> QED  BY <1>5, <3>1
  <2>3. Len(known') = new
    BY <1>6, <1>10, <2>2
  <2>4. Settled'
    <3>1. 1 \in 1..Latest
      BY <1>2
    <3>2. \A i \in DOMAIN messages : messages[i].valid
      BY <1>2, <2>1, <3>1 DEF Unsettled
    <3> QED  BY <1>1, <1>3, <1>10, <2>3, <3>2 DEF Settled
  <2>5. CASE new <= old
    BY <1>6, <1>10, <2>4, <2>5
  <2>6. CASE new = old + 1
    <3>1. s.invalid[new] = c
      BY <1>10 DEF EndsWith
    <3>2. NewKnown(m)
      BY <1>6, <1>10, <2>6, <3>1 DEF NewKnown
    <3> QED  BY <2>4, <3>2
  <2> QED  BY <2>2, <2>5, <2>6
<1> QED  BY <1>8, <1>9, <1>10

LEMMA DispatchOld ==
    ASSUME TypeOK, TypeOK', OneAwaited, RightError, DispatchState, OldKnown
    PROVE  /\ OneAwaited' /\ RightError'
           /\ \A a \in waiting : Says(Head(states), a) = "NOTHING" => a \in waiting'
<1> DEFINE s == Head(states)
<1>1. known' = KnownErrors(s) /\ waiting' \subseteq waiting /\ UNCHANGED <<refOf, ref, awaited>>
  BY DEF DispatchState
<1>2. \A i \in DOMAIN known : known[i].ref \in Int
  BY KnownRefs
<1>3. OneAwaited'
  BY <1>1 DEF OneAwaited, OldKnown
<1>4. ASSUME NEW a \in waiting
      PROVE  /\ ErrorsAbout(a, s, known') \subseteq {a}
             /\ Says(s, a) = "NOTHING" => ErrorsAbout(a, s, known') = {}
  <2>1. refOf[a] \in Nat
    BY DEF TypeOK
  <2>2. \A i \in DOMAIN known' : known'[i].ref # refOf[a]
    BY <1>2, <2>1 DEF OneAwaited, OldKnown
  <2> HIDE DEF s
  <2> QED  BY <2>2, NoErrorsOf
<1>5. RightError'
  BY <1>1, <1>4, RightDispatched
<1>6. ASSUME NEW a \in waiting, Says(s, a) = "NOTHING" PROVE a \in waiting'
  <2>1. a \in ActionId /\ ErrorsAbout(a, s, KnownErrors(s)) = {}
    BY <1>1, <1>4, <1>6 DEF TypeOK
  <2>2. s.status[a] = "ABSENT"
    <3>1. s \in State
      BY HeadTailProperties DEF DispatchState, TypeOK
    <3>2. s.status[a] \in Status
      BY <2>1, <3>1 DEF State
    <3> QED  BY <1>6, <3>2 DEF Says, Status
  <2> QED  BY <2>1, <2>2, DispatchErrors
<1> QED  BY <1>3, <1>5, <1>6

LEMMA DispatchNew ==
    ASSUME TypeOK, TypeOK', OneAwaited, RightError, DispatchState, NEW m \in Messages,
           waiting = m.actions, NewKnown(m),
           \A a \in waiting : Says(Head(states), a) = "NOTHING"
    PROVE  OneAwaited' /\ RightError'
<1> DEFINE s == Head(states)
           n == Len(known)
<1>1. known' = KnownErrors(s) /\ waiting' \subseteq waiting /\ UNCHANGED <<refOf, ref, awaited>>
  BY DEF DispatchState
<1>2. /\ n \in Nat /\ DOMAIN known = 1..n /\ DOMAIN known' = 1..(n + 1)
      /\ \A i \in 1..(n + 1) : i \in 1..n \/ i = n + 1
  BY LenProperties DEF TypeOK, NewKnown
<1>3. \A i \in 1..n : known[i].ref \in Int
  BY <1>2, KnownRefs
<1>4. /\ known'[n + 1].ref = ref /\ known'[n + 1].error = m.id
      /\ \A i \in 1..n : known'[i] = known[i]
  BY DEF NewKnown
<1>5. ref \in Nat /\ \A a \in waiting : a \in ActionId /\ refOf[a] \in Nat
  BY DEF TypeOK
<1>6. \A i \in 1..n : known[i].ref <= ref /\ \A a \in waiting : known[i].ref < refOf[a]
  BY <1>2 DEF OneAwaited
<1>7. \A a \in waiting : refOf[a] = IF awaited = {} THEN ref ELSE ref + 1
  BY DEF OneAwaited
<1> HIDE DEF n
<1>8. ASSUME NEW a \in waiting PROVE ErrorsAbout(a, s, known') \subseteq {a, m.id}
  <2>1. \A i \in DOMAIN known' : known'[i].ref = refOf[a] => known'[i].error = m.id
    BY <1>2, <1>3, <1>4, <1>5, <1>6
  <2> HIDE DEF s
  <2> QED  BY <2>1, ErrorsOf
<1>9. RightError'
  <2>1. \A k \in Messages : \A a \in k.actions : a \in waiting => k = m
    BY ReportsAssumption
  <2> QED  BY <1>1, <1>8, <2>1, RightDispatched
<1>10. \A i \in DOMAIN known' : known'[i].ref <= ref
  BY <1>2, <1>4, <1>5, <1>6
<1>11. CASE awaited # {}
  <2>1. \A i \in DOMAIN known' : \A a \in waiting : known'[i].ref < refOf[a]
    BY <1>2, <1>4, <1>5, <1>6, <1>7, <1>11
  <2> QED  BY <1>1, <1>9, <1>10, <2>1 DEF OneAwaited
<1>12. CASE awaited = {}
  <2>1. ASSUME NEW a \in waiting PROVE a \notin waiting'
    <3> DEFINE I == {i \in DOMAIN known' : known'[i].ref = refOf[a]}
    <3>1. s.status[a] = "ABSENT" /\ a \notin s.refused \cup s.failed
      <4>1. s.status[a] \in Status
        <5>1. s \in State
          BY HeadTailProperties DEF DispatchState, TypeOK
        <5> QED  BY <1>5, <5>1 DEF State
      <4> QED  BY <4>1 DEF Says, Status
    <3>2. n + 1 \in I
      BY <1>2, <1>4, <1>7, <1>12
    <3>3. \A k \in I : k = n + 1
      BY <1>2, <1>3, <1>4, <1>5, <1>6
    <3>4. n + 1 <= n + 1
      BY <1>2
    <3>5. n + 1 \in {j \in I : \A k \in I : j <= k}
      BY <3>2, <3>3, <3>4
    <3>6. ErrorsAbout(a, s, known') = {known'[i].error : i \in {j \in I : \A k \in I : j <= k}}
      BY <3>1 DEF ErrorsAbout
    <3>7. ErrorsAbout(a, s, known') # {}
      BY <3>5, <3>6
    <3> QED  BY <1>1, <1>5, <3>7, DispatchErrors
  <2>2. waiting' = {}
    BY <1>1, <2>1
  <2> QED  BY <1>1, <1>9, <1>10, <1>12, <2>2 DEF OneAwaited
<1> QED  BY <1>11, <1>12

LEMMA DispatchRight ==
    ASSUME TypeOK, TypeOK', OneAwaited, InvalidSilent, Phase, RightError, DispatchState
    PROVE  OneAwaited' /\ RightError' /\ Phase'
<1>1. CASE Settled
  BY <1>1, DispatchSettled, DispatchOld DEF Phase
<1>2. ASSUME NEW m \in Messages, Unsettled(m) PROVE OneAwaited' /\ RightError' /\ Phase'
  <2>1. waiting = m.actions /\ waiting' \subseteq waiting
    BY <1>2 DEF Unsettled, DispatchState
  <2>2. \A a \in waiting : Says(Head(states), a) = "NOTHING"
    <3>1. 1 \in DOMAIN states /\ Head(states) = states[1]
      BY EmptySeq, LenProperties, HeadTailProperties DEF DispatchState, TypeOK
    <3> QED  BY <1>2, <2>1, <3>1 DEF InvalidSilent, Unsettled
  <2>3. CASE OldKnown
    <3>1. OneAwaited' /\ RightError' /\ waiting' = waiting
      BY <2>1, <2>2, <2>3, DispatchOld
    <3>2. Settled' \/ Unsettled(m)' \/ (NewKnown(m) /\ Settled')
      BY <1>2, <3>1, DispatchUnsettled
    <3> QED  BY <3>1, <3>2 DEF Phase
  <2>4. CASE NewKnown(m) /\ Settled'
    BY <2>1, <2>2, <2>4, DispatchNew DEF Phase
  <2> QED  BY <1>2, <2>3, <2>4, DispatchUnsettled
<1> QED  BY <1>1, <1>2 DEF Phase

LEMMA PublishedKeeps ==
    ASSUME TypeOK, TypeOK', Phase, Published
    PROVE  Phase'
<1>1. /\ states' = states /\ UNCHANGED <<known, waiting, initiated, messages>>
      /\ \E over : RemoveErrors(over)
  BY DEF Published, master, network
<1> QED  BY <1>1, RemoveKeeps, PhaseExtended

LEMMA SameInvalid ==
    ASSUME TypeOK, TypeOK', Phase, Publish \/ states' = states, invalid' = invalid,
           UNCHANGED <<known, waiting, initiated, messages>>
    PROVE  Phase'
<1>1. Len(invalid) \in Nat /\ invalid \in Seq(Invalid)
  BY LenProperties DEF TypeOK
<1>2. \A c : Older(invalid', c) <= Older(invalid, c)
  <2>1. \A c : Older(invalid, c) \in Nat
    BY <1>1, OlderNat
  <2> QED  BY <2>1
<1>3. Len(invalid') <= Len(invalid)
  BY <1>1
<1> QED  BY <1>2, <1>3, PhaseExtended

(* What the master control awaits and knows is as it was. *)
LEMMA SameMaster ==
    ASSUME OneAwaited, RightError, UNCHANGED master
    PROVE  OneAwaited' /\ RightError'
BY DEF OneAwaited, RightError, master

LEMMA PhaseStep ==
    ASSUME Patient, \A m \in Messages : ~m.valid => m.actions # {}, TypeOK, TypeOK', SentOnce,
           ErrorsInv, [Next]_vars
    PROVE  OneAwaited' /\ RightError' /\ Phase'
<1> USE DEF ErrorsInv
<1>1. ASSUME NEW m \in Messages, InitiateInstantActions(m) PROVE OneAwaited' /\ RightError' /\ Phase'
  <2>1. Phase'
    BY <1>1, PhaseInitiated
  <2>2. /\ waiting = {} /\ awaited = {} /\ waiting' = m.actions
        /\ refOf' = [a \in ActionId |-> IF a \in m.actions THEN ref + 1 ELSE refOf[a]]
        /\ awaited' = {[msg |-> m, ref |-> ref + 1]} /\ UNCHANGED <<ref, known, heard>>
    BY <1>1 DEF InitiateInstantActions
  <2>3. \A i \in DOMAIN known : known[i].ref < ref + 1
    <3>1. ref \in Nat
      BY DEF TypeOK
    <3> QED  BY <3>1, KnownRefs DEF OneAwaited
  <2>4. OneAwaited'
    <3>1. \A p \in awaited' :
              awaited' = {p} /\ p.ref = ref' + 1 /\ waiting' \subseteq p.msg.actions
      BY <2>2
    <3>2. \A a \in waiting' : refOf'[a] = ref + 1
      BY <2>2, MessageFields
    <3>3. awaited' # {}
      BY <2>2
    <3>4. \A i \in DOMAIN known : known[i].ref <= ref
      BY DEF OneAwaited
    <3> QED  BY <2>2, <2>3, <3>1, <3>2, <3>3, <3>4 DEF OneAwaited
  <2>5. RightError'
    BY <2>2 DEF RightError
  <2> QED  BY <2>1, <2>4, <2>5
<1>2. ASSUME NEW p \in awaited, PublishResolves(p) PROVE OneAwaited' /\ RightError' /\ Phase'
  <2>1. /\ awaited' = awaited \ {p} /\ ref' = p.ref
        /\ UNCHANGED <<waiting, refOf, known, heard, initiated, messages, states, invalid>>
    BY <1>2 DEF PublishResolves, network, agv
  <2>2. awaited = {p} /\ ref' = ref + 1 /\ awaited' = {}
    BY <2>1 DEF OneAwaited
  <2>3. \A i \in DOMAIN known : known[i].ref <= ref + 1
    <3>1. ref \in Nat
      BY DEF TypeOK
    <3> QED  BY <3>1, KnownRefs DEF OneAwaited
  <2>4. OneAwaited'
    BY <2>1, <2>2, <2>3 DEF OneAwaited
  <2>5. RightError'
    BY <2>1 DEF RightError
  <2>6. Phase'
    BY <2>1, PhaseSame
  <2> QED  BY <2>4, <2>5, <2>6
<1>3. ASSUME NEW p \in awaited, PublishRejects(p) PROVE OneAwaited' /\ RightError' /\ Phase'
  <2>1. /\ awaited' = awaited \ {p} /\ waiting' = waiting \ p.msg.actions
        /\ UNCHANGED <<refOf, ref, known, heard>>
    BY <1>3 DEF PublishRejects
  <2>2. awaited' = {} /\ waiting' = {}
    BY <2>1 DEF OneAwaited
  <2>3. OneAwaited' /\ RightError'
    BY <2>1, <2>2 DEF OneAwaited, RightError
  <2> QED  BY <1>3, <2>3, PhaseRejected
<1>4. CASE DispatchState
  BY <1>4, DispatchRight
<1>5. CASE LoseState
  BY <1>5, SameMaster, PhaseLost DEF LoseState, master, agv
<1>6. CASE ReceiveActions
  <2>1. UNCHANGED master
    BY <1>6 DEF ReceiveActions
  <2>2. CASE Head(messages).valid
    <3>1. messages # <<>> /\ messages' = Tail(messages) /\ UNCHANGED <<states, invalid>>
      BY <1>6, <2>2 DEF ReceiveActions
    <3>2. Len(messages) \in Nat /\ DOMAIN messages = 1..Len(messages)
          /\ DOMAIN messages' = 1..(Len(messages) - 1)
          /\ \A i \in 1..(Len(messages) - 1) : messages'[i] = messages[i + 1]
      BY <3>1, HeadTailProperties, LenProperties DEF TypeOK
    <3>3. \A i \in 1..(Len(messages) - 1) : i + 1 \in 1..Len(messages)
      BY <3>2
    <3>4. \A i \in DOMAIN messages' : \E j \in DOMAIN messages : messages'[i] = messages[j]
      BY <3>2, <3>3
    <3> QED  BY <2>1, <3>1, <3>4, PhaseSame, SameMaster DEF master
  <2>3. CASE ~Head(messages).valid
    BY <1>6, <2>1, <2>3, PhaseReceived, SameMaster
  <2> QED  BY <2>2, <2>3
<1>7. ASSUME NEW a \in ActionId, CheckAction(a) PROVE OneAwaited' /\ RightError' /\ Phase'
  BY <1>7, SameMaster, SameInvalid DEF CheckAction, master, network
<1>8. ASSUME NEW a \in ActionId, NEW s \in {"RUNNING", "ENDED"}, ActionChanges(a, s)
      PROVE  OneAwaited' /\ RightError' /\ Phase'
  BY <1>8, SameMaster, SameInvalid DEF ActionChanges, master, network
<1>9. CASE Published
  BY <1>9, SameMaster, PublishedKeeps DEF Published
<1>11. CASE AcceptOrder
  BY <1>11, SameMaster, SameInvalid DEF AcceptOrder, master, network
<1>10. CASE PublishAgain \/ ConnectionLost \/ Reconnected \/ UNCHANGED vars
  BY <1>10, SameMaster, SameInvalid DEF PublishAgain, ConnectionLost, Reconnected, master, network,
     agv, vars
<1> QED
  BY <1>1, <1>2, <1>3, <1>4, <1>5, <1>6, <1>7, <1>8, <1>9, <1>10, <1>11 DEF Next

(* A validation error is reported for the actions of the message it is     *)
(* about (_updateInstantActionsValidationError), however many states are   *)
(* lost or errors removed, if the application waits for what becomes of a  *)
(* message before it initiates the next one.  (An invalid message without  *)
(* actions would not be waited for.)                                       *)
THEOREM ErrorsRight ==
    ASSUME Patient, \A m \in Messages : ~m.valid => m.actions # {}
    PROVE  Spec => []RightError
<1> DEFINE Inv == TypeOK /\ Once /\ SentOnce /\ ErrorsInv
<1>1. Init => Inv
  <2> SUFFICES ASSUME Init PROVE ErrorsInv
    BY RInit DEF RInv
  <2>1. TypeOK
    BY RInit DEF RInv
  <2>2. OneAwaited
    BY DEF Init, OneAwaited
  <2>3. Latest = 1 /\ Lists[1] = <<>> /\ Len(Lists[1]) = 0 /\ Len(known) = 0 /\ DOMAIN states = {}
    <3>1. states = <<>> /\ known = <<>> /\ invalid = <<>>
      BY DEF Init
    <3>2. Len(states) = 0 /\ DOMAIN states = {} /\ Len(invalid) = 0 /\ Len(known) = 0
      BY <3>1
    <3>3. Latest = 1
      BY <3>2 DEF Latest
    <3> QED  BY <2>1, <3>1, <3>2, <3>3, ListsTyped
  <2>4. InvalidSilent
    <3>1. \A a \in ActionId : ~Arrived(a)
      BY DEF Init, Arrived, Absent
    <3> QED  BY <2>3, <3>1, MessageFields DEF InvalidSilent
  <2>5. \A l \in 1..1 : l = 1
    OBVIOUS
  <2>6. SentErrors
    BY <2>3, <2>5 DEF SentErrors
  <2>7. Settled
    <3>1. Shrinking(Lists, 1, 0)
      BY <2>3, <2>5 DEF Shrinking
    <3> QED  BY <2>3, <3>1 DEF Init, Settled
  <2>8. RightError
    BY MessageFields DEF Init, RightError
  <2> QED  BY <2>2, <2>4, <2>6, <2>7, <2>8 DEF ErrorsInv, Phase
<1>2. Inv /\ [Next]_vars => Inv'
  <2> SUFFICES ASSUME Inv, [Next]_vars PROVE Inv'
    OBVIOUS
  <2>1. TypeOK' /\ Once' /\ SentOnce'
    BY TypeStep, OnceStep, SentStep
  <2>2. InvalidSilent' /\ SentErrors'
    BY <2>1, SilentStep, SentErrorsStep DEF ErrorsInv
  <2>3. OneAwaited' /\ RightError' /\ Phase'
    BY <2>1, PhaseStep
  <2> QED  BY <2>1, <2>2, <2>3 DEF ErrorsInv
<1>3. Inv => RightError
  BY DEF ErrorsInv
<1> HIDE DEF Inv
<1> QED  BY <1>1, <1>2, <1>3, PTL DEF Spec
=============================================================================
