-------------------------- MODULE DashboardProofs --------------------------
(***************************************************************************)
(* Proofs about the event bus and the log ring for any number of browsers, *)
(* publishers and entries and any buffer and ring size.                    *)
(*                                                                         *)
(* The inductive invariant has three parts: who may still be sent to (Bus),*)
(* what the entry being published is greater than (Log) and which entry    *)
(* each slot of the ring holds (Ring).                                     *)
(***************************************************************************)
EXTENDS Dashboard, TLAPS

Publish == [phase : {"idle", "waiting", "busy"}, event : Nat, left : SUBSET Streams]

\* Values of the variables.
Types ==
  /\ stream \in [Streams -> {"out", "joining", "open", "leaving"}]
  /\ channel \in [Streams -> Seq(Nat)]
  /\ seen \in [Streams -> Nat]
  /\ publish \in [AllPublishers -> Publish]
  /\ entries \in [0..(Size - 1) -> Nat]
  /\ count \in Nat

\* Only who holds the read lock has subscribers to reach, and all are on the bus.
Bus == \A p \in AllPublishers : /\ publish[p].phase # "busy" => publish[p].left = {}
                                /\ publish[p].left \subseteq Subscribers

\* Nothing that a browser was sent or will be sent is as new as event e.
Below(s, e) == seen[s] < e /\ \A i \in 1..Len(channel[s]) : channel[s][i] < e

\* The log's entries are numbered up to count.  One that waits for the lock is newer than
\* what any stream has, one that is being offered than what those left have.
Log ==
  /\ \A p \in Publishers : publish[p].event = 0
  /\ publish[Logger].event <= count
  /\ publish[Logger].phase # "idle" => publish[Logger].event > 0
  /\ \A s \in Streams : Below(s, count + 1)
  /\ \A s \in Streams : publish[Logger].phase = "waiting" \/ s \in publish[Logger].left => Below(s, publish[Logger].event)
  /\ LogOrder

\* Each of the last Size entries is in its slot.
Ring == \A n \in 1..count : n + Size > count => entries[(n - 1) % Size] = n

-----------------------------------------------------------------------------
(* Publishers.                                                              *)

\* Who is let in keeps its event and has the subscribers S to reach.
LEMMA Admitted ==
  ASSUME Types, NEW P, NEW S \in SUBSET Streams, publish' = Admit(P, S)
  PROVE  /\ publish' \in [AllPublishers -> Publish]
         /\ \A p \in AllPublishers :
              /\ publish'[p].event = publish[p].event
              /\ \/ publish'[p] = publish[p]
                 \/ publish[p].phase = "waiting" /\ publish'[p].phase = "busy" /\ publish'[p].left = S
              /\ p \in P => publish'[p].phase # "waiting"
<1>1. ASSUME NEW p \in AllPublishers
      PROVE  /\ publish'[p] \in Publish /\ publish'[p].event = publish[p].event
             /\ \/ publish'[p] = publish[p]
                \/ publish[p].phase = "waiting" /\ publish'[p].phase = "busy" /\ publish'[p].left = S
             /\ p \in P => publish'[p].phase # "waiting"
  <2>1. publish[p] \in Publish
    BY DEF Types
  <2>2. publish'[p] = IF p \in P /\ publish[p].phase = "waiting"
                      THEN [publish[p] EXCEPT !.phase = "busy", !.left = S] ELSE publish[p]
    BY DEF Admit
  <2> QED  BY <2>1, <2>2 DEF Publish
<1>2. publish' = [p \in AllPublishers |-> publish'[p]]
  BY DEF Admit
<1> QED  BY <1>1, <1>2

\* A publisher's record is replaced.
LEMMA Replaced ==
  ASSUME Types, NEW p \in AllPublishers, NEW h \in Publish, publish' = [publish EXCEPT ![p] = h]
  PROVE  publish' \in [AllPublishers -> Publish] /\ publish'[p] = h
         /\ \A q \in AllPublishers \ {p} : publish'[q] = publish[q]
BY DEF Types

\* The variables keep their types.
LEMMA TypesStep ==
  ASSUME Types, [Next]_vars
  PROVE  Types'
<1>0. Size \in Nat \ {0} /\ Subscribers \subseteq Streams
  BY DashboardAssumption DEF Subscribers
<1>1. ASSUME NEW p \in AllPublishers, ReadLock(p) \/ EndPublish(p) PROVE Types'
  <2>1. publish' \in [AllPublishers -> Publish]
    <3>1. CASE ReadLock(p)
      BY <1>0, <3>1, Admitted DEF ReadLock
    <3>2. CASE EndPublish(p)
      <4>1. Idle \in Publish
        BY DEF Idle, Publish
      <4> QED  BY <3>2, <4>1, Replaced DEF EndPublish
    <3> QED  BY <1>1, <3>1, <3>2
  <2> QED  BY <1>1, <2>1 DEF ReadLock, EndPublish, Types
<1>2. ASSUME NEW p \in AllPublishers, Offer(p) PROVE Types'
  <2>1. PICK s \in publish[p].left :
          /\ channel' = IF Len(channel[s]) < Buffer
                        THEN [channel EXCEPT ![s] = Append(@, publish[p].event)] ELSE channel
          /\ publish' = [publish EXCEPT ![p].left = @ \ {s}]
    BY <1>2 DEF Offer
  <2>2. s \in Streams /\ publish[p].event \in Nat
    BY DEF Types, Publish
  <2>3. channel' \in [Streams -> Seq(Nat)]
    BY <2>1, <2>2 DEF Types
  <2>4. publish' \in [AllPublishers -> Publish]
    BY <2>1 DEF Types, Publish
  <2> QED  BY <1>2, <2>3, <2>4 DEF Offer, Types
<1>3. ASSUME NEW p \in AllPublishers, NEW e \in Nat, CallPublish(p, e) PROVE publish' \in [AllPublishers -> Publish]
  <2>1. [phase |-> "waiting", event |-> e, left |-> {}] \in Publish
    BY DEF Publish
  <2> QED  BY <1>3, <2>1, Replaced DEF CallPublish
<1>4. ASSUME NEW p \in Publishers, PublishEvent(p) PROVE Types'
  BY <1>3, <1>4 DEF PublishEvent, Types, AllPublishers
<1>5. CASE Write
  <2>0. Logger \in AllPublishers /\ count \in Nat /\ count + 1 \in Nat /\ CallPublish(Logger, count + 1)
    BY <1>5 DEF Write, Types, AllPublishers
  <2>1. publish' \in [AllPublishers -> Publish]
    BY <1>3, <2>0
  <2>2. entries' \in [0..(Size - 1) -> Nat] /\ count' \in Nat
    <3>1. PICK k, e : entries' = [entries EXCEPT ![k] = e] /\ e = count + 1
      BY <1>5 DEF Write
    <3>2. entries' \in [0..(Size - 1) -> Nat]
      BY <2>0, <3>1 DEF Types
    <3> QED  BY <1>5, <2>0, <3>2 DEF Write
  <2> QED  BY <1>5, <2>1, <2>2 DEF Write, Types
<1>6. ASSUME NEW s \in Streams, RequestLock(s) PROVE Types'
  BY <1>6 DEF RequestLock, Types
<1>7. ASSUME NEW s \in Streams, Subscribe(s) PROVE Types'
  <2>1. publish' \in [AllPublishers -> Publish]
    <3>1. Subscribers \cup {s} \in SUBSET Streams
      BY <1>0
    <3> QED  BY <1>7, <3>1, Admitted DEF Subscribe
  <2> QED  BY <1>7, <2>1 DEF Subscribe, Types
<1>8. ASSUME NEW s \in Streams, Unsubscribe(s) PROVE Types'
  <2>1. publish' \in [AllPublishers -> Publish]
    <3>1. Subscribers \ {s} \in SUBSET Streams
      BY <1>0
    <3> QED  BY <1>8, <3>1, Admitted DEF Unsubscribe
  <2>2. <<>> \in Seq(Nat)
    OBVIOUS
  <2>3. channel' \in [Streams -> Seq(Nat)] /\ seen' \in [Streams -> Nat]
    BY <1>8, <2>2 DEF Unsubscribe, Types
  <2> QED  BY <1>8, <2>1, <2>3 DEF Unsubscribe, Types
<1>9. ASSUME NEW s \in Streams, Receive(s) PROVE Types'
  <2>1. channel[s] \in Seq(Nat) /\ channel[s] # <<>>
    BY <1>9 DEF Receive, Types
  <2>2. Tail(channel[s]) \in Seq(Nat) /\ Head(channel[s]) \in Nat
    BY <2>1
  <2>3. channel' \in [Streams -> Seq(Nat)] /\ seen' \in [Streams -> Nat]
    BY <1>9, <2>2 DEF Receive, Types
  <2> QED  BY <1>9, <2>3 DEF Receive, Types
<1>10. CASE UNCHANGED vars
  BY <1>10 DEF vars, Types
<1> QED  BY <1>1, <1>2, <1>4, <1>5, <1>6, <1>7, <1>8, <1>9, <1>10 DEF Next

\* The subscribers a publisher has to reach stay on the bus: Unsubscribe waits until no
\* one is in the middle of Publish.
LEMMA BusStep ==
  ASSUME Types, Bus, [Next]_vars
  PROVE  Bus'
<1>0. Subscribers \subseteq Streams
  BY DEF Subscribers
<1>1. ASSUME NEW p \in AllPublishers, ReadLock(p) PROVE Bus'
  <2>1. publish' = Admit({p}, Subscribers) /\ UNCHANGED stream
    BY <1>1 DEF ReadLock
  <2>2. PICK P, S : P = {p} /\ S = Subscribers /\ S \in SUBSET Streams
    BY <1>0
  <2>3. \A q \in AllPublishers :
          publish'[q] = publish[q] \/ (publish'[q].phase = "busy" /\ publish'[q].left = S)
    <3>1. publish' = Admit(P, S)
      BY <2>1, <2>2
    <3>2. S \in SUBSET Streams
      BY <2>2
    <3> QED  BY <3>1, <3>2, Admitted
  <2>4. Subscribers' = Subscribers
    BY <2>1 DEF Subscribers
  <2> QED  BY <2>2, <2>3, <2>4 DEF Bus
<1>2. ASSUME NEW p \in AllPublishers, Offer(p) PROVE Bus'
  <2>1. PICK s \in publish[p].left : publish' = [publish EXCEPT ![p].left = @ \ {s}]
    BY <1>2 DEF Offer
  <2>2. Subscribers' = Subscribers
    BY <1>2 DEF Offer, Subscribers
  <2>3. /\ \A q \in AllPublishers : publish'[q].phase = publish[q].phase
        /\ \A q \in AllPublishers : publish'[q].left \subseteq publish[q].left
    BY <2>1 DEF Types, Publish
  <2> QED  BY <2>2, <2>3 DEF Bus
<1>3. ASSUME NEW p \in AllPublishers, NEW h \in Publish, h.left = {}, publish' = [publish EXCEPT ![p] = h],
             UNCHANGED stream
      PROVE  Bus'
  <2>1. publish'[p] = h /\ \A q \in AllPublishers \ {p} : publish'[q] = publish[q]
    BY <1>3, Replaced
  <2>2. Subscribers' = Subscribers
    BY <1>3 DEF Subscribers
  <2> QED  BY <1>3, <2>1, <2>2 DEF Bus
<1>4. ASSUME NEW p \in AllPublishers, EndPublish(p) PROVE Bus'
  <2>1. Idle \in Publish /\ Idle.left = {}
    BY DEF Idle, Publish
  <2> QED  BY <1>3, <1>4, <2>1 DEF EndPublish
<1>5. ASSUME NEW p \in AllPublishers, NEW e \in Nat, CallPublish(p, e), UNCHANGED stream PROVE Bus'
  <2> DEFINE h == [phase |-> "waiting", event |-> e, left |-> {}]
  <2>1. h \in Publish /\ h.left = {}
    BY DEF Publish
  <2>2. publish' = [publish EXCEPT ![p] = h]
    BY <1>5 DEF CallPublish
  <2> HIDE DEF h
  <2> QED  BY <1>3, <1>5, <2>1, <2>2
<1>6. ASSUME NEW p \in Publishers, PublishEvent(p) PROVE Bus'
  <2>1. p \in AllPublishers /\ CallPublish(p, 0) /\ UNCHANGED stream
    BY <1>6 DEF PublishEvent, AllPublishers
  <2> QED  BY <1>5, <2>1
<1>7. CASE Write
  <2>1. Logger \in AllPublishers /\ count + 1 \in Nat /\ CallPublish(Logger, count + 1) /\ UNCHANGED stream
    BY <1>7 DEF Write, Types, AllPublishers
  <2> QED  BY <1>5, <2>1
<1>8. ASSUME NEW s \in Streams, RequestLock(s) PROVE Bus'
  <2>1. Subscribers \subseteq Subscribers' /\ UNCHANGED publish
    BY <1>8 DEF RequestLock, Subscribers, Types
  <2> QED  BY <2>1 DEF Bus
<1>9. ASSUME NEW s \in Streams, Subscribe(s) \/ Unsubscribe(s) PROVE Bus'
  <2>1. \A p \in AllPublishers : publish[p].left = {}
    BY <1>9 DEF Subscribe, Unsubscribe, Readers, Bus
  <2>2. publish' = Admit(AllPublishers, Subscribers')
    <3>1. CASE Subscribe(s)
      <4>1. Subscribers' = Subscribers \cup {s}
        BY <3>1 DEF Subscribe, Subscribers, Types
      <4> QED  BY <3>1, <4>1 DEF Subscribe
    <3>2. CASE Unsubscribe(s)
      <4>1. Subscribers' = Subscribers \ {s}
        BY <3>2 DEF Unsubscribe, Subscribers, Types
      <4> QED  BY <3>2, <4>1 DEF Unsubscribe
    <3> QED  BY <1>9, <3>1, <3>2
  <2>3. PICK S \in SUBSET Streams : S = Subscribers'
    BY DEF Subscribers
  <2>4. \A q \in AllPublishers :
          publish'[q] = publish[q] \/ (publish'[q].phase = "busy" /\ publish'[q].left = S)
    BY <2>2, <2>3, Admitted
  <2> QED  BY <2>1, <2>3, <2>4 DEF Bus
<1>10. ASSUME NEW s \in Streams, Receive(s) PROVE Bus'
  BY <1>10 DEF Receive, Bus, Subscribers
<1>11. CASE UNCHANGED vars
  BY <1>11 DEF vars, Bus, Subscribers
<1> QED  BY <1>1, <1>2, <1>4, <1>6, <1>7, <1>8, <1>9, <1>10, <1>11 DEF Next

-----------------------------------------------------------------------------
(* The order of log entries.                                                *)

\* Within one stream: what the browser was sent is older than what its channel holds, and
\* the channel is in order.
Ordered(s) ==
  \A k \in 1..Len(channel[s]) : channel[s][k] > 0 =>
    seen[s] < channel[s][k] /\ \A i \in 1..(k - 1) : channel[s][i] < channel[s][k]

\* Adding an event that is newer than all others, or no log entry, keeps the order.
LEMMA Appended ==
  ASSUME Types, NEW s \in Streams, NEW e \in Nat, channel'[s] = Append(channel[s], e), seen'[s] = seen[s],
         Ordered(s), e > 0 => Below(s, e)
  PROVE  /\ Ordered(s)'
         /\ \A b \in Nat : e < b /\ Below(s, b) => Below(s, b)'
<1>1. PICK c \in Seq(Nat), n \in Nat : c = channel[s] /\ n = Len(c)
  BY DEF Types
<1>2. /\ channel'[s] = Append(c, e) /\ Len(channel'[s]) = n + 1 /\ channel'[s][n + 1] = e
      /\ \A i \in 1..n : channel'[s][i] = c[i] /\ c[i] \in Nat
  BY <1>1
<1>3. ASSUME NEW k \in 1..(n + 1), channel'[s][k] > 0
      PROVE  seen'[s] < channel'[s][k] /\ \A i \in 1..(k - 1) : channel'[s][i] < channel'[s][k]
  <2>1. CASE k = n + 1
    BY <1>1, <1>2, <1>3, <2>1 DEF Below
  <2>2. CASE k \in 1..n
    BY <1>1, <1>2, <1>3, <2>2, SMTT(60) DEF Ordered
  <2>3. k = n + 1 \/ k \in 1..n
    OBVIOUS
  <2> QED  BY <2>1, <2>2, <2>3, Zenon
<1>4. ASSUME NEW b \in Nat, e < b, Below(s, b) PROVE Below(s, b)'
  <2>1. \A i \in 1..(n + 1) : channel'[s][i] < b
    BY <1>1, <1>2, <1>4 DEF Below
  <2> QED  BY <1>2, <1>4, <2>1 DEF Below
<1> QED  BY <1>2, <1>3, <1>4 DEF Ordered

\* Sending the first event on keeps the order.
LEMMA Received ==
  ASSUME Types, NEW s \in Streams, channel[s] # <<>>, channel'[s] = Tail(channel[s]),
         seen'[s] = IF Head(channel[s]) > 0 THEN Head(channel[s]) ELSE seen[s], Ordered(s)
  PROVE  /\ Ordered(s)'
         /\ \A b \in Nat : Below(s, b) => Below(s, b)'
<1>1. PICK c \in Seq(Nat), n \in Nat : c = channel[s] /\ n = Len(c) /\ n > 0
  BY DEF Types
<1>2. /\ Len(channel'[s]) = n - 1 /\ seen'[s] = IF c[1] > 0 THEN c[1] ELSE seen[s]
      /\ \A i \in 1..(n - 1) : channel'[s][i] = c[i + 1]
      /\ \A i \in 1..n : c[i] \in Nat
      /\ seen[s] \in Nat
  BY <1>1 DEF Types
<1>3. ASSUME NEW k \in 1..(n - 1), channel'[s][k] > 0
      PROVE  seen'[s] < channel'[s][k] /\ \A i \in 1..(k - 1) : channel'[s][i] < channel'[s][k]
  <2>1. k + 1 \in 1..n /\ c[k + 1] > 0 /\ channel'[s][k] = c[k + 1]
    BY <1>2, <1>3, SMTT(60)
  <2>2. seen[s] < c[k + 1] /\ \A i \in 1..k : c[i] < c[k + 1]
    BY <1>1, <2>1 DEF Ordered
  <2>3. \A i \in 1..(k - 1) : channel'[s][i] < c[k + 1]
    BY <1>2, <2>2
  <2>4. seen'[s] < c[k + 1]
    BY <1>2, <2>2
  <2> QED  BY <2>1, <2>3, <2>4, Zenon
<1>4. ASSUME NEW b \in Nat, Below(s, b) PROVE Below(s, b)'
  <2>1. seen[s] < b /\ \A i \in 1..n : c[i] < b
    BY <1>1, <1>4 DEF Below
  <2>2. \A i \in 1..(n - 1) : channel'[s][i] < b
    BY <1>2, <2>1, SMTT(60)
  <2> QED  BY <1>1, <1>2, <2>1, <2>2 DEF Below
<1> QED  BY <1>2, <1>3, <1>4 DEF Ordered

\* The order of all streams is the order of each.
LEMMA OrderOfEach ==
  ASSUME Types
  PROVE  LogOrder <=> \A s \in Streams : Ordered(s)
<1>1. \A s \in Streams : DOMAIN channel[s] = 1..Len(channel[s])
  BY DEF Types
<1> QED  BY <1>1 DEF LogOrder, Ordered

\* The logger is done, as it was, or no longer has a stream to reach.
LoggerGoesOn ==
  \/ publish'[Logger] = Idle
  \/ /\ publish'[Logger].event = publish[Logger].event
     /\ publish'[Logger].phase # "idle" => publish[Logger].phase # "idle"
     /\ \A s \in Streams : publish'[Logger].phase = "waiting" \/ s \in publish'[Logger].left
                           => publish[Logger].phase = "waiting" \/ s \in publish[Logger].left

\* Steps that write no entry, and leave what each stream has in order and no newer.
LEMMA LogKept ==
  ASSUME Types, Types', Bus, Log, UNCHANGED count, LoggerGoesOn,
         \A p \in Publishers : publish'[p].event = 0,
         \A s \in Streams : Ordered(s)' /\ \A b \in Nat \ {0} : Below(s, b) => Below(s, b)'
  PROVE  Log'
<1>1. LogOrder'
  <2>1. \A s \in Streams : DOMAIN channel'[s] = 1..Len(channel'[s])
    BY DEF Types
  <2> QED  BY <2>1 DEF LogOrder, Ordered
<1>2. \A s \in Streams : Below(s, count + 1)'
  <2>1. PICK b \in Nat \ {0} : b = count + 1
    BY DEF Types
  <2>2. \A s \in Streams : Below(s, b)'
    BY <2>1 DEF Log
  <2>3. b = count' + 1
    BY <2>1
  <2> QED  BY <2>2, <2>3 DEF Below
<1>3. Logger \in AllPublishers /\ publish[Logger] \in Publish
  BY DEF AllPublishers, Types
<1>4. CASE publish'[Logger] = Idle
  BY <1>1, <1>2, <1>4 DEF Log, Idle, Types
<1>5. CASE ~(publish'[Logger] = Idle)
  <2>1. PICK b \in Nat : b = publish[Logger].event /\ b = publish'[Logger].event
    BY <1>3, <1>5 DEF LoggerGoesOn, Publish
  <2>2. ASSUME NEW s \in Streams, publish'[Logger].phase = "waiting" \/ s \in publish'[Logger].left
        PROVE  Below(s, publish[Logger].event)'
    <3>1. publish[Logger].phase = "waiting" \/ s \in publish[Logger].left
      BY <1>5, <2>2 DEF LoggerGoesOn
    <3>2. publish[Logger].phase # "idle"
      BY <1>3, <3>1 DEF Bus
    <3>3. b > 0 /\ Below(s, b)
      BY <2>1, <3>1, <3>2 DEF Log
    <3>4. Below(s, b)'
      BY <3>3
    <3> QED  BY <2>1, <3>4 DEF Below
  <2>3. publish'[Logger].phase # "idle" => publish'[Logger].event > 0
    BY <1>5 DEF LoggerGoesOn, Log
  <2>4. publish'[Logger].event <= count'
    BY <1>5 DEF LoggerGoesOn, Log
  <2> QED  BY <1>1, <1>2, <2>2, <2>3, <2>4 DEF Log
<1> QED  BY <1>4, <1>5

\* A stream that is left alone.
LEMMA StreamKept ==
  ASSUME NEW s, channel'[s] = channel[s], seen'[s] = seen[s], Ordered(s)
  PROVE  Ordered(s)' /\ \A b \in Nat \ {0} : Below(s, b) => Below(s, b)'
BY DEF Ordered, Below

\* A step of the lock: nothing is sent.
LEMMA LockSteps ==
  ASSUME Types, Types', Bus, Log,
         \/ \E p \in AllPublishers : ReadLock(p) \/ EndPublish(p)
         \/ \E p \in Publishers : PublishEvent(p)
         \/ \E s \in Streams : RequestLock(s) \/ Subscribe(s)
         \/ UNCHANGED vars
  PROVE  Log'
<1>1. UNCHANGED <<channel, seen, count>>
  BY DEF ReadLock, EndPublish, PublishEvent, RequestLock, Subscribe, vars
<1>2. \A s \in Streams : Ordered(s)
  BY OrderOfEach DEF Log
<1>3. \A s \in Streams : Ordered(s)' /\ \A b \in Nat \ {0} : Below(s, b) => Below(s, b)'
  BY <1>1, <1>2, StreamKept
<1>4. Logger \in AllPublishers /\ Logger \notin Publishers /\ Publishers \subseteq AllPublishers
  BY DashboardAssumption DEF AllPublishers
<1>5. /\ LoggerGoesOn
      /\ \A p \in Publishers : publish'[p].event = 0
  <2>1. ASSUME NEW P, NEW S \in SUBSET Streams, publish' = Admit(P, S)
        PROVE  LoggerGoesOn /\ \A p \in Publishers : publish'[p].event = 0
    <3>1. \A p \in AllPublishers :
            /\ publish'[p].event = publish[p].event
            /\ \/ publish'[p] = publish[p]
               \/ publish[p].phase = "waiting" /\ publish'[p].phase = "busy" /\ publish'[p].left = S
      BY <2>1, Admitted
    <3> QED  BY <1>4, <3>1 DEF LoggerGoesOn, Log
  <2>2. ASSUME NEW p \in AllPublishers, ReadLock(p)
        PROVE  LoggerGoesOn /\ \A q \in Publishers : publish'[q].event = 0
    <3>1. PICK P, S : P = {p} /\ S = Subscribers
      OBVIOUS
    <3>2. S \in SUBSET Streams
      BY <3>1 DEF Subscribers
    <3>3. publish' = Admit(P, S)
      BY <2>2, <3>1 DEF ReadLock
    <3> QED  BY <2>1, <3>2, <3>3
  <2>3. ASSUME NEW s \in Streams, Subscribe(s)
        PROVE  LoggerGoesOn /\ \A q \in Publishers : publish'[q].event = 0
    <3>1. PICK S : S = Subscribers \cup {s}
      OBVIOUS
    <3>2. S \in SUBSET Streams
      BY <3>1 DEF Subscribers
    <3>3. publish' = Admit(AllPublishers, S)
      BY <2>3, <3>1 DEF Subscribe
    <3> QED  BY <2>1, <3>2, <3>3
  <2>4. ASSUME NEW p \in AllPublishers, EndPublish(p)
        PROVE  LoggerGoesOn /\ \A q \in Publishers : publish'[q].event = 0
    <3>1. Idle \in Publish /\ Idle.event = 0
      BY DEF Idle, Publish
    <3>2. publish'[p] = Idle /\ \A q \in AllPublishers \ {p} : publish'[q] = publish[q]
      BY <2>4, <3>1, Replaced DEF EndPublish
    <3> QED  BY <1>4, <3>1, <3>2 DEF LoggerGoesOn, Log
  <2>5. ASSUME NEW p \in Publishers, PublishEvent(p)
        PROVE  LoggerGoesOn /\ \A q \in Publishers : publish'[q].event = 0
    <3> DEFINE h == [phase |-> "waiting", event |-> 0, left |-> {}]
    <3>1. h \in Publish /\ h.event = 0
      BY DEF Publish
    <3>2. publish' = [publish EXCEPT ![p] = h]
      BY <2>5 DEF PublishEvent, CallPublish
    <3> HIDE DEF h
    <3>3. publish'[p] = h /\ \A q \in AllPublishers \ {p} : publish'[q] = publish[q]
      BY <1>4, <3>1, <3>2, Replaced
    <3> QED  BY <1>4, <3>1, <3>3 DEF LoggerGoesOn, Log
  <2>6. CASE UNCHANGED publish
    BY <2>6 DEF LoggerGoesOn, Log
  <2> QED  BY <2>2, <2>3, <2>4, <2>5, <2>6 DEF RequestLock, vars
<1> QED  BY <1>1, <1>3, <1>5, LogKept

\* What is offered to a stream is newer than all it has, or no log entry.
LEMMA OfferStep ==
  ASSUME Types, Types', Bus, Log, NEW p \in AllPublishers, Offer(p)
  PROVE  Log'
<1>1. PICK s, e : /\ s \in publish[p].left /\ e = publish[p].event
                  /\ channel' = IF Len(channel[s]) < Buffer THEN [channel EXCEPT ![s] = Append(@, e)] ELSE channel
                  /\ publish' = [publish EXCEPT ![p].left = @ \ {s}]
  BY DEF Offer
<1>2. UNCHANGED <<seen, count>> /\ publish[p].phase = "busy"
  BY DEF Offer
<1>3. s \in Streams /\ e \in Nat /\ publish[p] \in Publish
  BY <1>1 DEF Types, Publish
<1>4. Logger \in AllPublishers /\ Logger \notin Publishers /\ AllPublishers = Publishers \cup {Logger}
  BY DashboardAssumption DEF AllPublishers
<1>5. /\ publish'[p].phase = publish[p].phase /\ publish'[p].event = e /\ publish'[p].left = publish[p].left \ {s}
      /\ \A q \in AllPublishers \ {p} : publish'[q] = publish[q]
  BY <1>1, <1>3 DEF Types, Publish
<1>6. \A t \in Streams : Ordered(t)
  BY OrderOfEach DEF Log
<1>7. e > 0 => p = Logger /\ Below(s, e)
  BY <1>1, <1>3, <1>4 DEF Log
<1>8. \A t \in Streams \ {s} : Ordered(t)' /\ \A b \in Nat \ {0} : Below(t, b) => Below(t, b)'
  <2>1. \A t \in Streams \ {s} : channel'[t] = channel[t] /\ seen'[t] = seen[t]
    BY <1>1, <1>2 DEF Types
  <2> QED  BY <1>6, <2>1, StreamKept
<1>9. Ordered(s)' /\ \A b \in Nat \ {0} : e < b /\ Below(s, b) => Below(s, b)'
  <2>1. CASE Len(channel[s]) < Buffer
    <3>1. channel'[s] = Append(channel[s], e) /\ seen'[s] = seen[s]
      BY <1>1, <1>2, <1>3, <2>1 DEF Types
    <3> QED  BY <1>3, <1>6, <1>7, <3>1, Appended
  <2>2. CASE ~(Len(channel[s]) < Buffer)
    <3>1. channel'[s] = channel[s] /\ seen'[s] = seen[s]
      BY <1>1, <1>2, <2>2
    <3> QED  BY <1>3, <1>6, <3>1, StreamKept
  <2> QED  BY <2>1, <2>2
<1>10. CASE p # Logger
  <2>1. e = 0 /\ LoggerGoesOn /\ \A q \in Publishers : publish'[q].event = 0
    BY <1>1, <1>4, <1>5, <1>10 DEF LoggerGoesOn, Log
  <2>2. \A t \in Streams : Ordered(t)' /\ \A b \in Nat \ {0} : Below(t, b) => Below(t, b)'
    BY <1>8, <1>9, <2>1
  <2> QED  BY <1>2, <2>1, <2>2, LogKept
<1>11. CASE p = Logger
  <2>1. \A q \in Publishers : publish'[q].event = 0
    BY <1>4, <1>5, <1>11 DEF Log
  <2>2. e <= count /\ e > 0 /\ count \in Nat
    BY <1>1, <1>2, <1>11 DEF Log, Types
  <2>3. \A t \in Streams : Below(t, count + 1)'
    <3>1. PICK b \in Nat \ {0} : b = count + 1 /\ e < b
      BY <1>3, <2>2
    <3>2. \A t \in Streams : Below(t, b)
      BY <3>1 DEF Log
    <3>3. \A t \in Streams : Below(t, b)'
      BY <1>8, <1>9, <3>1, <3>2
    <3>4. b = count' + 1
      BY <1>2, <3>1
    <3> QED  BY <3>3, <3>4 DEF Below
  <2>4. ASSUME NEW t \in Streams, publish'[Logger].phase = "waiting" \/ t \in publish'[Logger].left
        PROVE  Below(t, publish[Logger].event)'
    <3>1. t # s /\ t \in publish[Logger].left
      BY <1>2, <1>5, <1>11, <2>4
    <3>2. Below(t, e)
      BY <1>1, <1>11, <3>1 DEF Log
    <3>3. Below(t, e)'
      BY <1>3, <1>8, <2>2, <3>1, <3>2
    <3> QED  BY <1>5, <1>11, <3>3 DEF Below
  <2>5. LogOrder'
    <3>1. \A t \in Streams : DOMAIN channel'[t] = 1..Len(channel'[t])
      BY DEF Types
    <3>2. \A t \in Streams : Ordered(t)'
      BY <1>8, <1>9
    <3> QED  BY <3>1, <3>2 DEF LogOrder, Ordered
  <2> QED  BY <1>2, <1>5, <1>11, <2>1, <2>2, <2>3, <2>4, <2>5 DEF Log
<1> QED  BY <1>10, <1>11

\* A browser is sent the next event, or its channel is closed and emptied.
LEMMA BrowserStep ==
  ASSUME Types, Types', Bus, Log, NEW s \in Streams, Receive(s) \/ Unsubscribe(s)
  PROVE  Log'
<1>1. UNCHANGED count /\ \A t \in Streams \ {s} : channel'[t] = channel[t] /\ seen'[t] = seen[t]
  BY DEF Receive, Unsubscribe, Types
<1>2. \A t \in Streams : Ordered(t)
  BY OrderOfEach DEF Log
<1>3. \A t \in Streams \ {s} : Ordered(t)' /\ \A b \in Nat \ {0} : Below(t, b) => Below(t, b)'
  BY <1>1, <1>2, StreamKept
<1>4. Logger \in AllPublishers /\ Publishers \subseteq AllPublishers
  BY DEF AllPublishers
<1>5. CASE Receive(s)
  <2>1. /\ channel[s] # <<>> /\ channel'[s] = Tail(channel[s])
        /\ seen'[s] = IF Head(channel[s]) > 0 THEN Head(channel[s]) ELSE seen[s]
        /\ UNCHANGED publish
    BY <1>5 DEF Receive, Types
  <2>2. Ordered(s)' /\ \A b \in Nat \ {0} : Below(s, b) => Below(s, b)'
    BY <1>2, <2>1, Received
  <2>3. LoggerGoesOn /\ \A q \in Publishers : publish'[q].event = 0
    BY <2>1 DEF LoggerGoesOn, Log
  <2> QED  BY <1>1, <1>3, <2>2, <2>3, LogKept
<1>6. CASE Unsubscribe(s)
  <2>1. channel'[s] = <<>> /\ seen'[s] = 0
    BY <1>6 DEF Unsubscribe, Types
  <2>2. Ordered(s)' /\ \A b \in Nat \ {0} : Below(s, b) => Below(s, b)'
    BY <2>1 DEF Ordered, Below
  <2>3. PICK S : S = Subscribers \ {s}
    OBVIOUS
  <2>4. S \in SUBSET Streams
    BY <2>3 DEF Subscribers
  <2>5. publish' = Admit(AllPublishers, S)
    BY <1>6, <2>3 DEF Unsubscribe
  <2>6. \A p \in AllPublishers :
          /\ publish'[p].event = publish[p].event
          /\ \/ publish'[p] = publish[p]
             \/ publish[p].phase = "waiting" /\ publish'[p].phase = "busy" /\ publish'[p].left = S
    BY <2>4, <2>5, Admitted
  <2>7. LoggerGoesOn /\ \A q \in Publishers : publish'[q].event = 0
    BY <1>4, <2>6 DEF LoggerGoesOn, Log
  <2> QED  BY <1>1, <1>3, <2>2, <2>7, LogKept
<1> QED  BY <1>5, <1>6

\* A new entry is newer than whatever is in a channel or was sent.
LEMMA WriteOrder ==
  ASSUME Types, Types', Log, Write
  PROVE  Log'
<1>1. PICK e \in Nat : e = count + 1
  BY DEF Types
<1> DEFINE h == [phase |-> "waiting", event |-> e, left |-> {}]
<1>2. h \in Publish /\ h.event = e /\ h.left = {} /\ h.phase = "waiting"
  BY DEF Publish
<1>3. publish' = [publish EXCEPT ![Logger] = h] /\ count' = e /\ UNCHANGED <<channel, seen>>
  BY <1>1 DEF Write, CallPublish
<1> HIDE DEF h
<1>4. Logger \in AllPublishers /\ Logger \notin Publishers /\ Publishers \subseteq AllPublishers
  BY DashboardAssumption DEF AllPublishers
<1>5. publish'[Logger] = h /\ \A q \in AllPublishers \ {Logger} : publish'[q] = publish[q]
  BY <1>2, <1>3, <1>4, Replaced
<1>6. \A s \in Streams : Below(s, e) /\ seen[s] \in Nat /\ \A i \in 1..Len(channel[s]) : channel[s][i] \in Nat
  BY <1>1 DEF Log, Types
<1>7. \A s \in Streams : Below(s, publish[Logger].event)' /\ Below(s, count + 1)'
  <2>1. \A s \in Streams : Below(s, e)'
    BY <1>3, <1>6 DEF Below
  <2>2. \A s \in Streams : seen'[s] < e + 1 /\ \A i \in 1..Len(channel'[s]) : channel'[s][i] < e + 1
    BY <1>3, <1>6 DEF Below
  <2> QED  BY <1>2, <1>3, <1>5, <2>1, <2>2 DEF Below
<1>8. LogOrder'
  BY <1>3 DEF Log, LogOrder
<1>9. \A p \in Publishers : publish'[p].event = 0
  BY <1>4, <1>5 DEF Log
<1> QED  BY <1>1, <1>2, <1>3, <1>5, <1>7, <1>8, <1>9 DEF Log, Types

-----------------------------------------------------------------------------
(* The ring.                                                                *)

\* A remainder is what is left of a multiple.
LEMMA Remainder ==
  ASSUME NEW a \in Int, NEW n \in Nat \ {0}
  PROVE  a % n \in 0..(n - 1) /\ \E q \in Int : a = n * q + (a % n)
<1>1. a % n \in 0..(n - 1)
  OBVIOUS
<1>2. a \div n \in Int
  OBVIOUS
<1>3. a % n = a - n * (a \div n)
  BY Z3
<1>4. PICK q \in Int : q = a \div n
  BY <1>2
<1>5. a = n * q + (a % n)
  BY <1>1, <1>3, <1>4
<1> QED  BY <1>1, <1>5

\* There is one way to write a number as a multiple and a remainder.
LEMMA RemainderUnique ==
  ASSUME NEW n \in Nat \ {0}, NEW q \in Int, NEW p \in Int,
         NEW r \in 0..(n - 1), NEW s \in 0..(n - 1), n * q + r = n * p + s
  PROVE  r = s /\ q = p
<1>1. n * (q - p) = s - r
  OBVIOUS
<1>2. q - p >= 1 => n * (q - p) >= n
  OBVIOUS
<1>3. q - p <= 0 - 1 => n * (q - p) <= 0 - n
  OBVIOUS
<1>4. q = p
  BY <1>1, <1>2, <1>3
<1> QED  BY <1>4

\* Entries less than a round apart are in different slots.
LEMMA OtherSlot ==
  ASSUME NEW n \in Nat \ {0}, NEW a \in Int, NEW b \in Int, a < b, b < a + n
  PROVE  a % n # b % n
<1>1. PICK q \in Int : a = n * q + (a % n)
  BY Remainder
<1>2. PICK p \in Int : b = n * p + (b % n)
  BY Remainder
<1>3. a % n \in 0..(n - 1) /\ b % n \in 0..(n - 1)
  BY Remainder
<1>4. SUFFICES ASSUME a % n = b % n PROVE FALSE
  OBVIOUS
<1>5. b - a = n * (p - q)
  BY <1>1, <1>2, <1>3, <1>4
<1>6. p - q >= 1 => n * (p - q) >= n
  OBVIOUS
<1>7. p - q <= 0 => n * (p - q) <= 0
  OBVIOUS
<1> QED  BY <1>5, <1>6, <1>7

\* Counting on from a slot is counting on from the entry.
LEMMA SameSlot ==
  ASSUME NEW n \in Nat \ {0}, NEW c \in Int, NEW k \in Int
  PROVE  ((c % n) + k) % n = (c - n + k) % n
<1>0. \A a \in Int : \E q \in Int, r \in 0..(n - 1) : a = n * q + r /\ r = a % n
  BY Remainder
<1>1. PICK q \in Int, r \in 0..(n - 1) : c = n * q + r /\ r = c % n
  BY <1>0
<1>2. PICK x \in Int, y \in Int : x = r + k /\ y = c - n + k
  OBVIOUS
<1>3. PICK p \in Int, s \in 0..(n - 1) : x = n * p + s /\ s = x % n
  BY <1>0
<1>4. PICK m \in Int, t \in 0..(n - 1) : y = n * m + t /\ t = y % n
  BY <1>0
<1>5. n * m + t = n * (p + q - 1) + s
  BY <1>1, <1>2, <1>3, <1>4
<1>6. t = s
  BY <1>5, RemainderUnique
<1> QED  BY <1>1, <1>2, <1>3, <1>4, <1>6

\* Writing an entry overwrites the one that falls out of the window, and no other.
LEMMA RingStep ==
  ASSUME Types, Ring, [Next]_vars
  PROVE  Ring'
<1>1. Size \in Nat \ {0} /\ count \in Nat
  BY DashboardAssumption DEF Types
<1>2. CASE Write
  <2>1. PICK slot : slot = count % Size
    OBVIOUS
  <2>2. entries' = [entries EXCEPT ![slot] = count + 1] /\ count' = count + 1
    BY <1>2, <2>1 DEF Write
  <2>3. slot \in 0..(Size - 1)
    BY <1>1, <2>1, Remainder
  <2>4. entries'[slot] = count + 1 /\ \A k \in 0..(Size - 1) : k # slot => entries'[k] = entries[k]
    BY <2>2, <2>3 DEF Types
  <2>5. ASSUME NEW n \in 1..(count + 1), n + Size > count + 1
        PROVE  entries'[(n - 1) % Size] = n
    <3>1. CASE n = count + 1
      BY <1>1, <2>1, <2>4, <3>1
    <3>2. CASE n # count + 1
      <4>1. n \in 1..count /\ n - 1 \in Int /\ n - 1 < count /\ count < (n - 1) + Size /\ n + Size > count
        BY <1>1, <2>5, <3>2
      <4>2. (n - 1) % Size # count % Size
        <5>1. count \in Int
          BY <1>1
        <5> QED  BY <1>1, <4>1, <5>1, OtherSlot, Zenon
      <4>3. (n - 1) % Size \in 0..(Size - 1)
        BY <1>1, <4>1, Remainder, Zenon
      <4>4. entries[(n - 1) % Size] = n
        BY <4>1 DEF Ring
      <4> QED  BY <2>1, <2>4, <4>2, <4>3, <4>4
    <3> QED  BY <3>1, <3>2
  <2> QED  BY <2>2, <2>5 DEF Ring
<1>3. CASE ~Write
  <2>1. UNCHANGED <<entries, count>>
    BY <1>3 DEF Next, ReadLock, Offer, EndPublish, PublishEvent, RequestLock, Subscribe, Unsubscribe, Receive, vars
  <2> QED  BY <2>1 DEF Ring
<1> QED  BY <1>2, <1>3

\* GetRecent reads the window from its oldest entry on.
LEMMA RingRead ==
  ASSUME Types, Ring
  PROVE  RingIsTail
<1>1. Size \in Nat \ {0} /\ count \in Nat
  BY DashboardAssumption DEF Types
<1> DEFINE index == IF count <= Size THEN 0 ELSE count % Size
           m == Least(count, Size)
<1>2. m \in Nat /\ Least(Size, m) = m /\ m <= Size /\ m <= count /\ (count <= Size => m = count) /\ (count > Size => m = Size)
  BY <1>1 DEF Least
<1>3. ASSUME NEW k \in 1..m PROVE entries[(index + k - 1) % Size] = count - m + k
  <2>1. count - m + k \in 1..count /\ (count - m + k) + Size > count
    BY <1>1, <1>2
  <2>2. entries[((count - m + k) - 1) % Size] = count - m + k
    BY <2>1 DEF Ring
  <2>3. (index + k - 1) % Size = ((count - m + k) - 1) % Size
    <3>1. CASE count <= Size
      <4>1. index + k - 1 = (count - m + k) - 1
        BY <1>1, <1>2, <3>1
      <4> QED  BY <4>1
    <3>2. CASE ~(count <= Size)
      <4>0. count % Size \in 0..(Size - 1)
        BY <1>1, Remainder
      <4>1. PICK r \in Int, j \in Int : r = count % Size /\ j = k - 1
        BY <4>0
      <4>2. index + k - 1 = r + j /\ (count - m + k) - 1 = count - Size + j
        BY <1>1, <1>2, <3>2, <4>1
      <4>3. ((count % Size) + j) % Size = (count - Size + j) % Size
        <5>1. count \in Int
          BY <1>1
        <5> QED  BY <1>1, <5>1, SameSlot, Zenon
      <4> QED  BY <4>1, <4>2, <4>3
    <3> QED  BY <3>1, <3>2
  <2> QED  BY <2>2, <2>3
<1>4. GetRecent(Size) = [k \in 1..m |-> entries[(index + k - 1) % Size]]
  BY <1>2 DEF GetRecent
<1> HIDE DEF index, m
<1>5. GetRecent(Size) = [k \in 1..m |-> count - m + k]
  BY <1>3, <1>4
<1> QED  BY <1>5 DEF RingIsTail, m

-----------------------------------------------------------------------------
(* The theorems.                                                            *)

\* The inductive invariant.
Inv == Types /\ Bus /\ Log /\ Ring

\* At the start no one is connected, nothing is published and the ring is empty.
LEMMA InvInit == Init => Inv
<1> SUFFICES ASSUME Init PROVE Inv
  OBVIOUS
<1> USE DEF Init
<1>1. Size \in Nat \ {0}
  BY DashboardAssumption
<1>2. \A p \in AllPublishers : publish[p].phase = "idle" /\ publish[p].event = 0 /\ publish[p].left = {}
  BY DEF Idle
<1>3. Idle \in Publish /\ <<>> \in Seq(Nat)
  BY DEF Idle, Publish
<1>4. Types
  BY <1>1, <1>3 DEF Types
<1>5. Bus
  BY <1>2 DEF Bus
<1>6. Log
  <2>0. count = 0
    OBVIOUS
  <2>1. \A s \in Streams : channel[s] = <<>> /\ seen[s] = 0
    OBVIOUS
  <2> HIDE DEF Init
  <2>2. \A s \in Streams : Below(s, count + 1)
    <3>1. ASSUME NEW s \in Streams PROVE Below(s, 1)
      <4>1. channel[s] = <<>> /\ seen[s] = 0
        BY <2>1
      <4> QED  BY <4>1 DEF Below
    <3>2. count + 1 = 1
      BY <2>0
    <3> QED  BY <3>1, <3>2
  <2>3. LogOrder
    BY <2>1 DEF LogOrder
  <2>4. Logger \in AllPublishers /\ Publishers \subseteq AllPublishers
    BY DEF AllPublishers
  <2> QED  BY <1>2, <2>0, <2>2, <2>3, <2>4 DEF Log
<1>7. Ring
  BY DEF Ring
<1> QED  BY <1>4, <1>5, <1>6, <1>7 DEF Inv

\* Every step keeps the invariant.
LEMMA InvStep == Inv /\ [Next]_vars => Inv'
<1> SUFFICES ASSUME Inv, [Next]_vars PROVE Inv'
  OBVIOUS
<1> USE DEF Inv
<1>1. Types'
  BY TypesStep
<1>2. Bus'
  BY BusStep
<1>3. Ring'
  BY RingStep
<1>4. Log'
  <2>1. ASSUME NEW p \in AllPublishers, Offer(p) PROVE Log'
    BY <1>1, <2>1, OfferStep
  <2>2. ASSUME NEW s \in Streams, Receive(s) \/ Unsubscribe(s) PROVE Log'
    BY <1>1, <2>2, BrowserStep
  <2>3. ASSUME Write PROVE Log'
    BY <1>1, <2>3, WriteOrder
  <2>4. ASSUME \/ \E p \in AllPublishers : ReadLock(p) \/ EndPublish(p)
               \/ \E p \in Publishers : PublishEvent(p)
               \/ \E s \in Streams : RequestLock(s) \/ Subscribe(s)
               \/ UNCHANGED vars
        PROVE  Log'
    BY <1>1, <2>4, LockSteps
  <2> QED  BY <2>1, <2>2, <2>3, <2>4 DEF Next
<1> QED  BY <1>1, <1>2, <1>3, <1>4

\* The invariant holds throughout.
LEMMA Invariance == Spec => []Inv
BY InvInit, InvStep, PTL DEF Spec

\* EventBus.Publish never sends on a channel that Unsubscribe has closed, for any number
\* of publishers and browsers that come and go.
THEOREM NoSendOnClosedHolds == Spec => []NoSendOnClosed
<1>1. Inv => NoSendOnClosed
  BY DEF Inv, Bus, NoSendOnClosed
<1> QED  BY <1>1, Invariance, PTL

\* Every browser gets log entries in the order they were written and each at most once,
\* whatever the capacity of its channel (LogBuffer.Write, EventBus.Publish, EventHandler).
THEOREM LogOrderHolds == Spec => []LogOrder
<1>1. Inv => LogOrder
  BY DEF Inv, Log
<1> QED  BY <1>1, Invariance, PTL

\* For every ring size and number of entries, GetRecent returns the last entries written,
\* oldest first (LogBuffer.Write and GetRecent).
THEOREM RingIsTailHolds == Spec => []RingIsTail
<1>1. Inv => RingIsTail
  BY RingRead DEF Inv
<1> QED  BY <1>1, Invariance, PTL

=============================================================================
