----------------------------- MODULE Dashboard -----------------------------
(***************************************************************************)
(* internal/dashboard: the event bus that feeds the browsers' event        *)
(* streams and the ring of recent log lines.                               *)
(*                                                                         *)
(* Whatever the scheduler logs goes through LogBuffer.Write, one call at a *)
(* time because the log package holds its mutex meanwhile; other events    *)
(* are published directly.  Publish holds the bus's read lock while it     *)
(* offers the event to one subscriber after the other; Subscribe and       *)
(* Unsubscribe take the write lock.  As sync.RWMutex has it, a writer that *)
(* waits keeps new readers out and lets those that wait in when it is      *)
(* done.  Log entries are numbered in the order they are written, every    *)
(* other event is 0.                                                       *)
(***************************************************************************)
EXTENDS Integers, Sequences

CONSTANTS
  Streams,      \* the event streams browsers may have open (EventHandler)
  Publishers,   \* the goroutines that publish events other than log lines
  Buffer,       \* the capacity of a subscriber's channel, 64 in the code
  Size,         \* the size of the log ring
  MaxEntries    \* bound on the log entries of a behaviour

CONSTANT Logger  \* whoever holds the log package's mutex

ASSUME DashboardAssumption == Logger \notin Publishers /\ Buffer \in Nat /\ Size \in Nat \ {0}

VARIABLES
  stream,    \* stream -> "out", "joining", "open" or "leaving": joining and leaving wait for the lock
  channel,   \* stream -> the events in its channel
  seen,      \* stream -> the last log entry the browser was sent
  publish,   \* publisher -> [phase, event, left]: "idle", "waiting" for the read lock or "busy" with those left
  entries,   \* lb.entries
  count      \* lb.count, and lb.pos, which never differs from it

vars == <<stream, channel, seen, publish, entries, count>>

AllPublishers == Publishers \cup {Logger}
Idle == [phase |-> "idle", event |-> 0, left |-> {}]

Init ==
  /\ stream = [s \in Streams |-> "out"]
  /\ channel = [s \in Streams |-> <<>>]
  /\ seen = [s \in Streams |-> 0]
  /\ publish = [p \in AllPublishers |-> Idle]
  /\ entries = [k \in 0..(Size - 1) |-> 0]
  /\ count = 0

Subscribers == {s \in Streams : stream[s] \in {"open", "leaving"}}
Readers     == {p \in AllPublishers : publish[p].phase = "busy"}
WriterWaits == \E s \in Streams : stream[s] \in {"joining", "leaving"}

-----------------------------------------------------------------------------
(* EventBus.Publish.                                                        *)

CallPublish(p, event) ==
  /\ publish[p].phase = "idle"
  /\ publish' = [publish EXCEPT ![p] = [phase |-> "waiting", event |-> event, left |-> {}]]

\* RLock: the publishers P that wait get in and will go through the subscribers S.
Admit(P, S) ==
  [p \in AllPublishers |-> IF p \in P /\ publish[p].phase = "waiting"
                           THEN [publish[p] EXCEPT !.phase = "busy", !.left = S] ELSE publish[p]]

ReadLock(p) ==
  /\ publish[p].phase = "waiting" /\ ~WriterWaits
  /\ publish' = Admit({p}, Subscribers)
  /\ UNCHANGED <<stream, channel, seen, entries, count>>

\* Mutant: waits for room in the channel while the stream is open.
OfferBlocking(p) ==
  /\ publish[p].phase = "busy"
  /\ \E s \in publish[p].left :
       /\ Len(channel[s]) < Buffer \/ stream[s] # "open"
       /\ channel' = IF Len(channel[s]) < Buffer
                     THEN [channel EXCEPT ![s] = Append(@, publish[p].event)] ELSE channel
       /\ publish' = [publish EXCEPT ![p].left = @ \ {s}]
  /\ UNCHANGED <<stream, seen, entries, count>>

\* Any subscriber may be next; a full channel does without the event.
Offer(p) ==
  /\ publish[p].phase = "busy"
  /\ \E s \in publish[p].left :
       /\ channel' = IF Len(channel[s]) < Buffer
                     THEN [channel EXCEPT ![s] = Append(@, publish[p].event)] ELSE channel
       /\ publish' = [publish EXCEPT ![p].left = @ \ {s}]
  /\ UNCHANGED <<stream, seen, entries, count>>

\* RUnlock.
EndPublish(p) ==
  /\ publish[p].phase = "busy" /\ publish[p].left = {}
  /\ publish' = [publish EXCEPT ![p] = Idle]
  /\ UNCHANGED <<stream, channel, seen, entries, count>>

\* gpuReportBroadcastLoop, and the scheduler's own events through eventBusAdapter.
PublishEvent(p) ==
  /\ CallPublish(p, 0)
  /\ UNCHANGED <<stream, channel, seen, entries, count>>

\* Mutant: the ring starts at position one.
WriteShifted ==
  /\ count < MaxEntries
  /\ CallPublish(Logger, count + 1)
  /\ entries' = [entries EXCEPT ![(count + 1) % Size] = count + 1]
  /\ count' = count + 1
  /\ UNCHANGED <<stream, channel, seen>>

\* Mutant: the entry is published by whichever goroutine is free.
WriteUnserialised ==
  /\ count < MaxEntries
  /\ \E p \in AllPublishers : CallPublish(p, count + 1)
  /\ entries' = [entries EXCEPT ![count % Size] = count + 1]
  /\ count' = count + 1
  /\ UNCHANGED <<stream, channel, seen>>

\* LogBuffer.Write: the entry is stored and then published.
Write ==
  /\ count < MaxEntries
  /\ CallPublish(Logger, count + 1)
  /\ entries' = [entries EXCEPT ![count % Size] = count + 1]
  /\ count' = count + 1
  /\ UNCHANGED <<stream, channel, seen>>

-----------------------------------------------------------------------------
(* EventHandler.                                                            *)

\* A browser connects or goes away; each waits for the write lock.
RequestLock(s) ==
  /\ \/ stream[s] = "out" /\ stream' = [stream EXCEPT ![s] = "joining"]
     \/ stream[s] = "open" /\ stream' = [stream EXCEPT ![s] = "leaving"]
  /\ UNCHANGED <<channel, seen, publish, entries, count>>

\* Both hold the write lock and let the waiting publishers in when they are done.
Subscribe(s) ==
  /\ stream[s] = "joining" /\ Readers = {}
  /\ stream' = [stream EXCEPT ![s] = "open"]
  /\ publish' = Admit(AllPublishers, Subscribers \cup {s})
  /\ UNCHANGED <<channel, seen, entries, count>>

\* Mutant: the channel is closed without the lock.
UnsubscribeUnlocked(s) ==
  /\ stream[s] = "leaving"
  /\ stream' = [stream EXCEPT ![s] = "out"]
  /\ channel' = [channel EXCEPT ![s] = <<>>]
  /\ seen' = [seen EXCEPT ![s] = 0]
  /\ UNCHANGED <<publish, entries, count>>

\* Mutant: the write lock is not given back to those who wait.
UnsubscribeKeepsLock(s) ==
  /\ stream[s] = "leaving" /\ Readers = {}
  /\ publish' = Admit(AllPublishers, Subscribers \ {s})
  /\ UNCHANGED <<stream, channel, seen, entries, count>>

\* The channel is taken off the bus and closed; what it holds is lost.
Unsubscribe(s) ==
  /\ stream[s] = "leaving" /\ Readers = {}
  /\ stream' = [stream EXCEPT ![s] = "out"]
  /\ channel' = [channel EXCEPT ![s] = <<>>]
  /\ seen' = [seen EXCEPT ![s] = 0]
  /\ publish' = Admit(AllPublishers, Subscribers \ {s})
  /\ UNCHANGED <<entries, count>>

\* The handler sends the next event to the browser.
Receive(s) ==
  /\ stream[s] = "open" /\ channel[s] # <<>>
  /\ channel' = [channel EXCEPT ![s] = Tail(@)]
  /\ seen' = [seen EXCEPT ![s] = IF Head(channel[s]) > 0 THEN Head(channel[s]) ELSE @]
  /\ UNCHANGED <<stream, publish, entries, count>>

-----------------------------------------------------------------------------
(* LogBuffer.GetRecent without a category, called by LogsHandler.           *)

Least(m, n) == IF m < n THEN m ELSE n

GetRecent(limit) ==
  LET index == IF count <= Size THEN 0 ELSE count % Size
  IN  [k \in 1..Least(limit, Least(count, Size)) |-> entries[(index + k - 1) % Size]]

Next ==
  \/ \E p \in AllPublishers : ReadLock(p) \/ Offer(p) \/ EndPublish(p)
  \/ \E p \in Publishers : PublishEvent(p)
  \/ Write
  \/ \E s \in Streams : RequestLock(s) \/ Subscribe(s) \/ Unsubscribe(s) \/ Receive(s)

\* A goroutine that can run does.  The write lock's own mutex is handed over in turn, so
\* a writer that is let in again and again goes through.  Browsers need not read, connect
\* or leave.
Fairness ==
  /\ \A p \in AllPublishers : WF_vars(ReadLock(p)) /\ WF_vars(Offer(p)) /\ WF_vars(EndPublish(p))
  /\ \A s \in Streams : SF_vars(Subscribe(s)) /\ SF_vars(Unsubscribe(s))

Spec == Init /\ [][Next]_vars /\ Fairness

-----------------------------------------------------------------------------
(* Properties.                                                              *)

\* Publish never sends on a channel that Unsubscribe has closed, which would panic: the
\* subscribers a publisher has yet to reach are all still on the bus.
NoSendOnClosed == \A p \in AllPublishers : publish[p].left \subseteq Subscribers

\* A browser that connects gets log entries in the order they were written and each at
\* most once, however many are dropped because its channel is full.
LogOrder ==
  \A s \in Streams : \A k \in DOMAIN channel[s] : channel[s][k] > 0 =>
    seen[s] < channel[s][k] /\ \A i \in 1..(k - 1) : channel[s][i] < channel[s][k]

\* The ring holds the last Size entries, and GetRecent returns them oldest first, also
\* when the ring is exactly full and when it has wrapped round.
RingIsTail ==
  GetRecent(Size) = [k \in 1..Least(count, Size) |-> count - Least(count, Size) + k]

\* Publish comes to an end though no browser ever reads its channel: the scheduler is not
\* held up by a slow client ("prevents slow client from blocking scheduler").
PublishReturns == \A p \in AllPublishers : publish[p].phase = "waiting" ~> publish[p].phase = "idle"

\* A browser that connects or goes away gets the lock however much is being published,
\* and its handler ends.
LockIsTaken == \A s \in Streams : stream[s] \in {"joining", "leaving"} ~> stream[s] \in {"open", "out"}
=============================================================================
