------------------------------ MODULE Publisher ------------------------------
(***************************************************************************)
(* The fast-event publishers of notify/msg_notify_center.go: one bounded   *)
(* channel and one handler goroutine per topic, a set of subscribers, and  *)
(* the filter that keeps expired events from the subscribers that asked    *)
(* for it.                                                                 *)
(*                                                                         *)
(* msgPublisherCenter.log is read by the handler for every event and is    *)
(* assigned nowhere in the repository.  LogInstalled = FALSE is the        *)
(* package as it stands; LogInstalled = TRUE is the same code with that    *)
(* field set, which is what the package's tests presuppose.                *)
(*                                                                         *)
(* The events of the server (MemberChangeEvent, ConfigChangeEvent, ...)    *)
(* answer Sequence() from a cached clock that is set by the first tick of  *)
(* a timer, 100ms after the start, and that panics when read before.       *)
(***************************************************************************)
EXTENDS Integers, Sequences

CONSTANTS
  Topics,        \* names of the fast events
  ClockTopics,   \* those whose Sequence() is GetCurrentTimeMs()
  Subscribers,
  IgnoreExpire,  \* the subscribers whose IgnoreExpireEvent() is true
  Faulty,        \* the subscribers whose OnEvent may panic
  SeqNos,        \* values Sequence() may return
  RingSizes,     \* ring buffer sizes passed to RegisterPublisher
  SmallRing,     \* 32 in the code: sizes up to it are replaced ...
  DefaultRing,   \* ... by 128
  ExactLimit,    \* 2^53: up to it a float64 represents every integer
  LogInstalled,
  MaxSent        \* bound: events accepted per topic

ASSUME PublisherAssumption ==
  /\ ClockTopics \subseteq Topics
  /\ IgnoreExpire \subseteq Subscribers
  /\ Faulty \subseteq Subscribers
  /\ RingSizes \subseteq Nat
  /\ SmallRing \in Nat
  /\ DefaultRing \in Nat \ {0}
  /\ LogInstalled \in BOOLEAN
  /\ MaxSent \in Nat

ASSUME SequenceAssumption ==
  /\ ExactLimit \in Nat \ {0}
  /\ SeqNos \subseteq Int

\* Where Float64 below is defined as float64(n) is.
ASSUME SequenceRange == \A q \in SeqNos : q \in -2 * ExactLimit .. 2 * ExactLimit

VARIABLES
  ring,          \* capacity of Publisher.queue; 0: no publisher for the topic
  queue,         \* Publisher.queue; events are numbered as they are accepted
  subscribers,   \* Publisher.subscribers
  lastSequence,  \* Publisher.lastSequence
  handler,       \* the goroutine of openHandler
  event,         \* the event the handler holds
  present,       \* subscribers stored when the handler began its Range
  visited,       \* subscribers that Range has reached
  cut,           \* the events whose Range a panic of OnEvent has ended
  ticked,        \* the cached clock has been set
  sent,          \* history: events accepted so far
  done,          \* history: last event whose Range is over
  joined,        \* history: events accepted before the subscriber was added
  seen           \* history: the events passed to OnEvent, in order

vars == <<ring, queue, subscribers, lastSequence, handler, event, present,
          visited, cut, ticked, sent, done, joined, seen>>
handlerVars == <<lastSequence, handler, event, present, visited, cut, ticked,
                 done, seen>>

-----------------------------------------------------------------------------
Event == [id : Nat, seq : Int]
NoEvent == [id |-> 0, seq |-> -1]

RingSize(n) == IF n <= SmallRing THEN DefaultRing ELSE n

\* float64(n) for |n| up to 2^54: beyond 2^53 an odd integer lies half way
\* between two representable ones, and the multiple of four is taken.
Float64(n) ==
  IF n \in -ExactLimit .. ExactLimit \/ n % 2 = 0 THEN n
  ELSE IF (n + 1) % 4 = 0 THEN n + 1 ELSE n - 1

Latest(a, b) == a
Larger(a, b) == IF a > b THEN a ELSE b

Init ==
  /\ ring = [t \in Topics |-> 0]
  /\ queue = [t \in Topics |-> <<>>]
  /\ subscribers = [t \in Topics |-> {}]
  /\ lastSequence = [t \in Topics |-> -1]
  /\ handler = [t \in Topics |-> "unstarted"]
  /\ event = [t \in Topics |-> NoEvent]
  /\ present = [t \in Topics |-> {}]
  /\ visited = [t \in Topics |-> {}]
  /\ cut = [t \in Topics |-> {}]
  /\ ticked = FALSE
  /\ sent = [t \in Topics |-> 0]
  /\ done = [t \in Topics |-> 0]
  /\ joined = [t \in Topics |-> [s \in Subscribers |-> 0]]
  /\ seen = [t \in Topics |-> [s \in Subscribers |-> <<>>]]

\* start(): the sync.Once opens the handler of a publisher that has none.
NotStarted(h) == h
Started(h) == IF h = "unstarted" THEN "waiting" ELSE h

\* RegisterPublisher: LoadOrStore keeps a publisher that is already there,
\* and start() opens its handler once.
RegisterPublisher(t, size) ==
  /\ ring' = [ring EXCEPT ![t] = IF @ = 0 THEN RingSize(size) ELSE @]
  /\ handler' = [handler EXCEPT ![t] = Started(@)]
  /\ UNCHANGED <<queue, subscribers, lastSequence, event, present, visited,
                 cut, ticked, sent, done, joined, seen>>

\* The ticker of utils/common_util.go.
Tick ==
  /\ ticked' = TRUE
  /\ UNCHANGED <<ring, queue, subscribers, lastSequence, handler, event, present,
                 visited, cut, sent, done, joined, seen>>

Room(t) == Len(queue[t]) < ring[t]

\* Publisher.PublishEvent, the send taken by its select.
Send(t) ==
  /\ ring[t] # 0
  /\ Room(t)
  /\ sent[t] < MaxSent
  /\ queue' = [queue EXCEPT ![t] = Append(@, sent[t] + 1)]
  /\ sent' = [sent EXCEPT ![t] = @ + 1]
  /\ UNCHANGED <<ring, subscribers, joined, handlerVars>>

\* Publisher.AddSubscriber.
AddSubscriber(t, s) ==
  /\ ring[t] # 0
  /\ subscribers' = [subscribers EXCEPT ![t] = @ \cup {s}]
  /\ joined' = [joined EXCEPT ![t][s] = IF s \in subscribers[t] THEN @ ELSE sent[t]]
  /\ UNCHANGED <<ring, queue, sent, handlerVars>>

\* Receiving an event makes the handler read the logger and the sequence.
Survives(t) == LogInstalled /\ (t \in ClockTopics => ticked)

\* openHandler takes the next event and enters notifySubscriber, which calls
\* Sequence() once.
Receive(t, q) ==
  /\ Survives(t)
  /\ handler[t] = "waiting"
  /\ queue[t] # <<>>
  /\ queue' = [queue EXCEPT ![t] = Tail(@)]
  /\ event' = [event EXCEPT ![t] = [id |-> Head(queue[t]), seq |-> q]]
  /\ handler' = [handler EXCEPT ![t] = "notifying"]
  /\ present' = [present EXCEPT ![t] = subscribers[t]]
  /\ visited' = [visited EXCEPT ![t] = {}]
  /\ UNCHANGED <<ring, subscribers, lastSequence, cut, ticked, sent, done, joined,
                 seen>>

\* A panic there is outside the recover of the Range.  Without a logger the
\* deferred Error call panics again and the worker of the routine pool
\* recovers.  Either way the event is gone and, start() being a sync.Once, so
\* is the handler.
ReceiveDies(t) ==
  /\ ~Survives(t)
  /\ handler[t] = "waiting"
  /\ queue[t] # <<>>
  /\ queue' = [queue EXCEPT ![t] = Tail(@)]
  /\ handler' = [handler EXCEPT ![t] = "dead"]
  /\ UNCHANGED <<ring, subscribers, lastSequence, event, present, visited,
                 cut, ticked, sent, done, joined, seen>>

Expired(t, s) == s \in IgnoreExpire /\ event[t].seq < lastSequence[t]

\* The Range of the event in hand was ended by a panic.
Cut(t) == event[t].id \in cut[t]

ReachableAgain(t) == subscribers[t]
Reachable(t) == IF Cut(t) THEN {} ELSE subscribers[t] \ visited[t]

\* One callback of the Range in notifySubscriber.  sync.Map.Range reaches a
\* key at most once, and may or may not reach one stored meanwhile.  A panic
\* of OnEvent is recovered in the callback, whose unnamed result is then false:
\* the Range stops there, and the subscribers it has not reached never get the
\* event.
Notify(t, s, panics) ==
  /\ handler[t] = "notifying"
  /\ s \in Reachable(t)
  /\ panics => s \in Faulty /\ ~Expired(t, s)
  /\ visited' = [visited EXCEPT ![t] = @ \cup {s}]
  /\ seen' = [seen EXCEPT ![t][s] = IF Expired(t, s) THEN @ ELSE Append(@, event[t])]
  /\ cut' = [cut EXCEPT ![t] = IF panics THEN @ \cup {event[t].id} ELSE @]
  /\ UNCHANGED <<ring, queue, subscribers, lastSequence, handler, event,
                 present, ticked, sent, done, joined>>

\* The Range has reached every key that was there from its start, or stopped.
RangeCutShort(t) == TRUE
RangeOver(t) == present[t] \subseteq visited[t] \/ Cut(t)

EndNotify(t) ==
  /\ handler[t] = "notifying"
  /\ RangeOver(t)
  /\ lastSequence' = [lastSequence EXCEPT ![t] = Larger(Float64(event[t].seq), Float64(@))]
  /\ handler' = [handler EXCEPT ![t] = "waiting"]
  /\ done' = [done EXCEPT ![t] = event[t].id]
  /\ event' = [event EXCEPT ![t] = NoEvent]
  /\ present' = [present EXCEPT ![t] = {}]
  /\ visited' = [visited EXCEPT ![t] = {}]
  /\ UNCHANGED <<ring, queue, subscribers, cut, ticked, sent, joined, seen>>

HandlerStep(t) ==
  \/ \E q \in SeqNos : Receive(t, q)
  \/ ReceiveDies(t)
  \/ \E s \in Subscribers, panics \in BOOLEAN : Notify(t, s, panics)
  \/ EndNotify(t)

Next ==
  \/ Tick
  \/ \E t \in Topics :
       \/ \E n \in RingSizes : RegisterPublisher(t, n)
       \/ Send(t)
       \/ \E s \in Subscribers : AddSubscriber(t, s)
       \/ HandlerStep(t)

Spec == Init /\ [][Next]_vars

\* A goroutine that can run is eventually scheduled; callers promise nothing.
FairSpec == Spec /\ \A t \in Topics : WF_vars(HandlerStep(t))

-----------------------------------------------------------------------------
TypeOK ==
  /\ ring \in [Topics -> Nat]
  /\ queue \in [Topics -> Seq(Nat)]
  /\ \A t \in Topics : Len(queue[t]) <= ring[t]
  /\ subscribers \in [Topics -> SUBSET Subscribers]
  /\ lastSequence \in [Topics -> Int]
  /\ handler \in [Topics -> {"unstarted", "waiting", "notifying", "dead"}]
  /\ event \in [Topics -> Event]
  /\ present \in [Topics -> SUBSET Subscribers]
  /\ visited \in [Topics -> SUBSET Subscribers]
  /\ cut \in [Topics -> SUBSET Nat]
  /\ ticked \in BOOLEAN
  /\ sent \in [Topics -> Nat]
  /\ done \in [Topics -> Nat]
  /\ joined \in [Topics -> [Subscribers -> Nat]]
  /\ seen \in [Topics -> [Subscribers -> Seq(Event)]]

\* Every subscriber sees the events of a topic in the order in which they
\* were accepted, and none of them twice.
DeliveredOnceInOrder ==
  \A t \in Topics, s \in Subscribers :
    \A i, j \in DOMAIN seen[t][s] : i < j => seen[t][s][i].id < seen[t][s][j].id

\* A subscriber that ignores expired events never gets one whose sequence is
\* below that of an event it got before, taken as lastSequence keeps it: rounded
\* to a float64, which is exact up to 2^53 (Test_IgnoreExpireEvent).
NoExpiredDelivery ==
  \A t \in Topics, s \in IgnoreExpire :
    \A i, j \in DOMAIN seen[t][s] :
      i < j => Float64(seen[t][s][i].seq) <= seen[t][s][j].seq

\* A subscriber that takes every event misses one that was accepted after it
\* was added, and that the handler is through with, only when the OnEvent of
\* another subscriber, which may panic, was given that event and panicked.
Got(t, s, k) == \E i \in 1 .. Len(seen[t][s]) : seen[t][s][i].id = k
NothingLost ==
  \A t \in Topics : \A s \in subscribers[t] \ IgnoreExpire :
    \A k \in joined[t][s] + 1 .. done[t] :
      \/ Got(t, s, k)
      \/ k \in cut[t] /\ \E r \in Faulty \ {s} : Got(t, r, k)

\* What is accepted and not yet dispatched fits into the channel and the hands
\* of the handler: with a handler that has died PublishEvent soon blocks.
AcceptedBounded == \A t \in Topics : sent[t] <= done[t] + ring[t] + 1

\* An accepted event is eventually handed to the subscribers, unless the clock
\* ended the handler: what Test_PublishEventAndSubscribe and
\* Test_IgnoreExpireEvent wait for.
EndedByClock(t) == t \in ClockTopics /\ handler[t] = "dead"
AcceptedIsDispatched ==
  \A t \in Topics : \A k \in 1 .. MaxSent :
    (sent[t] >= k) ~> (done[t] >= k \/ EndedByClock(t))
=============================================================================
