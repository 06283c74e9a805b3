---------------------------- MODULE SharePublisher ----------------------------
(***************************************************************************)
(* The shared publisher of the slow events (notify/msg_notify_center.go):  *)
(* one channel and one handler for every slow topic, and one ConcurrentSet *)
(* of listeners per topic.  ConcurrentSet.Range keeps the read lock of the *)
(* set through its callbacks, Add and Remove take the write lock.          *)
(*                                                                         *)
(* SharePublisher.owner is read for every event and assigned nowhere.      *)
(* OwnerSet = FALSE is the package as it stands, OwnerSet = TRUE the same  *)
(* code with owner (and its logger) in place.                              *)
(***************************************************************************)
EXTENDS Integers, Sequences

CONSTANTS
  SlowTopics,
  Listeners,     \* the subscribers
  Panicking,     \* the subscribers whose OnEvent may panic
  SlowRing,      \* capacity of the shared channel, 16384 by default
  OwnerSet,
  MaxSlowSent    \* bound: events accepted

ASSUME SharePublisherAssumption ==
  /\ Panicking \subseteq Listeners
  /\ SlowTopics # {}
  /\ SlowRing \in Nat \ {0}
  /\ OwnerSet \in BOOLEAN
  /\ MaxSlowSent \in Nat

VARIABLES
  topics,       \* the keys of SharePublisher.listeners
  listeners,    \* the set stored under a key; {} without one
  slowQueue,    \* the channel
  closed,       \* close(queue) was called
  slowHandler,  \* the goroutine of openHandler
  slowEvent,    \* the event it holds
  reached,      \* the listeners its Range has called
  callee,       \* {s} while OnEvent of s runs, {} otherwise
  slowSent,     \* history: events accepted
  slowDone,     \* history: the events whose Range is over
  slowJoined,   \* history: events accepted before the listener was added
  slowSeen      \* history: the events passed to OnEvent, in order

slowVars == <<topics, listeners, slowQueue, closed, slowHandler, slowEvent,
              reached, callee, slowSent, slowDone, slowJoined, slowSeen>>
listVars == <<topics, listeners, slowJoined>>

-----------------------------------------------------------------------------
SlowEvent == [id : Nat, topic : SlowTopics]
NoSlowEvent == [id |-> 0, topic |-> CHOOSE t \in SlowTopics : TRUE]

\* The write lock of a topic's set is free unless its Range is under way.
Unlocked(t) == TRUE
SetFree(t) == ~(slowHandler = "notifying" /\ slowEvent.topic = t)

SlowInit ==
  /\ topics = {}
  /\ listeners = [t \in SlowTopics |-> {}]
  /\ slowQueue = <<>>
  /\ closed = FALSE
  /\ slowHandler = "waiting"
  /\ slowEvent = NoSlowEvent
  /\ reached = {}
  /\ callee = {}
  /\ slowSent = 0
  /\ slowDone = {}
  /\ slowJoined = [t \in SlowTopics |-> [s \in Listeners |-> 0]]
  /\ slowSeen = [s \in Listeners |-> <<>>]

\* AddSubscriber, for one topic: LoadOrStore, Load, then Add under the lock.
AddListener(t, s) ==
  /\ SetFree(t)
  /\ topics' = topics \cup {t}
  /\ listeners' = [listeners EXCEPT ![t] = @ \cup {s}]
  /\ slowJoined' = [slowJoined EXCEPT
       ![t][s] = IF s \in listeners[t] THEN @ ELSE slowSent]
  /\ UNCHANGED <<slowQueue, closed, slowHandler, slowEvent, reached, callee,
                 slowSent, slowDone, slowSeen>>

\* RemoveSubscriber, for one topic that has a set of listeners.
RemoveListener(t, s) ==
  /\ t \in topics
  /\ SetFree(t)
  /\ listeners' = [listeners EXCEPT ![t] = @ \ {s}]
  /\ UNCHANGED <<topics, slowQueue, closed, slowHandler, slowEvent, reached,
                 callee, slowSent, slowDone, slowJoined, slowSeen>>

SlowRoom == Len(slowQueue) < SlowRing

\* PublishEvent, the send taken by its select.
SendSlow(t) ==
  /\ ~closed
  /\ SlowRoom
  /\ slowSent < MaxSlowSent
  /\ slowQueue' = Append(slowQueue, [id |-> slowSent + 1, topic |-> t])
  /\ slowSent' = slowSent + 1
  /\ UNCHANGED <<listVars, closed, slowHandler, slowEvent, reached, callee,
                 slowDone, slowSeen>>

\* shutdown: a second close panics in the caller and changes nothing here.
SlowShutdown ==
  /\ ~closed
  /\ closed' = TRUE
  /\ UNCHANGED <<listVars, slowQueue, slowHandler, slowEvent, reached, callee,
                 slowSent, slowDone, slowSeen>>

\* Every event makes the handler read owner and its logger.
HasOwner == OwnerSet

\* openHandler takes the next event; a topic without a set is passed over.
\* Without an owner the first Debug call panics, and so does the deferred one.
ReceiveSlow ==
  /\ slowHandler = "waiting"
  /\ slowQueue # <<>>
  /\ slowQueue' = Tail(slowQueue)
  /\ LET e == Head(slowQueue)
         listed == HasOwner /\ e.topic \in topics
     IN  /\ slowHandler' = IF ~HasOwner THEN "dead"
                           ELSE IF listed THEN "notifying" ELSE "waiting"
         /\ slowEvent' = IF listed THEN e ELSE NoSlowEvent
         /\ slowDone' = IF HasOwner /\ ~listed THEN slowDone \cup {e} ELSE slowDone
  /\ reached' = {}
  /\ UNCHANGED <<listVars, closed, callee, slowSent, slowSeen>>

Drained == slowQueue = <<>>

\* A closed and drained channel yields nil, on which Name() panics.
ReceiveClosed ==
  /\ slowHandler = "waiting"
  /\ closed
  /\ Drained
  /\ slowHandler' = "dead"
  /\ UNCHANGED <<listVars, slowQueue, closed, slowEvent, reached, callee,
                 slowSent, slowDone, slowSeen>>

\* The listeners the Range has still to call.
Listed == listeners[slowEvent.topic] \ reached

BeginOnEvent(s) ==
  /\ slowHandler = "notifying"
  /\ callee = {}
  /\ s \in Listed
  /\ callee' = {s}
  /\ reached' = reached \cup {s}
  /\ slowSeen' = [slowSeen EXCEPT ![s] = Append(@, slowEvent)]
  /\ UNCHANGED <<listVars, slowQueue, closed, slowHandler, slowEvent, slowSent,
                 slowDone>>

EndOnEvent ==
  /\ callee # {}
  /\ callee' = {}
  /\ UNCHANGED <<listVars, slowQueue, closed, slowHandler, slowEvent, reached,
                 slowSent, slowDone, slowSeen>>

\* notifySubscriber has no recover: the panic unwinds Range, which releases
\* the lock, and ends openHandler.
PanicOnEvent ==
  /\ callee \cap Panicking # {}
  /\ callee' = {}
  /\ slowHandler' = "panicked"
  /\ slowEvent' = NoSlowEvent
  /\ reached' = {}
  /\ UNCHANGED <<listVars, slowQueue, closed, slowSent, slowDone, slowSeen>>

SlowCutShort == TRUE
SlowRangeOver == listeners[slowEvent.topic] \subseteq reached

EndRange ==
  /\ slowHandler = "notifying"
  /\ callee = {}
  /\ SlowRangeOver
  /\ slowHandler' = "waiting"
  /\ slowDone' = slowDone \cup {slowEvent}
  /\ slowEvent' = NoSlowEvent
  /\ reached' = {}
  /\ UNCHANGED <<listVars, slowQueue, closed, callee, slowSent, slowSeen>>

SlowHandlerStep ==
  \/ ReceiveSlow \/ ReceiveClosed
  \/ \E s \in Listeners : BeginOnEvent(s)
  \/ EndOnEvent \/ PanicOnEvent \/ EndRange

SlowNext ==
  \/ \E t \in SlowTopics, s \in Listeners : AddListener(t, s) \/ RemoveListener(t, s)
  \/ \E t \in SlowTopics : SendSlow(t)
  \/ SlowShutdown
  \/ SlowHandlerStep

SlowSpec == SlowInit /\ [][SlowNext]_slowVars

\* A goroutine that can run is eventually scheduled.
SlowFairSpec == SlowSpec /\ WF_slowVars(SlowHandlerStep)

-----------------------------------------------------------------------------

\* A listener gets the slow events of all its topics in one order, that of
\* their acceptance, and none of them twice; and as long as it stays listed it
\* gets every event of the topic that was accepted after it was added and that
\* the handler is through with.
SlowInOrderNoneLost ==
  /\ \A s \in Listeners : \A i, j \in DOMAIN slowSeen[s] :
       i < j => slowSeen[s][i].id < slowSeen[s][j].id
  /\ \A e \in slowDone : \A s \in listeners[e.topic] :
       e.id > slowJoined[e.topic][s] =>
         \E i \in DOMAIN slowSeen[s] : slowSeen[s][i] = e

\* OnEvent runs only while its subscriber is listed for the event's topic: when
\* RemoveSubscriber has returned, no callback is in progress and none starts.
NoCallbackAfterRemove == callee \subseteq listeners[slowEvent.topic]

=============================================================================
