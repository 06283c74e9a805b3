----------------------------- MODULE NotifyCenter -----------------------------
(***************************************************************************)
(* The exported functions of notify/msg_notify_center.go over the fast     *)
(* publishers and the shared one.  A call is a sequence of steps that the  *)
(* steps of other callers and of the handlers interleave with.             *)
(*                                                                         *)
(* Every Event satisfies the SlowEvent interface, so the shared publisher  *)
(* also keeps listeners under the names of fast topics.                    *)
(***************************************************************************)
EXTENDS Integers, Sequences

CONSTANTS
  FastTopics, SlowTopics, Subscribers,
  Single,          \* subscribers with SubscribeType(); the others have ...
  SubscribeTypes,  \* ... SubscribeTypes(): the topics of each subscriber
  Callers,
  MaxCalls,        \* bound: calls per caller
  ClockTopics, IgnoreExpire, SeqNos, ExactLimit, RingSizes, SmallRing, DefaultRing,
  LogInstalled, MaxSent,
  Panicking, SlowRing, OwnerSet, MaxSlowSent

AllTopics == FastTopics \cup SlowTopics

ASSUME NotifyCenterAssumption ==
  /\ FastTopics \cap SlowTopics = {}
  /\ Single \subseteq Subscribers
  /\ SubscribeTypes \in [Subscribers -> Seq(AllTopics) \ {<<>>}]
  /\ \A s \in Single : Len(SubscribeTypes[s]) = 1
  /\ MaxCalls \in Nat

VARIABLES
  ring, queue, subscribers, lastSequence, handler, event, present, visited, cut,
  ticked, sent, done, joined, seen,
  topics, listeners, slowQueue, closed, slowHandler, slowEvent, reached, callee,
  slowSent, slowDone, slowJoined, slowSeen,
  call,    \* what each caller is executing
  result,  \* the outcome of its last call
  calls,   \* the number of calls it has begun
  alone,   \* history: no other call about its subscriber has overlapped its call
  settled  \* history: what the last call about a subscriber has left, if it was
           \* alone and returned no error

P == INSTANCE Publisher WITH Topics <- FastTopics, Faulty <- Panicking
S == INSTANCE SharePublisher WITH SlowTopics <- AllTopics, Listeners <- Subscribers

pubVars == <<ring, queue, subscribers, lastSequence, handler, event, present,
             visited, cut, ticked, sent, done, joined, seen>>
shareVars == <<topics, listeners, slowQueue, closed, slowHandler, slowEvent,
               reached, callee, slowSent, slowDone, slowJoined, slowSeen>>
callVars == <<call, result, calls, alone, settled>>
vars == <<pubVars, shareVars, callVars>>

-----------------------------------------------------------------------------
Idle == [op |-> "idle"]

Init ==
  /\ P!Init
  /\ S!SlowInit
  /\ call = [c \in Callers |-> Idle]
  /\ result = [c \in Callers |-> "none"]
  /\ calls = [c \in Callers |-> 0]
  /\ alone = [c \in Callers |-> TRUE]
  /\ settled = [s \in Subscribers |-> "unknown"]

Begin(c, op) ==
  /\ call[c] = Idle
  /\ calls[c] < MaxCalls
  /\ calls' = [calls EXCEPT ![c] = @ + 1]
  /\ call' = [call EXCEPT ![c] = op]
  /\ result' = [result EXCEPT ![c] = "none"]

\* The callers in the middle of a registration or deregistration of s.
Busy(s) == {c \in Callers : call[c].op \in {"register", "deregister"} /\ call[c].sub = s}

\* A call about s begins.
BeginAbout(c, s, op) ==
  /\ Begin(c, op)
  /\ alone' = [d \in Callers |-> IF d \in Busy(s) THEN FALSE
                                 ELSE IF d = c THEN Busy(s) = {} ELSE alone[d]]
  /\ settled' = [settled EXCEPT ![s] = "unknown"]

\* A call that returns, or panics, in its first step.
BeginAndEnd(c, outcome) ==
  /\ call[c] = Idle
  /\ calls[c] < MaxCalls
  /\ calls' = [calls EXCEPT ![c] = @ + 1]
  /\ result' = [result EXCEPT ![c] = outcome]
  /\ UNCHANGED <<call, alone, settled>>

Return(c, outcome) ==
  /\ call' = [call EXCEPT ![c] = Idle]
  /\ result' = [result EXCEPT ![c] = outcome]
  /\ UNCHANGED <<calls, alone>>

\* A call about a subscriber returns.
ReturnAbout(c, outcome) ==
  /\ Return(c, outcome)
  /\ settled' = [settled EXCEPT ![call[c].sub] =
                   IF alone[c] /\ outcome = "ok" THEN call[c].op ELSE @]

\* RegisterPublisher; a slow event needs none.
RegisterFastPublisher(c, t, n) ==
  /\ BeginAndEnd(c, "ok")
  /\ P!RegisterPublisher(t, n)
  /\ UNCHANGED shareVars

RegisterSharePublisher(c) ==
  /\ BeginAndEnd(c, "ok")
  /\ UNCHANGED <<pubVars, shareVars>>

\* PublishEvent (Background context) and PublishEventWait (wait = TRUE): look
\* the publisher up, then block in the select.
PublishFast(c, t, wait) ==
  /\ IF ring[t] = 0
     THEN BeginAndEnd(c, "error")
     ELSE /\ Begin(c, [op |-> "publish", topic |-> t, wait |-> wait])
          /\ UNCHANGED <<alone, settled>>
  /\ UNCHANGED <<pubVars, shareVars>>

PublishSlow(c, t, wait) ==
  /\ Begin(c, [op |-> "publish", topic |-> t, wait |-> wait])
  /\ UNCHANGED <<alone, settled>>
  /\ UNCHANGED <<pubVars, shareVars>>

SendFast(c) ==
  /\ call[c].op = "publish"
  /\ call[c].topic \in FastTopics
  /\ P!Send(call[c].topic)
  /\ Return(c, "ok") /\ UNCHANGED settled
  /\ UNCHANGED shareVars

SendSlow(c) ==
  /\ call[c].op = "publish"
  /\ call[c].topic \in SlowTopics
  /\ S!SendSlow(call[c].topic)
  /\ Return(c, "ok") /\ UNCHANGED settled
  /\ UNCHANGED pubVars

\* A send on the closed channel panics.
NoSendOnClosed(c) == FALSE
SendOnClosed(c) ==
  /\ call[c].op = "publish"
  /\ call[c].topic \in SlowTopics
  /\ closed
  /\ Return(c, "panic") /\ UNCHANGED settled
  /\ UNCHANGED <<pubVars, shareVars>>

CtxDone(c) ==
  /\ call[c].op = "publish"
  /\ call[c].wait
  /\ Return(c, "error") /\ UNCHANGED settled
  /\ UNCHANGED <<pubVars, shareVars>>

\* The publishers a registration visits, in order.  A single subscriber goes to
\* the publisher of its topic or to the shared one; a multi-subscriber goes
\* through its topics for the fast ones, and then to the shared one with all.
IsFast(t) == t \in FastTopics
Visit(where, ts) == [i \in 1 .. Len(ts) |-> <<where, ts[i]>>]

RegisterSteps(s) ==
  LET ts == SubscribeTypes[s] IN
  IF s \in Single
  THEN Visit(IF IsFast(ts[1]) THEN "fast" ELSE "share", ts)
  ELSE Visit("fast", ts) \o Visit("share", ts)

RegisterSubscriber(c, s) ==
  /\ BeginAbout(c, s, [op |-> "register", sub |-> s, todo |-> RegisterSteps(s)])
  /\ UNCHANGED <<pubVars, shareVars>>

\* The caller is done with the first step of its call.
Advance(c) ==
  IF Len(call[c].todo) = 1
  THEN ReturnAbout(c, "ok")
  ELSE /\ call' = [call EXCEPT ![c].todo = Tail(@)]
       /\ UNCHANGED <<result, calls, alone, settled>>

\* A fast topic without a publisher ends the call; what was added stays.  On the
\* way to the fast publishers nothing is done for a slow topic.
OnMissingOk(c) == ReturnAbout(c, "ok")
OnMissing(c) == ReturnAbout(c, "error")

RegisterFast(c) ==
  /\ call[c].op = "register"
  /\ Head(call[c].todo)[1] = "fast"
  /\ LET t == Head(call[c].todo)[2] IN
     \/ IsFast(t) /\ P!AddSubscriber(t, call[c].sub) /\ Advance(c)
     \/ IsFast(t) /\ ring[t] = 0 /\ UNCHANGED pubVars /\ OnMissing(c)
     \/ ~IsFast(t) /\ UNCHANGED pubVars /\ Advance(c)
  /\ UNCHANGED shareVars

RegisterShare(c) ==
  /\ call[c].op = "register"
  /\ Head(call[c].todo)[1] = "share"
  /\ S!AddListener(Head(call[c].todo)[2], call[c].sub)
  /\ Advance(c)
  /\ UNCHANGED pubVars

\* DeregisterSubscriber.  The publishers are looked up by the Event itself
\* where they are stored by its name, so no fast publisher is ever found and
\* the shared publisher is all that it visits.
DeregisterSubscriber(c, s) ==
  /\ BeginAbout(c, s, [op |-> "deregister", sub |-> s,
                       todo |-> Visit("share", SubscribeTypes[s])])
  /\ UNCHANGED <<pubVars, shareVars>>

DeregisterShare(c) ==
  /\ call[c].op = "deregister"
  /\ LET t == Head(call[c].todo)[2] IN
     \/ S!RemoveListener(t, call[c].sub) /\ Advance(c)
     \/ /\ t \notin topics
        /\ IF call[c].sub \in Single THEN ReturnAbout(c, "panic") ELSE Advance(c)
        /\ UNCHANGED shareVars
  /\ UNCHANGED pubVars

\* Shutdown closes the shared channel; the type assertion on the key of the
\* first fast publisher panics, so no fast channel is ever closed.
Shutdown(c) ==
  /\ UNCHANGED pubVars
  /\ IF closed
     THEN BeginAndEnd(c, "panic") /\ UNCHANGED shareVars
     ELSE /\ S!SlowShutdown
          /\ BeginAndEnd(c, IF \E t \in FastTopics : ring[t] # 0 THEN "panic" ELSE "ok")

FastHandler(t) ==
  /\ P!HandlerStep(t)
  /\ UNCHANGED <<shareVars, callVars>>

Tick == P!Tick /\ UNCHANGED <<shareVars, callVars>>

ShareHandler == S!SlowHandlerStep /\ UNCHANGED <<pubVars, callVars>>

\* The steps that continue a call, other than a cancelled context.
Continue(c) ==
  \/ SendFast(c) \/ SendSlow(c) \/ SendOnClosed(c)
  \/ RegisterFast(c) \/ RegisterShare(c) \/ DeregisterShare(c)

BeginCall(c) ==
  \/ \E t \in FastTopics, n \in RingSizes : RegisterFastPublisher(c, t, n)
  \/ RegisterSharePublisher(c)
  \/ \E t \in FastTopics, w \in BOOLEAN : PublishFast(c, t, w)
  \/ \E t \in SlowTopics, w \in BOOLEAN : PublishSlow(c, t, w)
  \/ \E s \in Subscribers : RegisterSubscriber(c, s) \/ DeregisterSubscriber(c, s)
  \/ Shutdown(c)

Next ==
  \/ \E c \in Callers : BeginCall(c) \/ Continue(c) \/ CtxDone(c)
  \/ \E t \in FastTopics : FastHandler(t)
  \/ ShareHandler
  \/ Tick

Spec == Init /\ [][Next]_vars

\* Runnable goroutines are scheduled.  Senders blocked on a channel are served
\* in the order of their arrival, and a waiting writer of an RWMutex bars new
\* readers, so a call that can continue again and again does.
FairSpec ==
  /\ Spec
  /\ \A t \in FastTopics : WF_vars(FastHandler(t))
  /\ WF_vars(ShareHandler)
  /\ \A c \in Callers : SF_vars(Continue(c))

-----------------------------------------------------------------------------
\* With handlers that live, every call returns or panics: no publisher stays
\* blocked on a full channel and no registration on the lock of a set.
CallsReturn == \A c \in Callers : call[c] # Idle ~> call[c] = Idle

\* A RegisterSubscriber that returned without an error, and that no other call
\* about its subscriber overlapped, has put the subscriber where the events of
\* each of its topics are delivered from, and there it stays until the next such
\* call: also through a Shutdown and the registrations of others.  After such a
\* DeregisterSubscriber no slow event reaches it, nor is one being passed to it.
DeliversTo(t, s) == IF IsFast(t) THEN s \in subscribers[t] ELSE s \in listeners[t]
RegistrationHolds ==
  \A s \in Subscribers :
    /\ settled[s] = "register" =>
         \A i \in DOMAIN SubscribeTypes[s] : DeliversTo(SubscribeTypes[s][i], s)
    /\ settled[s] = "deregister" =>
         s \notin callee /\ \A t \in AllTopics : s \notin listeners[t]
=============================================================================
