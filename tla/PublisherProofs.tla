-------------------------- MODULE PublisherProofs ---------------------------
(***************************************************************************)
(* What the publishers owe their subscribers: the fast publishers, for     *)
(* every set of topics and subscribers, every ring size and either value   *)
(* of LogInstalled; and the shared publisher, for any capacity of its      *)
(* channel.                                                                *)
(***************************************************************************)
EXTENDS Publisher, SharePublisher, TLAPS

(* Sequences. *)

(* A sequence is a function on the numbers up to its length.                  *)
LEMMA LenProperties ==
  ASSUME NEW Elt, NEW seq \in Seq(Elt)
  PROVE  Len(seq) \in Nat /\ DOMAIN seq = 1 .. Len(seq) /\ seq \in [1 .. Len(seq) -> Elt]
OBVIOUS

(* The elements of a sequence over a set are in the set.                      *)
LEMMA ElementOfSeq ==
  ASSUME NEW Elt, NEW seq \in Seq(Elt), NEW i \in 1 .. Len(seq)
  PROVE  seq[i] \in Elt
OBVIOUS

(* The empty sequence, and the length of any other.                           *)
LEMMA EmptySeq ==
  ASSUME NEW Elt
  PROVE  /\ <<>> \in Seq(Elt) /\ Len(<<>>) = 0
         /\ \A seq \in Seq(Elt) : seq # <<>> => Len(seq) \in Nat \ {0}
OBVIOUS

(* Append makes the sequence longer by its last element.                      *)
LEMMA AppendProperties ==
  ASSUME NEW Elt, NEW seq \in Seq(Elt), NEW e \in Elt
  PROVE  /\ Append(seq, e) \in Seq(Elt) /\ Append(seq, e) # <<>>
         /\ Len(Append(seq, e)) = Len(seq) + 1
         /\ \A i \in 1 .. Len(seq) : Append(seq, e)[i] = seq[i]
         /\ Append(seq, e)[Len(seq) + 1] = e
OBVIOUS

(* Tail drops the first element.                                              *)
LEMMA HeadTailProperties ==
  ASSUME NEW Elt, NEW seq \in Seq(Elt), seq # <<>>
  PROVE  /\ Head(seq) \in Elt /\ Tail(seq) \in Seq(Elt) /\ Len(Tail(seq)) = Len(seq) - 1
         /\ \A i \in 1 .. Len(Tail(seq)) : Tail(seq)[i] = seq[i + 1]
OBVIOUS

-----------------------------------------------------------------------------
(* The type invariant of Publisher, the inductive invariant and its frame. *)

\* The number of events the handler has taken from the channel.
Taken(t) == sent[t] - Len(queue[t])

Notifying(t) == handler[t] = "notifying"

\* The channel holds consecutive events, up to the last one accepted.
QueueInv(t) == \A i \in 1 .. Len(queue[t]) : queue[t][i] = Taken(t) + i

\* Every event but the last one taken is done with, and that one too unless
\* the handler holds it or died of it.  Without a logger nothing gets done.
HandlerInv(t) ==
  /\ Notifying(t) => event[t].id = Taken(t)
  /\ done[t] = IF handler[t] \in {"notifying", "dead"} THEN Taken(t) - 1 ELSE Taken(t)
  /\ ~LogInstalled => done[t] = 0 /\ ~Notifying(t)

\* What a subscriber got was taken before, and before the event in hand unless
\* the Range has reached the subscriber.
SeenInv(t) ==
  \A s \in Subscribers : \A i \in 1 .. Len(seen[t][s]) :
    /\ seen[t][s][i].id <= Taken(t)
    /\ Notifying(t) /\ s \notin visited[t] => seen[t][s][i].id < Taken(t)

\* lastSequence bounds what was delivered, but for the event in hand.
SequenceInv(t) ==
  \A s \in Subscribers : \A i \in 1 .. Len(seen[t][s]) :
    \/ Float64(seen[t][s][i].seq) <= lastSequence[t]
    \/ /\ Notifying(t) /\ s \in visited[t]
       /\ Float64(seen[t][s][i].seq) <= Float64(event[t].seq)

\* Who is not among the keys of the Range joined after the event in hand was
\* accepted, and who was reached has got it.
RangeInv(t) ==
  Notifying(t) =>
    /\ visited[t] \subseteq subscribers[t]
    /\ \A s \in subscribers[t] \ present[t] : joined[t][s] >= event[t].id
    /\ \A s \in visited[t] \ IgnoreExpire : Got(t, s, event[t].id)

OrderInv(t) ==
  \A s \in Subscribers : \A i, j \in 1 .. Len(seen[t][s]) :
    i < j => seen[t][s][i].id < seen[t][s][j].id

ExpiryInv(t) ==
  \A s \in IgnoreExpire : \A i, j \in 1 .. Len(seen[t][s]) :
    i < j => Float64(seen[t][s][i].seq) <= seen[t][s][j].seq

\* A Range was cut for events taken so far only, and the cut of the event in
\* hand is owed to a subscriber reached that may panic.
CutInv(t) ==
  /\ \A k \in cut[t] : k <= Taken(t)
  /\ Notifying(t) /\ Cut(t) => \E r \in Faulty \cap visited[t] : Got(t, r, event[t].id)

\* The event k did not reach s for the panic of another subscriber.
Missed(t, s, k) == k \in cut[t] /\ \E r \in Faulty \ {s} : Got(t, r, k)

LossInv(t) ==
  \A s \in subscribers[t] \ IgnoreExpire :
    \A k \in joined[t][s] + 1 .. done[t] : Got(t, s, k) \/ Missed(t, s, k)

TopicInv(t) ==
  /\ QueueInv(t)
  /\ HandlerInv(t)
  /\ SeenInv(t)
  /\ Float64(lastSequence[t]) = lastSequence[t]
  /\ SequenceInv(t)
  /\ RangeInv(t)
  /\ CutInv(t)
  /\ OrderInv(t)
  /\ ExpiryInv(t)
  /\ LossInv(t)

IInv == TypeOK /\ \A t \in Topics : TopicInv(t)

(* Every number is at most itself.                                            *)
LEMMA LeqReflexive == \A x \in Int : x <= x
OBVIOUS

-----------------------------------------------------------------------------
\* The conversion yields an integer, and converting twice changes nothing.
LEMMA FloatFacts ==
  ASSUME NEW n \in Int
  PROVE  Float64(n) \in Int /\ Float64(Float64(n)) = Float64(n)
<1>1. CASE n \in -ExactLimit .. ExactLimit \/ n % 2 = 0
  BY <1>1, Zenon DEF Float64
<1>2. CASE ~(n \in -ExactLimit .. ExactLimit \/ n % 2 = 0)
  <2>1. n % 2 = 1
    BY <1>2
  <2>2. (n + 1) % 2 = 0 /\ (n - 1) % 2 = 0
    BY <2>1
  <2>3. QED
    BY <1>2, <2>2 DEF Float64
<1>3. QED
  BY <1>1, <1>2, Zenon

\* Every step of Publisher keeps the types, and no channel beyond its capacity.
LEMMA TypeStep == TypeOK /\ [Next]_vars => TypeOK'
<1> SUFFICES ASSUME TypeOK, [Next]_vars PROVE TypeOK'
  OBVIOUS
<1> USE PublisherAssumption
<1>1. ASSUME NEW t \in Topics, NEW n \in RingSizes, RegisterPublisher(t, n)
      PROVE  TypeOK'
  <2>1. RingSize(n) \in Nat
    BY Zenon DEF RingSize
  <2>2. QED
    BY <1>1, <2>1 DEF RegisterPublisher, Started, TypeOK
<1>2. ASSUME NEW t \in Topics, Send(t)
      PROVE  TypeOK'
  BY <1>2 DEF Send, Room, handlerVars, TypeOK
<1>3. ASSUME NEW t \in Topics, NEW s \in Subscribers, AddSubscriber(t, s)
      PROVE  TypeOK'
  BY <1>3, SMTT(30) DEF AddSubscriber, handlerVars, TypeOK
<1>4. ASSUME NEW t \in Topics, NEW s \in Subscribers, NEW p \in BOOLEAN, Notify(t, s, p)
      PROVE  TypeOK'
  <2>1. Append(seen[t][s], event[t]) \in Seq(Event)
    BY DEF TypeOK
  <2>2. seen' \in [Topics -> [Subscribers -> Seq(Event)]]
    BY <1>4, <2>1, Zenon DEF Notify, TypeOK
  <2>3. event[t].id \in Nat
    BY Zenon DEF TypeOK, Event
  <2>4. cut' \in [Topics -> SUBSET Nat]
    BY <1>4, <2>3, Zenon DEF Notify, TypeOK
  <2>5. QED
    BY <1>4, <2>2, <2>4, SMTT(30) DEF Notify, TypeOK
<1>5. ASSUME NEW t \in Topics, NEW q \in SeqNos, Receive(t, q)
      PROVE  TypeOK'
  <2>1. queue[t] \in Seq(Nat) /\ Head(queue[t]) \in Nat /\ q \in Int
    BY <1>5, SequenceAssumption DEF Receive, TypeOK
  <2>2. [id |-> Head(queue[t]), seq |-> q] \in Event
    BY <2>1, Zenon DEF Event
  <2>3. QED
    BY <1>5, <2>1, <2>2, SMTT(30) DEF Receive, TypeOK
<1>6. ASSUME NEW t \in Topics, ReceiveDies(t)
      PROVE  TypeOK'
  BY <1>6 DEF ReceiveDies, TypeOK
<1>7. ASSUME NEW t \in Topics, EndNotify(t)
      PROVE  TypeOK'
  <2>1. NoEvent \in Event
    BY DEF NoEvent, Event
  <2>2. event[t].seq \in Int /\ event[t].id \in Nat
    BY Zenon DEF TypeOK, Event
  <2>3. Larger(Float64(event[t].seq), Float64(lastSequence[t])) \in Int
    BY Zenon, <2>2, FloatFacts DEF TypeOK, Larger
  <2>4. QED
    BY <1>7, <2>1, <2>2, <2>3, Zenon DEF EndNotify, TypeOK
<1>8. ASSUME Tick PROVE TypeOK'
  BY <1>8, Zenon DEF Tick, TypeOK
<1>9. CASE UNCHANGED vars
  BY <1>9, Zenon DEF vars, TypeOK
<1>10. QED
  BY <1>1, <1>2, <1>3, <1>4, <1>5, <1>6, <1>7, <1>8, <1>9, Zenon DEF Next, HandlerStep

(* The publishers have their types initially.                                 *)
LEMMA TypeInit == Init => TypeOK
<1> SUFFICES ASSUME Init PROVE TypeOK
  OBVIOUS
<1>1. event \in [Topics -> Event]
  BY DEF Init, NoEvent, Event
<1>2. /\ queue \in [Topics -> Seq(Nat)]
      /\ seen \in [Topics -> [Subscribers -> Seq(Event)]]
      /\ \A t \in Topics : Len(queue[t]) <= ring[t]
  BY DEF Init
<1>3. /\ ring \in [Topics -> Nat] /\ sent \in [Topics -> Nat]
      /\ done \in [Topics -> Nat] /\ lastSequence \in [Topics -> Int]
      /\ joined \in [Topics -> [Subscribers -> Nat]]
  BY DEF Init
<1>4. /\ subscribers \in [Topics -> SUBSET Subscribers]
      /\ present \in [Topics -> SUBSET Subscribers]
      /\ visited \in [Topics -> SUBSET Subscribers]
      /\ cut \in [Topics -> SUBSET Nat]
  BY Zenon DEF Init
<1>5. /\ handler \in [Topics -> {"unstarted", "waiting", "notifying", "dead"}]
      /\ ticked \in BOOLEAN
  BY Zenon DEF Init
<1>6. QED
  BY <1>1, <1>2, <1>3, <1>4, <1>5, Zenon DEF TypeOK

\* Publisher keeps its state well formed, and no channel beyond its capacity.
THEOREM TypeCorrect == Spec => []TypeOK
BY TypeInit, TypeStep, PTL DEF Spec

-----------------------------------------------------------------------------
\* What a step leaves alone when it works on another topic.
Same(t) ==
  /\ queue'[t] = queue[t]
  /\ subscribers'[t] = subscribers[t]
  /\ lastSequence'[t] = lastSequence[t]
  /\ handler'[t] = handler[t]
  /\ event'[t] = event[t]
  /\ present'[t] = present[t]
  /\ visited'[t] = visited[t]
  /\ cut'[t] = cut[t]
  /\ sent'[t] = sent[t]
  /\ done'[t] = done[t]
  /\ joined'[t] = joined[t]
  /\ seen'[t] = seen[t]

\* The invariant of a topic is about that topic's state only.
LEMMA Frame ==
  ASSUME NEW t \in Topics, TopicInv(t), Same(t)
  PROVE  TopicInv(t)'
<1> USE DEF Same, Notifying, Taken, Got
<1>1. Taken(t)' = Taken(t) /\ (Notifying(t)' <=> Notifying(t))
  OBVIOUS
<1>2. QueueInv(t)' /\ HandlerInv(t)'
  BY <1>1, Zenon DEF TopicInv, QueueInv, HandlerInv
<1>3. SeenInv(t)' /\ SequenceInv(t)' /\ Float64(lastSequence'[t]) = lastSequence'[t]
  BY <1>1, Zenon DEF TopicInv, SeenInv, SequenceInv
<1>7. RangeInv(t)'
  BY <1>1, Zenon DEF TopicInv, RangeInv
<1>8. CutInv(t)'
  BY <1>1, Zenon DEF TopicInv, CutInv, Cut
<1>4. LossInv(t)'
  BY <1>1 DEF TopicInv, LossInv, Missed
<1>5. OrderInv(t)' /\ ExpiryInv(t)'
  BY <1>1, Zenon DEF TopicInv, OrderInv, ExpiryInv
<1>6. QED
  BY <1>2, <1>3, <1>4, <1>5, <1>7, <1>8, Zenon DEF TopicInv


\* Two conjuncts depend on nothing but what was delivered.
LEMMA SeenFrame ==
  ASSUME NEW t \in Topics, seen'[t] = seen[t]
  PROVE  (OrderInv(t) => OrderInv(t)') /\ (ExpiryInv(t) => ExpiryInv(t)')
BY Zenon DEF OrderInv, ExpiryInv

(* What an action leaves alone of a topic keeps what is known of its losses.  *)
LEMMA LossFrame ==
  ASSUME NEW t \in Topics, seen'[t] = seen[t], subscribers'[t] = subscribers[t],
         joined'[t] = joined[t], done'[t] = done[t], cut'[t] = cut[t]
  PROVE  LossInv(t) => LossInv(t)'
BY DEF LossInv, Missed, Got

\* The state of one topic is typed.
LEMMA TopicTypes ==
  ASSUME TypeOK, NEW t \in Topics
  PROVE  /\ queue[t] \in Seq(Nat) /\ Len(queue[t]) \in Nat
         /\ sent[t] \in Nat /\ done[t] \in Nat /\ lastSequence[t] \in Int
         /\ event[t] \in Event /\ event[t].id \in Nat /\ event[t].seq \in Int
         /\ subscribers[t] \subseteq Subscribers /\ visited[t] \subseteq Subscribers
         /\ cut[t] \subseteq Nat
         /\ \A s \in Subscribers : joined[t][s] \in Nat
         /\ \A s \in Subscribers : seen[t][s] \in Seq(Event)
         /\ \A s \in Subscribers : \A i \in 1 .. Len(seen[t][s]) :
              seen[t][s][i].id \in Nat /\ seen[t][s][i].seq \in Int
         /\ Taken(t) \in Int /\ Taken(t) <= sent[t]
<1>1. queue[t] \in Seq(Nat) /\ sent[t] \in Nat /\ event[t] \in Event
  BY Zenon DEF TypeOK
<1>2. \A s \in Subscribers : seen[t][s] \in Seq(Event) /\ joined[t][s] \in Nat
  BY Zenon DEF TypeOK
<1>3. \A s \in Subscribers : \A i \in 1 .. Len(seen[t][s]) : seen[t][s][i] \in Event
  BY <1>2
<1>4. \A e \in Event : e.id \in Nat /\ e.seq \in Int
  BY Zenon DEF Event
<1>5. done[t] \in Nat /\ lastSequence[t] \in Int
  BY Zenon DEF TypeOK
<1>6. /\ subscribers[t] \subseteq Subscribers /\ visited[t] \subseteq Subscribers
      /\ cut[t] \subseteq Nat
  BY Zenon DEF TypeOK
<1>7. QED
  BY <1>1, <1>2, <1>3, <1>4, <1>5, <1>6 DEF Taken

\* Taking an event leaves the cuts older than it.
LEMMA CutOlder ==
  ASSUME TypeOK, NEW t \in Topics, CutInv(t), cut'[t] = cut[t],
         Taken(t)' = Taken(t) + 1
  PROVE  \A k \in cut'[t] : k < Taken(t)' /\ k <= Taken(t)'
<1>1. cut[t] \subseteq Nat /\ Taken(t) \in Int /\ \A k \in cut[t] : k <= Taken(t)
  BY TopicTypes, Zenon DEF CutInv
<1>2. \A k \in cut[t] : k < Taken(t) + 1 /\ k <= Taken(t) + 1
  BY <1>1
<1>3. QED
  BY <1>2, Zenon

\* No Range, no cut to account for.
LEMMA CutIdle ==
  ASSUME NEW t \in Topics, CutInv(t), cut'[t] = cut[t], Taken(t)' = Taken(t),
         ~Notifying(t)'
  PROVE  CutInv(t)'
BY Zenon DEF CutInv

\* What was cut depends on the Range and on what was delivered.
LEMMA CutFrame ==
  ASSUME NEW t \in Topics, CutInv(t), cut'[t] = cut[t], Taken(t)' = Taken(t),
         Notifying(t)' <=> Notifying(t), event'[t] = event[t],
         visited'[t] = visited[t], seen'[t] = seen[t]
  PROVE  CutInv(t)'
BY Zenon DEF CutInv, Cut, Got

-----------------------------------------------------------------------------

-----------------------------------------------------------------------------
(* The actions but the callback. *)

\* Registering a publisher again changes neither its channel nor its handler.
LEMMA RegisterStep ==
  ASSUME IInv, NEW t \in Topics, NEW n \in RingSizes, RegisterPublisher(t, n),
         NEW u \in Topics
  PROVE  TopicInv(u)'
<1>1. CASE handler'[u] = handler[u]
  BY <1>1, Frame, Zenon DEF Same, IInv, RegisterPublisher
<1>2. CASE handler'[u] # handler[u]
  <2>1. /\ handler[u] = "unstarted" /\ handler'[u] = "waiting"
        /\ queue'[u] = queue[u] /\ sent'[u] = sent[u] /\ done'[u] = done[u]
        /\ seen'[u] = seen[u]
        /\ joined'[u] = joined[u] /\ subscribers'[u] = subscribers[u]
        /\ lastSequence'[u] = lastSequence[u] /\ cut'[u] = cut[u]
    BY <1>2, Zenon DEF IInv, TypeOK, RegisterPublisher, Started
  <2>2. Taken(u)' = Taken(u) /\ ~Notifying(u) /\ ~Notifying(u)'
    BY <2>1, Zenon DEF Taken, Notifying
  <2>3. TopicInv(u)
    BY Zenon DEF IInv
  <2>4. QueueInv(u)' /\ HandlerInv(u)'
    BY <2>1, <2>2, <2>3, Zenon DEF TopicInv, QueueInv, HandlerInv
  <2>5. SeenInv(u)' /\ SequenceInv(u)' /\ RangeInv(u)'
    BY <2>1, <2>2, <2>3, Zenon DEF TopicInv, SeenInv, SequenceInv, RangeInv
  <2>6. OrderInv(u)' /\ ExpiryInv(u)' /\ LossInv(u)'
    BY <2>1, <2>3, SeenFrame, LossFrame, Zenon DEF TopicInv
  <2>8. CutInv(u)'
    BY <2>1, <2>2, <2>3, CutIdle, Zenon DEF TopicInv
  <2>7. QED
    BY <2>1, <2>3, <2>4, <2>5, <2>6, <2>8, Zenon DEF TopicInv
<1>3. QED
  BY <1>1, <1>2, Zenon

\* An accepted event gets the number after the last one in the channel.
LEMMA SendStep ==
  ASSUME IInv, NEW t \in Topics, Send(t), NEW u \in Topics
  PROVE  TopicInv(u)'
<1>1. CASE u # t
  BY <1>1, Frame, Zenon DEF Same, IInv, TypeOK, Send, handlerVars
<1>2. CASE u = t
  <2>1. queue[u] \in Seq(Nat) /\ sent[u] \in Nat
    BY Zenon DEF IInv, TypeOK
  <2>2. TopicInv(u)
    BY Zenon DEF IInv
  <2>3. /\ queue'[u] = Append(queue[u], sent[u] + 1)
        /\ sent'[u] = sent[u] + 1
        /\ handler'[u] = handler[u] /\ done'[u] = done[u] /\ seen'[u] = seen[u]
        /\ event'[u] = event[u]
        /\ joined'[u] = joined[u] /\ subscribers'[u] = subscribers[u]
        /\ lastSequence'[u] = lastSequence[u] /\ visited'[u] = visited[u]
        /\ present'[u] = present[u] /\ cut'[u] = cut[u]
    <3>1. queue'[u] = Append(queue[u], sent[u] + 1) /\ sent'[u] = sent[u] + 1
      BY <1>2, Zenon DEF IInv, TypeOK, Send
    <3>2. QED
      BY <3>1, Zenon DEF Send, handlerVars
  <2>4. Len(queue'[u]) = Len(queue[u]) + 1 /\ Len(queue[u]) \in Nat
    BY <2>1, <2>3
  <2>5. Taken(u)' = Taken(u) /\ (Notifying(u)' <=> Notifying(u))
    <3>1. sent'[u] = sent[u] + 1 /\ sent[u] \in Nat
      BY <2>1, <2>3, Zenon
    <3>2. Taken(u)' = Taken(u)
      BY <3>1, <2>4, SMTT(30) DEF Taken
    <3>3. QED
      BY <3>2, <2>3, Zenon DEF Notifying
  <2>6. QueueInv(u)'
    <3>1. ASSUME NEW i \in 1 .. Len(queue'[u])
          PROVE  queue'[u][i] = Taken(u) + i
      <4>1. CASE i = Len(queue[u]) + 1
        BY <4>1, <2>1, <2>3, <2>4 DEF Taken
      <4>2. CASE i \in 1 .. Len(queue[u])
        BY <4>2, <2>1, <2>2, <2>3 DEF TopicInv, QueueInv
      <4>3. QED
        BY <4>1, <4>2, <2>4
    <3>2. QED
      BY <3>1, <2>5, Zenon DEF QueueInv
  <2>7. HandlerInv(u)'
    BY <2>2, <2>3, <2>5, ZenonT(30) DEF TopicInv, HandlerInv
  <2>8. SeenInv(u)' /\ SequenceInv(u)' /\ RangeInv(u)'
    BY <2>2, <2>3, <2>5 DEF TopicInv, SeenInv, SequenceInv, RangeInv, Got
  <2>9. OrderInv(u)' /\ ExpiryInv(u)' /\ LossInv(u)'
    BY <2>2, <2>3, SeenFrame, LossFrame, Zenon DEF TopicInv
  <2>11. CutInv(u)'
    BY <2>2, <2>3, <2>5, CutFrame, Zenon DEF TopicInv
  <2>10. QED
    BY <2>2, <2>3, <2>6, <2>7, <2>8, <2>9, <2>11, Zenon DEF TopicInv
<1>3. QED
  BY <1>1, <1>2, Zenon

\* A subscriber that joins during a Range is owed only what comes after.
LEMMA AddStep ==
  ASSUME IInv, NEW t \in Topics, NEW s \in Subscribers, AddSubscriber(t, s),
         NEW u \in Topics
  PROVE  TopicInv(u)'
<1>1. CASE u # t
  BY <1>1, Frame, Zenon DEF Same, IInv, TypeOK, AddSubscriber, handlerVars
<1>2. CASE u = t
  <2>1. /\ queue'[u] = queue[u] /\ sent'[u] = sent[u] /\ handler'[u] = handler[u]
        /\ done'[u] = done[u] /\ seen'[u] = seen[u] /\ event'[u] = event[u]
        /\ lastSequence'[u] = lastSequence[u]
        /\ visited'[u] = visited[u] /\ present'[u] = present[u] /\ cut'[u] = cut[u]
        /\ subscribers'[u] = subscribers[u] \cup {s}
    BY <1>2, Zenon DEF IInv, TypeOK, AddSubscriber, handlerVars
  <2>2. \A r \in Subscribers :
          joined'[u][r] = IF r = s /\ s \notin subscribers[u] THEN sent[u]
                          ELSE joined[u][r]
    BY <1>2, Zenon DEF IInv, TypeOK, AddSubscriber
  <2>3. TopicInv(u) /\ TypeOK
    BY Zenon DEF IInv
  <2>4. Taken(u)' = Taken(u) /\ (Notifying(u)' <=> Notifying(u))
    BY <2>1, Zenon DEF Taken, Notifying
  <2>5. QueueInv(u)' /\ HandlerInv(u)'
    BY <2>1, <2>3, <2>4, Zenon DEF TopicInv, QueueInv, HandlerInv
  <2>6. SeenInv(u)' /\ SequenceInv(u)'
    BY <2>1, <2>3, <2>4, Zenon DEF TopicInv, SeenInv, SequenceInv
  <2>7. RangeInv(u)'
    <3>1. RangeInv(u) /\ HandlerInv(u)
      BY <2>3, Zenon DEF TopicInv
    <3>2. /\ Taken(u) <= sent[u] /\ Taken(u) \in Int /\ sent[u] \in Nat
          /\ subscribers[u] \subseteq Subscribers
      BY <2>3, TopicTypes, Zenon
    <3>3. ASSUME Notifying(u), NEW r \in (subscribers[u] \cup {s}) \ present[u]
          PROVE  joined'[u][r] >= event[u].id
      <4>1. event[u].id = Taken(u)
        BY <3>1, <3>3, Zenon DEF HandlerInv
      <4>2. CASE r \in subscribers[u]
        <5>1. joined[u][r] >= event[u].id
          BY <3>1, <3>3, <4>2, Zenon DEF RangeInv
        <5>2. joined'[u][r] = joined[u][r]
          BY <2>2, <3>2, <4>2, Zenon
        <5>3. QED
          BY <5>1, <5>2, Zenon
      <4>3. CASE r \notin subscribers[u]
        <5>1. r = s /\ joined'[u][r] = sent[u]
          BY <2>2, <3>3, <4>3, Zenon
        <5>2. QED
          BY <3>2, <4>1, <5>1, Zenon
      <4>4. QED
        BY <4>2, <4>3, Zenon
    <3>4. \A r : Got(u, r, event[u].id) => Got(u, r, event[u].id)'
      BY <2>1, Zenon DEF Got
    <3>5. QED
      BY <2>1, <2>4, <3>1, <3>3, <3>4, Zenon DEF RangeInv
  <2>8. LossInv(u)'
    <3>1. done[u] <= sent[u]
      BY <2>3, TopicTypes DEF TopicInv, HandlerInv
    <3>2. QED
      <4>1. ASSUME NEW r \in subscribers'[u] \ IgnoreExpire,
                   NEW k \in joined'[u][r] + 1 .. done[u]
            PROVE  Got(u, r, k) \/ Missed(u, r, k)
        <5>1. r \in Subscribers /\ joined[u][r] \in Nat /\ sent[u] \in Nat
          BY <2>1, <2>3, TopicTypes, Zenon
        <5>2. r \in subscribers[u] /\ joined'[u][r] = joined[u][r]
          BY <2>1, <2>2, <2>3, <3>1, <5>1, TopicTypes
        <5>3. QED
          BY <5>2, <2>3, Zenon DEF TopicInv, LossInv
      <4>2. QED
        BY <4>1, <2>1 DEF LossInv, Missed, Got
  <2>10. CutInv(u)'
    BY <2>1, <2>3, <2>4, CutFrame, Zenon DEF TopicInv
  <2>9. QED
    BY <2>1, <2>3, <2>5, <2>6, <2>7, <2>8, <2>10, SeenFrame, Zenon DEF TopicInv
<1>3. QED
  BY <1>1, <1>2, Zenon

\* Taking the head of the channel leaves the numbers of the rest consecutive.
LEMMA TakeHead ==
  ASSUME IInv, NEW u \in Topics, queue[u] # <<>>,
         queue'[u] = Tail(queue[u]), sent'[u] = sent[u]
  PROVE  /\ Taken(u)' = Taken(u) + 1
         /\ Head(queue[u]) = Taken(u) + 1
         /\ QueueInv(u)'
<1>1. /\ queue[u] \in Seq(Nat) /\ sent[u] \in Nat /\ QueueInv(u)
      /\ Len(queue[u]) \in Nat
  BY DEF IInv, TypeOK, TopicInv
<1>2. Len(queue[u]) > 0 /\ Len(queue'[u]) = Len(queue[u]) - 1
  BY <1>1
<1>3. Taken(u)' = Taken(u) + 1
  BY <1>1, <1>2 DEF Taken
<1>4. Head(queue[u]) = Taken(u) + 1
  BY <1>1, <1>2 DEF QueueInv
<1>5. ASSUME NEW i \in 1 .. Len(queue'[u])
      PROVE  queue'[u][i] = Taken(u)' + i
  <2>1. i + 1 \in 1 .. Len(queue[u]) /\ queue'[u][i] = queue[u][i + 1]
    BY <1>1, <1>2
  <2>2. queue[u][i + 1] = Taken(u) + (i + 1)
    BY <1>1, <2>1, Zenon DEF QueueInv
  <2>3. Taken(u) \in Int /\ i \in Int
    BY <1>1 DEF Taken
  <2>4. QED
    BY <2>1, <2>2, <2>3, <1>3
<1>6. QED
  BY <1>3, <1>4, <1>5, Zenon DEF QueueInv

\* What was delivered is older than an event just taken.
LEMMA TakenSeen ==
  ASSUME TypeOK, NEW u \in Topics, SeenInv(u), SequenceInv(u), ~Notifying(u),
         seen'[u] = seen[u], lastSequence'[u] = lastSequence[u],
         Taken(u)' = Taken(u) + 1
  PROVE  SeenInv(u)' /\ SequenceInv(u)'
<1>1. /\ \A s \in Subscribers : \A i \in 1 .. Len(seen[u][s]) : seen[u][s][i].id \in Nat
      /\ Taken(u) \in Int
  BY TopicTypes, Zenon
<1>2. SeenInv(u)'
  BY <1>1 DEF SeenInv
<1>3. SequenceInv(u)'
  BY Zenon DEF SequenceInv
<1>4. QED
  BY <1>2, <1>3, Zenon

\* The event taken is newer than everything delivered before.
LEMMA ReceiveStep ==
  ASSUME IInv, NEW t \in Topics, NEW q \in SeqNos, Receive(t, q), NEW u \in Topics
  PROVE  TopicInv(u)'
<1>1. CASE u # t
  BY <1>1, Frame, Zenon DEF Same, IInv, TypeOK, Receive
<1>2. CASE u = t
  <2>1. TopicInv(u) /\ TypeOK
    BY Zenon DEF IInv
  <2>2. /\ LogInstalled /\ ~Notifying(u) /\ Notifying(u)'
        /\ event'[u].id = Head(queue[u])
        /\ handler[u] = "waiting" /\ handler'[u] = "notifying"
        /\ subscribers'[u] = subscribers[u] /\ lastSequence'[u] = lastSequence[u]
        /\ done'[u] = done[u] /\ joined'[u] = joined[u] /\ seen'[u] = seen[u]
        /\ cut'[u] = cut[u]
    BY <1>2, <2>1, Zenon DEF Receive, Survives, TypeOK, Notifying
  <2>r. present'[u] = subscribers'[u] /\ visited'[u] = {}
    BY <1>2, <2>1, Zenon DEF Receive, TypeOK
  <2>3. Taken(u)' = Taken(u) + 1 /\ Head(queue[u]) = Taken(u) + 1 /\ QueueInv(u)'
    BY ZenonT(30), <1>2, <2>1, TakeHead DEF Receive, TypeOK
  <2>4. HandlerInv(u)'
    BY <2>1, <2>2, <2>3, TopicTypes DEF TopicInv, HandlerInv
  <2>5. SeenInv(u)' /\ SequenceInv(u)' /\ RangeInv(u)'
    <3>1. SeenInv(u) /\ SequenceInv(u)
      BY <2>1, Zenon DEF TopicInv
    <3>2. SeenInv(u)' /\ SequenceInv(u)'
      BY Zenon, <2>1, <2>2, <2>3, <3>1, TakenSeen
    <3>3. RangeInv(u)'
      BY <2>r, Zenon DEF RangeInv
    <3>4. QED
      BY <3>2, <3>3, Zenon
  <2>6. OrderInv(u)' /\ ExpiryInv(u)' /\ LossInv(u)'
    BY <2>1, <2>2, SeenFrame, LossFrame, Zenon DEF TopicInv
  <2>8. CutInv(u)'
    <3>1. \A k \in cut'[u] : k < Taken(u)' /\ k <= Taken(u)'
      BY <2>1, <2>2, <2>3, CutOlder, Zenon DEF TopicInv
    <3>2. event'[u].id = Taken(u)' /\ Taken(u) \in Int
      BY <2>1, <2>2, <2>3, TopicTypes, Zenon
    <3>3. ~(Taken(u) + 1 < Taken(u) + 1)
      BY <3>2
    <3>4. ~Cut(u)'
      BY <2>3, <3>1, <3>2, <3>3, Zenon DEF Cut
    <3>5. QED
      BY <3>1, <3>4, Zenon DEF CutInv
  <2>7. QED
    BY <2>1, <2>2, <2>3, <2>4, <2>5, <2>6, <2>8, Zenon DEF TopicInv
<1>3. QED
  BY <1>1, <1>2, Zenon

\* An event the handler dies of was taken and is never done with.
LEMMA ReceiveDiesStep ==
  ASSUME IInv, NEW t \in Topics, ReceiveDies(t), NEW u \in Topics
  PROVE  TopicInv(u)'
<1>1. CASE u # t
  BY <1>1, Frame, Zenon DEF Same, IInv, TypeOK, ReceiveDies
<1>2. CASE u = t
  <2>1. TopicInv(u) /\ TypeOK
    BY Zenon DEF IInv
  <2>2. /\ ~Notifying(u) /\ ~Notifying(u)'
        /\ handler[u] = "waiting" /\ handler'[u] = "dead"
        /\ subscribers'[u] = subscribers[u] /\ lastSequence'[u] = lastSequence[u]
        /\ done'[u] = done[u] /\ joined'[u] = joined[u] /\ seen'[u] = seen[u]
        /\ cut'[u] = cut[u]
    BY <1>2, <2>1, Zenon DEF ReceiveDies, TypeOK, Notifying
  <2>r. ~Notifying(u)'
    BY <2>2, Zenon
  <2>3. Taken(u)' = Taken(u) + 1 /\ QueueInv(u)'
    BY Zenon, <1>2, <2>1, TakeHead DEF ReceiveDies, TypeOK
  <2>4. HandlerInv(u)'
    <3>1. /\ done[u] = Taken(u) /\ Taken(u) \in Int
          /\ ~LogInstalled => done[u] = 0
      BY <2>1, <2>2, TopicTypes, Zenon DEF TopicInv, HandlerInv
    <3>2. done'[u] = Taken(u)' - 1
      BY <2>2, <2>3, <3>1
    <3>3. QED
      BY <2>2, <3>1, <3>2, Zenon DEF HandlerInv
  <2>5. SeenInv(u)' /\ SequenceInv(u)' /\ RangeInv(u)'
    <3>1. SeenInv(u) /\ SequenceInv(u)
      BY <2>1, Zenon DEF TopicInv
    <3>2. SeenInv(u)' /\ SequenceInv(u)'
      BY Zenon, <2>1, <2>2, <2>3, <3>1, TakenSeen
    <3>3. RangeInv(u)'
      BY <2>r, Zenon DEF RangeInv
    <3>4. QED
      BY <3>2, <3>3, Zenon
  <2>6. OrderInv(u)' /\ ExpiryInv(u)' /\ LossInv(u)'
    BY <2>1, <2>2, SeenFrame, LossFrame, Zenon DEF TopicInv
  <2>8. CutInv(u)'
    BY <2>1, <2>2, <2>3, CutOlder, Zenon DEF TopicInv, CutInv
  <2>7. QED
    BY <2>1, <2>2, <2>3, <2>4, <2>5, <2>6, <2>8, Zenon DEF TopicInv
<1>3. QED
  BY <1>1, <1>2, Zenon

\* Ending the Range raises lastSequence over the event it was about.
LEMMA EndStep ==
  ASSUME IInv, NEW t \in Topics, EndNotify(t), NEW u \in Topics
  PROVE  TopicInv(u)'
<1>1. CASE u # t
  BY <1>1, Frame, Zenon DEF Same, IInv, TypeOK, EndNotify
<1>2. CASE u = t
  <2>1. TopicInv(u) /\ TypeOK
    BY Zenon DEF IInv
  <2>2. /\ Notifying(u) /\ ~Notifying(u)' /\ handler'[u] = "waiting"
        /\ present[u] \subseteq visited[u] \/ Cut(u)
        /\ lastSequence'[u] = Larger(Float64(event[u].seq), Float64(lastSequence[u]))
        /\ done'[u] = event[u].id
        /\ queue'[u] = queue[u] /\ sent'[u] = sent[u]
        /\ subscribers'[u] = subscribers[u] /\ joined'[u] = joined[u]
        /\ seen'[u] = seen[u] /\ cut'[u] = cut[u]
    BY <1>2, <2>1, Zenon DEF EndNotify, RangeOver, TypeOK, Notifying
  <2>r. ~Notifying(u)' /\ seen'[u] = seen[u]
    BY <2>2, Zenon
  <2>d. /\ done'[u] = event[u].id /\ seen'[u] = seen[u]
        /\ subscribers'[u] = subscribers[u] /\ joined'[u] = joined[u]
        /\ cut'[u] = cut[u]
    BY <2>2, Zenon
  <2>3. Taken(u)' = Taken(u)
    BY <2>2, Zenon DEF Taken
  <2>4. QueueInv(u)' /\ HandlerInv(u)'
    <3>1. QueueInv(u) /\ HandlerInv(u) /\ Taken(u) \in Int
      BY <2>1, TopicTypes, Zenon DEF TopicInv
    <3>2. QueueInv(u)'
      BY <2>2, <2>3, <3>1, Zenon DEF QueueInv
    <3>3. HandlerInv(u)'
      BY <2>2, <2>3, <3>1, Zenon DEF HandlerInv
    <3>4. QED
      BY <3>2, <3>3, Zenon
  <2>5. SeenInv(u)' /\ RangeInv(u)'
    <3>1. SeenInv(u)
      BY <2>1, Zenon DEF TopicInv
    <3>2. SeenInv(u)'
      BY <2>r, <2>3, <3>1, Zenon DEF SeenInv
    <3>3. RangeInv(u)'
      BY <2>r, Zenon DEF RangeInv
    <3>4. QED
      BY <3>2, <3>3, Zenon
  <2>6. SequenceInv(u)'
    <3>1. ASSUME NEW s \in Subscribers, NEW i \in 1 .. Len(seen[u][s])
          PROVE  Float64(seen[u][s][i].seq) <= lastSequence'[u]
      <4> DEFINE x == Float64(seen[u][s][i].seq)
                 y == Float64(event[u].seq)
      <4>1. x \in Int /\ y \in Int /\ lastSequence[u] \in Int
        BY Zenon, <2>1, TopicTypes, FloatFacts
      <4>2. x <= lastSequence[u] \/ x <= y
        <5>1. SequenceInv(u)
          BY <2>1, Zenon DEF TopicInv
        <5>2. QED
          BY <5>1, Zenon DEF SequenceInv
      <4>3. lastSequence'[u] = Larger(y, lastSequence[u])
        BY <2>1, <2>2, Zenon DEF TopicInv
      <4> HIDE DEF x, y
      <4>4. x <= Larger(y, lastSequence[u])
        BY <4>1, <4>2 DEF Larger
      <4>5. QED
        BY <4>3, <4>4, Zenon DEF x
    <3>2. QED
      BY <2>r, <3>1, Zenon DEF SequenceInv
  <2>9. Float64(lastSequence'[u]) = lastSequence'[u]
    <3>1. lastSequence[u] \in Int /\ event[u].seq \in Int
      BY <2>1, TopicTypes, Zenon
    <3>2. \/ lastSequence'[u] = Float64(event[u].seq)
          \/ lastSequence'[u] = Float64(lastSequence[u])
      BY <2>2, Zenon DEF Larger
    <3>3. QED
      BY <3>1, <3>2, FloatFacts, Zenon
  <2>7. LossInv(u)'
    <3>1. ASSUME NEW s \in subscribers[u] \ IgnoreExpire,
                 NEW k \in joined[u][s] + 1 .. event[u].id
          PROVE  Got(u, s, k) \/ Missed(u, s, k)
      <4>0. HandlerInv(u) /\ RangeInv(u) /\ CutInv(u) /\ LossInv(u) /\ Notifying(u)
        BY <2>1, <2>2, Zenon DEF TopicInv
      <4>1. s \in Subscribers /\ joined[u][s] \in Nat /\ done[u] \in Nat
        BY <2>1, TopicTypes, Zenon
      <4>2. event[u].id = done[u] + 1
        <5>1. Taken(u) \in Int
          BY <2>1, TopicTypes, Zenon
        <5>2. QED
          BY <4>0, <5>1 DEF HandlerInv, Notifying
      <4>3. CASE k = event[u].id
        <5>1. s \in present[u]
          BY <4>0, <4>1, <4>2, <4>3 DEF RangeInv
        <5>2. CASE s \in visited[u]
          BY <4>0, <4>3, <5>2, Zenon DEF RangeInv
        <5>3. CASE s \notin visited[u]
          <6>1. Cut(u)
            BY <2>2, <5>1, <5>3, Zenon
          <6>2. PICK r \in Faulty \cap visited[u] : Got(u, r, event[u].id)
            BY <4>0, <6>1, Zenon DEF CutInv
          <6>3. QED
            BY <4>3, <5>3, <6>1, <6>2, Zenon DEF Missed, Cut
        <5>4. QED
          BY <5>2, <5>3, Zenon
      <4>4. CASE k # event[u].id
        BY <4>0, <4>1, <4>2, <4>4 DEF LossInv
      <4>5. QED
        BY <4>3, <4>4, Zenon
    <3>2. QED
      BY <2>d, <3>1 DEF LossInv, Missed, Got
  <2>10. CutInv(u)'
    BY <2>1, <2>2, <2>3, CutIdle, Zenon DEF TopicInv
  <2>8. QED
    BY Zenon, <2>1, <2>2, <2>4, <2>5, <2>6, <2>7, <2>9, <2>10, SeenFrame DEF TopicInv
<1>3. QED
  BY <1>1, <1>2, Zenon

-----------------------------------------------------------------------------
(* The callback, and the theorems. *)

\* A callback appends the event in hand, or nothing when it is expired.
LEMMA NotifyStep ==
  ASSUME IInv, NEW t \in Topics, NEW s \in Subscribers, NEW p \in BOOLEAN,
         Notify(t, s, p), NEW u \in Topics
  PROVE  TopicInv(u)'
<1>1. CASE u # t
  BY <1>1, Frame, Zenon DEF Same, IInv, TypeOK, Notify
<1>2. CASE u = t
  <2>1. TopicInv(u) /\ TypeOK
    BY Zenon DEF IInv
  <2>2. /\ Notifying(u) /\ Notifying(u)' /\ s \in subscribers[u] \ visited[u]
        /\ visited'[u] = visited[u] \cup {s}
        /\ queue'[u] = queue[u] /\ sent'[u] = sent[u] /\ event'[u] = event[u]
        /\ done'[u] = done[u]
        /\ present'[u] = present[u] /\ handler'[u] = handler[u]
        /\ lastSequence'[u] = lastSequence[u]
        /\ subscribers'[u] = subscribers[u] /\ joined'[u] = joined[u]
    BY <1>2, <2>1, Zenon DEF Notify, Reachable, TypeOK, Notifying
  <2>c. /\ ~Cut(u)
        /\ cut'[u] = cut[u] \/ cut'[u] = cut[u] \cup {event[u].id}
        /\ cut'[u] # cut[u] => s \in Faulty /\ ~Expired(u, s)
    <3>1. cut'[u] = IF p THEN cut[u] \cup {event[u].id} ELSE cut[u]
      BY <1>2, <2>1, Zenon DEF Notify, TypeOK
    <3>2. ~Cut(u) /\ (p => s \in Faulty /\ ~Expired(u, s))
      BY <1>2, Zenon DEF Notify, Reachable
    <3>3. QED
      BY <3>1, <3>2, Zenon
  <2>3. \A r \in Subscribers \ {s} : seen'[u][r] = seen[u][r]
    BY <1>2, <2>1, Zenon DEF Notify, TypeOK
  <2>4. seen'[u][s] = IF Expired(u, s) THEN seen[u][s]
                      ELSE Append(seen[u][s], event[u])
    BY <1>2, <2>1, Zenon DEF Notify, TypeOK
  <2>5. Taken(u)' = Taken(u) /\ Taken(u) \in Int /\ event[u].id = Taken(u)
    BY <2>1, <2>2, TopicTypes, Zenon DEF Taken, TopicInv, HandlerInv
  <2>6. QueueInv(u)' /\ HandlerInv(u)'
    <3>1. QueueInv(u) /\ HandlerInv(u)
      BY <2>1, Zenon DEF TopicInv
    <3>2. QueueInv(u)'
      BY <2>2, <2>5, <3>1, Zenon DEF QueueInv
    <3>3. HandlerInv(u)'
      BY <2>2, <2>5, <3>1, Zenon DEF HandlerInv
    <3>4. QED
      BY <3>2, <3>3, Zenon
  <2>7. /\ seen[u][s] \in Seq(Event) /\ Len(seen[u][s]) \in Nat
        /\ event[u] \in Event /\ event[u].seq \in Int /\ lastSequence[u] \in Int
        /\ \A i \in 1 .. Len(seen[u][s]) :
             seen[u][s][i].id \in Nat /\ seen[u][s][i].seq \in Int
    <3>1. seen[u][s] \in Seq(Event) /\ event[u] \in Event
      BY <2>1, TopicTypes, Zenon
    <3>2. event[u].seq \in Int /\ lastSequence[u] \in Int
      BY <2>1, TopicTypes, Zenon
    <3>3. \A i \in 1 .. Len(seen[u][s]) :
            seen[u][s][i].id \in Nat /\ seen[u][s][i].seq \in Int
      BY <2>1, TopicTypes, Zenon
    <3>4. Len(seen[u][s]) \in Nat
      BY <3>1
    <3>5. QED
      BY <3>1, <3>2, <3>3, <3>4, Zenon
  \* What s had before: older than the event in hand, not beyond lastSequence.
  <2>8. \A i \in 1 .. Len(seen[u][s]) :
          /\ seen[u][s][i].id < Taken(u)
          /\ Float64(seen[u][s][i].seq) <= lastSequence[u]
    BY <2>1, <2>2, Zenon DEF TopicInv, SeenInv, SequenceInv
  <2>9. CASE Expired(u, s)
    <3>1. \A r \in Subscribers : seen'[u][r] = seen[u][r]
      BY <2>3, <2>4, <2>9, Zenon
    <3>0. SeenInv(u) /\ SequenceInv(u) /\ OrderInv(u) /\ ExpiryInv(u)
      BY <2>1, Zenon DEF TopicInv
    <3>2. SeenInv(u)' /\ SequenceInv(u)'
      <4>1. /\ Notifying(u) /\ visited[u] \subseteq visited'[u]
            /\ event'[u] = event[u] /\ lastSequence'[u] = lastSequence[u]
        BY <2>2, Zenon
      <4>2. SeenInv(u)'
        BY <2>5, <3>0, <3>1, <4>1, Zenon DEF SeenInv
      <4>3. SequenceInv(u)'
        BY <2>2, <3>0, <3>1, <4>1, ZenonT(30) DEF SequenceInv
      <4>4. QED
        BY <4>2, <4>3, Zenon
    <3>3. RangeInv(u)'
      <4>1. s \in IgnoreExpire /\ subscribers[u] \subseteq Subscribers
        BY <2>1, <2>9, TopicTypes, Zenon DEF Expired
      <4>2. QED
        BY <2>1, <2>2, <3>1, <4>1 DEF TopicInv, RangeInv, Got
    <3>4. OrderInv(u)' /\ ExpiryInv(u)'
      <4>1. IgnoreExpire \subseteq Subscribers
        BY PublisherAssumption, Zenon
      <4>2. QED
        BY Zenon, <3>0, <3>1, <4>1 DEF OrderInv, ExpiryInv
    <3>5. LossInv(u)'
      <4>1. subscribers[u] \subseteq Subscribers
        BY <2>1, TopicTypes, Zenon
      <4>2. \A r \in Subscribers : \A k : Got(u, r, k) => Got(u, r, k)'
        BY <3>1, Zenon DEF Got
      <4>3. \A r \in Subscribers : \A k : Missed(u, r, k) => Missed(u, r, k)'
        BY <2>9, <2>c, <4>2, PublisherAssumption, Zenon DEF Missed
      <4>4. QED
        BY <2>1, <2>2, <4>1, <4>2, <4>3, Zenon DEF TopicInv, LossInv
    <3>7. CutInv(u)'
      BY <2>1, <2>2, <2>5, <2>9, <2>c, Zenon DEF TopicInv, CutInv, Cut
    <3>6. QED
      BY <2>1, <2>2, <2>6, <3>2, <3>3, <3>4, <3>5, <3>7, Zenon DEF TopicInv
  <2>10. CASE ~Expired(u, s)
    <3> DEFINE n == Len(seen[u][s])
    <3>1. /\ Len(seen'[u][s]) = n + 1
          /\ seen'[u][s][n + 1] = event[u]
          /\ \A i \in 1 .. n : seen'[u][s][i] = seen[u][s][i]
      <4>1. seen'[u][s] = Append(seen[u][s], event[u])
        BY <2>4, <2>10, Zenon
      <4>2. QED
        BY <4>1, <2>7
    <3>2. n \in Nat /\ \A i \in 1 .. n + 1 : i = n + 1 \/ i \in 1 .. n
      BY <2>7
    \* Old entries are below the event in hand, which is the new one.
    <3>0. \A i \in 1 .. Len(seen'[u][s]) :
            \/ i = n + 1 /\ seen'[u][s][i] = event[u]
            \/ i \in 1 .. n /\ seen'[u][s][i] = seen[u][s][i]
      BY <3>1, <3>2, Zenon
    <3> HIDE DEF n
    <3>3. SeenInv(u)'
      <4>1. ASSUME NEW r \in Subscribers, NEW i \in 1 .. Len(seen'[u][r])
            PROVE  /\ seen'[u][r][i].id <= Taken(u)
                   /\ r \notin visited'[u] => seen'[u][r][i].id < Taken(u)
        <5>1. CASE r = s
          <6>1. seen'[u][s][i].id <= Taken(u)
            <7>1. i = n + 1 => seen'[u][s][i].id = Taken(u)
              BY <2>5, <3>1, Zenon
            <7>2. i \in 1 .. n => seen'[u][s][i].id < Taken(u)
              BY <2>8, <3>0, <3>1, Zenon DEF n
            <7>3. i \in 1 .. n => seen'[u][s][i].id \in Nat
              BY Zenon, <2>7, <3>1 DEF n
            <7>4. i = n + 1 \/ i \in 1 .. n
              BY <5>1, <3>0, Zenon
            <7>5. QED
              BY <7>1, <7>2, <7>3, <7>4, <2>5
          <6>2. QED
            BY <5>1, <6>1, <2>2, Zenon
        <5>2. CASE r # s
          BY <5>2, <2>1, <2>2, <2>3, ZenonT(30) DEF TopicInv, SeenInv
        <5>3. QED
          BY <5>1, <5>2, Zenon
      <4>2. QED
        BY <4>1, <2>5, Zenon DEF SeenInv
    <3>4. SequenceInv(u)'
      <4>1. ASSUME NEW r \in Subscribers, NEW i \in 1 .. Len(seen'[u][r])
            PROVE  \/ Float64(seen'[u][r][i].seq) <= lastSequence[u]
                   \/ /\ r \in visited'[u]
                      /\ Float64(seen'[u][r][i].seq) <= Float64(event[u].seq)
        <5>1. CASE r = s
          <6>1. s \in visited'[u] /\ Float64(event[u].seq) <= Float64(event[u].seq)
            <7>1. Float64(event[u].seq) \in Int
              BY <2>7, FloatFacts, Zenon
            <7>2. Float64(event[u].seq) <= Float64(event[u].seq)
              BY <7>1, LeqReflexive, Zenon
            <7>3. QED
              BY <2>2, <7>2, Zenon
          <6>2. QED
            BY <5>1, <6>1, <2>8, <3>0, Zenon DEF n
        <5>2. CASE r # s
          BY <5>2, <2>1, <2>2, <2>3 DEF TopicInv, SequenceInv
        <5>3. QED
          BY <5>1, <5>2, Zenon
      <4>2. QED
        BY <4>1, <2>2, Zenon DEF SequenceInv
    <3>5. \A r \in Subscribers, k \in Nat : Got(u, r, k) => Got(u, r, k)'
      <4>1. ASSUME NEW r \in Subscribers, NEW k \in Nat,
                   NEW i \in 1 .. Len(seen[u][r]), seen[u][r][i].id = k
            PROVE  i \in 1 .. Len(seen'[u][r]) /\ seen'[u][r][i].id = k
        <5>1. CASE r = s
          <6>1. i \in 1 .. n /\ i \in 1 .. Len(seen'[u][s])
            BY <4>1, <5>1, <3>1, <3>2 DEF n
          <6>2. QED
            BY <4>1, <5>1, <6>1, <3>1, Zenon
        <5>2. CASE r # s
          BY <4>1, <5>2, <2>3, Zenon
        <5>3. QED
          BY <5>1, <5>2, Zenon
      <4>2. QED
        BY <4>1, SMTT(30) DEF Got
    <3>6. Got(u, s, event[u].id)'
      <4>1. n + 1 \in 1 .. Len(seen'[u][s])
        BY <2>7, <3>1 DEF n
      <4>2. QED
        BY <4>1, <2>2, <3>1, Zenon DEF Got
    <3>7. RangeInv(u)'
      <4>1. subscribers[u] \subseteq Subscribers /\ event[u].id \in Nat
        BY <2>1, TopicTypes, Zenon
      <4>2. \A r \in visited'[u] \ IgnoreExpire : Got(u, r, event[u].id)'
        BY <2>1, <2>2, <3>5, <3>6, <4>1, Zenon DEF TopicInv, RangeInv
      <4>3. QED
        BY <2>1, <2>2, <4>2, Zenon DEF TopicInv, RangeInv
    <3>8. OrderInv(u)'
      <4>1. ASSUME NEW r \in Subscribers, NEW i \in 1 .. Len(seen'[u][r]),
                   NEW j \in 1 .. Len(seen'[u][r]), i < j
            PROVE  seen'[u][r][i].id < seen'[u][r][j].id
        <5>1. CASE r = s /\ j = n + 1
          <6>1. i \in 1 .. n
            BY <4>1, <5>1, <2>7, <3>1 DEF n
          <6>2. QED
            BY Zenon, <5>1, <6>1, <2>5, <2>8, <3>1 DEF n
        <5>2. CASE r = s /\ j # n + 1
          <6>1. i \in 1 .. n /\ j \in 1 .. n
            BY <4>1, <5>2, <2>7, <3>1, SMTT(30) DEF n
          <6>2. QED
            BY Zenon, <4>1, <5>2, <6>1, <2>1, <3>1 DEF TopicInv, OrderInv, n
        <5>3. CASE r # s
          BY <4>1, <5>3, <2>1, <2>3, Zenon DEF TopicInv, OrderInv
        <5>4. QED
          BY <5>1, <5>2, <5>3, Zenon
      <4>2. QED
        BY <4>1, Zenon DEF OrderInv
    <3>9. ExpiryInv(u)'
      <4>1. ASSUME NEW r \in IgnoreExpire, NEW i \in 1 .. Len(seen'[u][r]),
                   NEW j \in 1 .. Len(seen'[u][r]), i < j
            PROVE  Float64(seen'[u][r][i].seq) <= seen'[u][r][j].seq
        <5>1. CASE r = s /\ j = n + 1
          <6>1. i \in 1 .. n
            BY <4>1, <5>1, <2>7, <3>1 DEF n
          <6>2. event[u].seq >= lastSequence[u]
            BY <4>1, <5>1, <2>7, <2>10 DEF Expired
          <6>3. /\ Float64(seen[u][s][i].seq) <= lastSequence[u]
                /\ Float64(seen[u][s][i].seq) \in Int
            BY Zenon, <6>1, <2>7, <2>8, FloatFacts DEF n
          <6>4. Float64(seen[u][s][i].seq) <= event[u].seq
            BY <6>2, <6>3, <2>7
          <6>5. QED
            BY <5>1, <6>1, <6>4, <3>1, Zenon
        <5>2. CASE r = s /\ j # n + 1
          <6>1. i \in 1 .. n /\ j \in 1 .. n
            BY <4>1, <5>2, <2>7, <3>1, SMTT(30) DEF n
          <6>2. QED
            BY Zenon, <4>1, <5>2, <6>1, <2>1, <3>1 DEF TopicInv, ExpiryInv, n
        <5>3. CASE r # s
          BY <4>1, <5>3, <2>1, <2>3, PublisherAssumption, Zenon DEF TopicInv, ExpiryInv
        <5>4. QED
          BY <5>1, <5>2, <5>3, Zenon
      <4>2. QED
        BY <4>1, Zenon DEF ExpiryInv
    <3>10. LossInv(u)'
      <4>1. /\ subscribers[u] \subseteq Subscribers /\ done[u] \in Nat
            /\ \A r \in Subscribers : joined[u][r] \in Nat
        BY <2>1, TopicTypes, Zenon
      <4>2. ASSUME NEW r \in subscribers[u] \ IgnoreExpire,
                   NEW k \in joined[u][r] + 1 .. done[u]
            PROVE  Got(u, r, k)' \/ Missed(u, r, k)'
        <5>1. Got(u, r, k) \/ Missed(u, r, k)
          BY <2>1, Zenon DEF TopicInv, LossInv
        <5>2. k \in Nat
          BY <4>1
        <5>3. Missed(u, r, k) => Missed(u, r, k)'
          BY <2>c, <3>5, <5>2, PublisherAssumption, Zenon DEF Missed
        <5>4. QED
          BY <3>5, <4>1, <5>1, <5>2, <5>3, Zenon
      <4>3. QED
        BY <2>2, <4>2, Zenon DEF LossInv
    <3>12. CutInv(u)'
      <4>1. Taken(u) <= Taken(u)
        BY <2>5, LeqReflexive, Zenon
      <4>2. \A k \in cut'[u] : k <= Taken(u)'
        BY <2>1, <2>5, <2>c, <4>1, Zenon DEF TopicInv, CutInv
      <4>3. Cut(u)' => s \in Faulty
        BY <2>2, <2>c, Zenon DEF Cut
      <4>4. event'[u].id = event[u].id /\ s \in visited'[u]
        BY <2>2, Zenon
      <4>5. QED
        BY <3>6, <4>2, <4>3, <4>4, Zenon DEF CutInv
    <3>11. QED
      BY <2>1, <2>2, <2>6, <3>3, <3>4, <3>7, <3>8, <3>9, <3>10, <3>12, ZenonT(30) DEF TopicInv
  <2>11. QED
    BY <2>9, <2>10, Zenon
<1>3. QED
  BY <1>1, <1>2, Zenon

-----------------------------------------------------------------------------
(* The invariant holds before anything is registered or published.            *)
LEMMA InitInv == Init => IInv
<1> SUFFICES ASSUME Init PROVE IInv
  OBVIOUS
<1>1. TypeOK
  BY TypeInit, Zenon
<1>2. ASSUME NEW t \in Topics PROVE TopicInv(t)
  <2>1. /\ queue[t] = <<>> /\ sent[t] = 0 /\ done[t] = 0
        /\ handler[t] = "unstarted" /\ subscribers[t] = {} /\ cut[t] = {}
        /\ \A s \in Subscribers : seen[t][s] = <<>>
    BY Zenon DEF Init
  <2>2. Taken(t) = 0 /\ ~Notifying(t)
    <3>1. Len(queue[t]) = 0 /\ sent[t] = 0
      BY <2>1, Zenon
    <3>2. Taken(t) = 0
      BY <3>1 DEF Taken
    <3>3. QED
      BY <2>1, <3>2, Zenon DEF Notifying
  <2>3. QueueInv(t) /\ HandlerInv(t) /\ RangeInv(t) /\ LossInv(t)
    BY <2>1, <2>2 DEF QueueInv, HandlerInv, RangeInv, LossInv
  <2>4. SeenInv(t) /\ SequenceInv(t) /\ OrderInv(t) /\ ExpiryInv(t)
    <3>1. \A s \in Subscribers : 1 .. Len(seen[t][s]) = {}
      BY <2>1
    <3>2. QED
      BY <3>1, PublisherAssumption, ZenonT(30) DEF SeenInv, SequenceInv, OrderInv, ExpiryInv
  <2>5. Float64(lastSequence[t]) = lastSequence[t]
    <3>1. lastSequence[t] = -1
      BY Zenon DEF Init
    <3>2. Float64(-1) = -1
      BY SequenceAssumption DEF Float64
    <3>3. QED
      BY <3>1, <3>2, Zenon
  <2>7. CutInv(t)
    BY <2>1, <2>2, Zenon DEF CutInv
  <2>6. QED
    BY <2>3, <2>4, <2>5, <2>7, Zenon DEF TopicInv
<1>3. QED
  BY <1>1, <1>2, Zenon DEF IInv

\* IInv is inductive: one lemma above for each action of Next.
THEOREM Inductive == Spec => []IInv
<1>1. IInv /\ [Next]_vars => IInv'
  <2> SUFFICES ASSUME IInv, [Next]_vars PROVE IInv'
    OBVIOUS
  <2>1. TypeOK'
    BY TypeStep, Zenon DEF IInv
  <2>2. ASSUME NEW u \in Topics PROVE TopicInv(u)'
    <3>1. CASE UNCHANGED vars
      BY <3>1, Frame, Zenon DEF vars, Same, IInv
    <3>4. CASE Tick
      BY <3>4, Frame, Zenon DEF Tick, Same, IInv
    <3>2. CASE Next /\ ~Tick
      BY <3>2, RegisterStep, SendStep, AddStep, NotifyStep, ReceiveStep,
         ReceiveDiesStep, EndStep, Zenon DEF Next, HandlerStep
    <3>3. QED
      BY <3>1, <3>2, <3>4, Zenon
  <2>3. QED
    BY <2>1, <2>2, Zenon DEF IInv
<1>2. QED
  BY InitInv, <1>1, PTL DEF Spec

\* notifySubscriber hands the events of a topic to each subscriber in the order
\* of their acceptance and at most once.
THEOREM OnceInOrder == Spec => []DeliveredOnceInOrder
<1>1. ASSUME IInv PROVE DeliveredOnceInOrder
  <2>1. \A t \in Topics, s \in Subscribers : DOMAIN seen[t][s] = 1 .. Len(seen[t][s])
    BY <1>1, TopicTypes DEF IInv
  <2>2. QED
    BY <1>1, <2>1 DEF IInv, TopicInv, OrderInv, DeliveredOnceInOrder
<1>2. QED
  BY <1>1, Inductive, PTL

\* The filter on lastSequence keeps what such a subscriber sees non-decreasing.
THEOREM NoExpired == Spec => []NoExpiredDelivery
<1>1. ASSUME IInv PROVE NoExpiredDelivery
  <2>1. \A t \in Topics, s \in Subscribers : DOMAIN seen[t][s] = 1 .. Len(seen[t][s])
    BY <1>1, TopicTypes DEF IInv
  <2>2. \A t \in Topics : ExpiryInv(t)
    BY <1>1, Zenon DEF IInv, TopicInv
  <2>3. IgnoreExpire \subseteq Subscribers
    BY PublisherAssumption, Zenon
  <2>4. QED
    BY <2>1, <2>2, <2>3, Zenon DEF ExpiryInv, NoExpiredDelivery
<1>2. QED
  BY <1>1, Inductive, PTL

\* The Range over a concurrently growing map skips nobody who was there when
\* the event was accepted, unless another subscriber panicked on it.
THEOREM NoLoss == Spec => []NothingLost
<1>1. IInv => NothingLost
  BY Zenon DEF IInv, TopicInv, LossInv, Missed, NothingLost
<1>2. QED
  BY <1>1, Inductive, PTL

\* Whatever the subscribers do, what was accepted and is not dispatched fits
\* into the channel and the hands of the handler.
THEOREM Backlog == Spec => []AcceptedBounded
<1>1. ASSUME IInv PROVE AcceptedBounded
  <2>1. ASSUME NEW t \in Topics PROVE sent[t] <= done[t] + ring[t] + 1
    <3>1. /\ Taken(t) \in Int /\ done[t] \in Nat
          /\ done[t] = Taken(t) - 1 \/ done[t] = Taken(t)
      BY <1>1, TopicTypes, Zenon DEF IInv, TopicInv, HandlerInv
    <3>2. /\ Len(queue[t]) <= ring[t] /\ ring[t] \in Nat
          /\ Len(queue[t]) \in Nat /\ sent[t] \in Nat
      BY <1>1, TopicTypes, Zenon DEF IInv, TypeOK
    <3>3. QED
      BY <3>1, <3>2, SMTT(30) DEF Taken
  <2>2. QED
    BY <2>1, Zenon DEF AcceptedBounded
<1>2. QED
  BY <1>1, Inductive, PTL

\* As the package stands, with no logger, nothing is ever dispatched, and so a
\* publisher accepts at most one event more than its channel holds.
THEOREM ShippedBound ==
  Spec => [](~LogInstalled => \A t \in Topics : sent[t] <= ring[t] + 1)
<1> DEFINE Bound == ~LogInstalled => \A t \in Topics : sent[t] <= ring[t] + 1
<1>1. ASSUME IInv, AcceptedBounded PROVE Bound
  <2>1. ASSUME ~LogInstalled, NEW t \in Topics PROVE sent[t] <= ring[t] + 1
    <3>1. done[t] = 0
      BY <1>1, <2>1, Zenon DEF IInv, TopicInv, HandlerInv
    <3>2. ring[t] \in Nat /\ sent[t] \in Nat
      BY <1>1, Zenon DEF IInv, TypeOK
    <3>3. QED
      BY <1>1, <3>1, <3>2 DEF AcceptedBounded
  <2>2. QED
    BY <2>1, Zenon
<1>2. QED
  BY <1>1, Inductive, Backlog, PTL

-----------------------------------------------------------------------------
(* The shared publisher. *)

\* The events that the handler has taken from the channel.
SlowTaken == slowSent - Len(slowQueue)

Heard(s, e) == \E i \in DOMAIN slowSeen[s] : slowSeen[s][i] = e

ShareTyped ==
  /\ topics \subseteq SlowTopics
  /\ listeners \in [SlowTopics -> SUBSET Listeners]
  /\ slowQueue \in Seq(SlowEvent)
  /\ slowEvent \in SlowEvent
  /\ reached \subseteq Listeners
  /\ callee \subseteq reached
  /\ slowSent \in Nat
  /\ slowDone \subseteq SlowEvent
  /\ slowJoined \in [SlowTopics -> [Listeners -> Nat]]
  /\ slowSeen \in [Listeners -> Seq(SlowEvent)]

\* The channel holds the last events accepted, in order.
SlowNumbered ==
  /\ Len(slowQueue) <= slowSent
  /\ \A i \in 1 .. Len(slowQueue) : slowQueue[i].id = SlowTaken + i

\* OnEvent runs within a Range, for a listener of the event's topic.
Calling ==
  /\ callee # {} => slowHandler = "notifying"
  /\ callee \subseteq listeners[slowEvent.topic]
  /\ \A t \in SlowTopics \ topics : listeners[t] = {}

\* The event of a Range is the last one taken; those it has reached have it,
\* and the others only earlier ones.
Ranging ==
  slowHandler = "notifying" =>
    /\ slowEvent.id = SlowTaken
    /\ \A s \in reached : Heard(s, slowEvent)
    /\ \A s \in Listeners \ reached : \A i \in DOMAIN slowSeen[s] :
         slowSeen[s][i].id < SlowTaken

SlowPast ==
  /\ \A s \in Listeners : \A i \in DOMAIN slowSeen[s] : slowSeen[s][i].id <= SlowTaken
  /\ \A e \in slowDone : e.id <= SlowTaken

InOrder ==
  \A s \in Listeners : \A i, j \in DOMAIN slowSeen[s] :
    i < j => slowSeen[s][i].id < slowSeen[s][j].id

NoneLost ==
  \A e \in slowDone : \A s \in listeners[e.topic] :
    e.id > slowJoined[e.topic][s] => Heard(s, e)

ShareInv ==
  /\ ShareTyped /\ SlowNumbered /\ Calling /\ Ranging /\ SlowPast /\ InOrder /\ NoneLost

(* There is a topic, so the event of an idle handler has one.                *)
LEMMA IdleEvent == NoSlowEvent \in SlowEvent
<1>1. (CHOOSE t \in SlowTopics : TRUE) \in SlowTopics
  BY SharePublisherAssumption, Zenon
<1> QED
  BY <1>1, Zenon DEF NoSlowEvent, SlowEvent

(* What a listener has seen are events.                                      *)
LEMMA SeenIsEvent ==
  ASSUME ShareInv, NEW s \in Listeners, NEW i \in DOMAIN slowSeen[s]
  PROVE  slowSeen[s][i] \in SlowEvent
<1>1. slowSeen[s] \in Seq(SlowEvent)
  BY Zenon DEF ShareInv, ShareTyped
<1>2. DOMAIN slowSeen[s] = 1 .. Len(slowSeen[s])
  BY <1>1, LenProperties, Zenon
<1> QED
  BY <1>1, <1>2, ElementOfSeq, Zenon

(* The empty publisher.                                                      *)
LEMMA ShareInitially ==
  ASSUME SlowInit PROVE ShareInv
<1>1. slowQueue \in Seq(SlowEvent) /\ Len(slowQueue) = 0
  BY EmptySeq, Zenon DEF SlowInit
<1>2. slowSeen \in [Listeners -> Seq(SlowEvent)]
        /\ \A s \in Listeners : DOMAIN slowSeen[s] = {}
  BY EmptySeq DEF SlowInit
<1>3. ShareTyped
  BY <1>1, <1>2, IdleEvent, Zenon DEF SlowInit, ShareTyped
<1>4. SlowNumbered /\ Calling /\ Ranging
  BY <1>1 DEF SlowInit, SlowNumbered, Calling, Ranging
<1>5. SlowPast /\ InOrder /\ NoneLost
  BY <1>2, Zenon DEF SlowInit, SlowPast, InOrder, NoneLost
<1> QED
  BY <1>3, <1>4, <1>5, Zenon DEF ShareInv

(* A listener added now has joined behind every event taken.                 *)
LEMMA AddListenerKeeps ==
  ASSUME ShareInv, NEW t \in SlowTopics, NEW s \in Listeners, AddListener(t, s)
  PROVE  ShareInv'
<1> USE DEF ShareInv
<1>1. /\ topics' = topics \cup {t}
      /\ listeners' = [listeners EXCEPT ![t] = listeners[t] \cup {s}]
      /\ UNCHANGED <<slowQueue, slowHandler, slowEvent, reached, callee, slowSent,
                     slowDone, slowSeen>>
  BY Zenon DEF AddListener
<1> DEFINE behind == IF s \in listeners[t] THEN slowJoined[t][s] ELSE slowSent
<1>2. slowJoined' = [slowJoined EXCEPT ![t] = [slowJoined[t] EXCEPT ![s] = behind]]
  BY Zenon DEF AddListener
<1>3. behind \in Nat
  BY Zenon DEF ShareTyped
<1> HIDE DEF behind
<1>4. /\ slowJoined' \in [SlowTopics -> [Listeners -> Nat]]
      /\ slowJoined'[t][s] = behind
      /\ \A u \in SlowTopics, r \in Listeners :
           u # t \/ r # s => slowJoined'[u][r] = slowJoined[u][r]
  BY <1>2, <1>3, Zenon DEF ShareTyped
<1>5. /\ listeners' \in [SlowTopics -> SUBSET Listeners]
      /\ listeners'[t] = listeners[t] \cup {s}
      /\ \A u \in SlowTopics \ {t} : listeners'[u] = listeners[u]
  BY <1>1, Zenon DEF ShareTyped
<1>6. ShareTyped'
  BY <1>1, <1>4, <1>5, Zenon DEF ShareTyped
<1>7. SlowNumbered' /\ Ranging' /\ SlowPast' /\ InOrder'
  BY <1>1, Zenon DEF SlowNumbered, Ranging, SlowPast, InOrder, SlowTaken, Heard
<1>8. Calling'
  BY <1>1, <1>5, Zenon DEF Calling, ShareTyped, SlowEvent
<1>9. ASSUME NEW e \in slowDone', NEW r \in listeners'[e.topic],
             e.id > slowJoined'[e.topic][r]
      PROVE  Heard(r, e)'
  <2>1. e \in slowDone /\ e.topic \in SlowTopics /\ e.id \in Nat /\ e.id <= SlowTaken
    BY <1>1, <1>9, Zenon DEF ShareTyped, SlowEvent, SlowPast
  <2>2. SlowTaken <= slowSent
    BY LenProperties DEF ShareTyped, SlowTaken
  <2>3. CASE r \in listeners[e.topic]
    <3>1. slowJoined'[e.topic][r] = slowJoined[e.topic][r]
      BY <1>4, <2>1, <2>3, Zenon DEF behind, ShareTyped
    <3> QED
      BY <1>1, <1>9, <2>1, <2>3, <3>1, Zenon DEF NoneLost, Heard
  <2>4. CASE r \notin listeners[e.topic]
    <3>1. e.topic = t /\ r = s
      BY <1>5, <1>9, <2>1, <2>4, Zenon
    <3>2. slowJoined'[e.topic][r] = slowSent
      BY <1>4, <2>4, <3>1, Zenon DEF behind
    <3> QED
      BY <1>9, <2>1, <2>2, <3>2 DEF ShareTyped, SlowTaken
  <2> QED
    BY <2>3, <2>4, Zenon
<1>10. NoneLost'
  BY <1>9, Zenon DEF NoneLost
<1> QED
  BY <1>6, <1>7, <1>8, <1>10, Zenon

(* RemoveSubscriber waits for the Range over its topic.                      *)
LEMMA RemoveListenerKeeps ==
  ASSUME ShareInv, NEW t \in SlowTopics, NEW s \in Listeners, RemoveListener(t, s)
  PROVE  ShareInv'
<1> USE DEF ShareInv
<1>1. /\ listeners' = [listeners EXCEPT ![t] = listeners[t] \ {s}]
      /\ SetFree(t)
      /\ UNCHANGED <<topics, slowQueue, slowHandler, slowEvent, reached, callee,
                     slowSent, slowDone, slowJoined, slowSeen>>
  BY Zenon DEF RemoveListener
<1>2. /\ listeners' \in [SlowTopics -> SUBSET Listeners]
      /\ listeners'[t] = listeners[t] \ {s}
      /\ \A u \in SlowTopics \ {t} : listeners'[u] = listeners[u]
  BY <1>1, Zenon DEF ShareTyped
<1>3. ShareTyped'
  BY <1>1, <1>2, Zenon DEF ShareTyped
<1>4. SlowNumbered' /\ Ranging' /\ SlowPast' /\ InOrder'
  BY <1>1, Zenon DEF SlowNumbered, Ranging, SlowPast, InOrder, SlowTaken, Heard
<1>5. slowEvent.topic \in SlowTopics
  BY Zenon DEF ShareTyped, SlowEvent
<1>6. callee = {} \/ slowEvent.topic # t
  BY <1>1, Zenon DEF Calling, SetFree
<1>7. Calling'
  BY <1>1, <1>2, <1>5, <1>6, Zenon DEF Calling
<1>8. \A u \in SlowTopics : listeners'[u] \subseteq listeners[u]
  BY <1>2, Zenon
<1>9. NoneLost'
  BY <1>1, <1>8 DEF NoneLost, Heard, ShareTyped, SlowEvent
<1> QED
  BY <1>3, <1>4, <1>7, <1>9, Zenon

(* An event accepted is the last of the channel and changes nothing behind.  *)
LEMMA SendSlowKeeps ==
  ASSUME ShareInv, NEW t \in SlowTopics, SendSlow(t)
  PROVE  ShareInv'
<1> USE DEF ShareInv
<1> DEFINE e == [id |-> slowSent + 1, topic |-> t]
<1>1. /\ slowQueue' = Append(slowQueue, e) /\ slowSent' = slowSent + 1
      /\ UNCHANGED <<topics, listeners, slowJoined, slowHandler, slowEvent, reached,
                     callee, slowDone, slowSeen>>
  BY Zenon DEF SendSlow, listVars
<1>2. e \in SlowEvent /\ e.id = slowSent + 1
  BY DEF SlowEvent, ShareTyped
<1> HIDE DEF e
<1>3. /\ slowQueue' \in Seq(SlowEvent) /\ Len(slowQueue') = Len(slowQueue) + 1
      /\ Len(slowQueue) \in Nat
      /\ \A i \in 1 .. Len(slowQueue) : slowQueue'[i] = slowQueue[i]
      /\ slowQueue'[Len(slowQueue) + 1] = e
  BY <1>1, <1>2, AppendProperties, LenProperties, SMTT(30) DEF ShareTyped
<1>4. SlowTaken' = SlowTaken /\ SlowTaken \in Int
  <2>1. slowSent \in Nat
    BY Zenon DEF ShareTyped
  <2> QED
    BY <1>1, <1>3, <2>1 DEF SlowTaken
<1>5. ShareTyped'
  BY <1>1, <1>3 DEF ShareTyped
<1>6. Len(slowQueue') <= slowSent'
  BY <1>1, <1>3 DEF SlowNumbered, ShareTyped
<1>7. ASSUME NEW i \in 1 .. Len(slowQueue')
      PROVE  slowQueue'[i].id = SlowTaken' + i
  <2>1. CASE i \in 1 .. Len(slowQueue)
    BY <1>3, <1>4, <2>1, Zenon DEF SlowNumbered
  <2>2. CASE i = Len(slowQueue) + 1
    BY <1>2, <1>3, <1>4, <2>2 DEF SlowTaken, ShareTyped
  <2> QED
    BY <1>3, <2>1, <2>2
<1>8. SlowNumbered'
  BY <1>6, <1>7, Zenon DEF SlowNumbered
<1>9. Calling' /\ Ranging' /\ SlowPast' /\ InOrder' /\ NoneLost'
  <2>1. Calling' /\ Ranging'
    BY <1>1, <1>4, Zenon DEF Calling, Ranging, Heard
  <2>2. SlowPast'
    BY <1>1, <1>4, Zenon DEF SlowPast
  <2>3. InOrder'
    BY <1>1, <1>4, Zenon DEF InOrder
  <2>4. NoneLost'
    BY <1>1, <1>4, Zenon DEF NoneLost, Heard
  <2> QED
    BY <2>1, <2>2, <2>3, <2>4, Zenon
<1> QED
  BY <1>5, <1>8, <1>9, Zenon

(* An event taken is newer than all that were heard before it.  Without a    *)
(* set for its topic there is no listener to miss it.                        *)
LEMMA ReceiveSlowKeeps ==
  ASSUME ShareInv, ReceiveSlow
  PROVE  ShareInv'
<1> USE DEF ShareInv
<1> DEFINE e == Head(slowQueue)
<1>1. /\ slowHandler = "waiting" /\ slowQueue # <<>>
      /\ slowQueue' = Tail(slowQueue) /\ reached' = {}
      /\ UNCHANGED <<topics, listeners, slowJoined, callee, slowSent, slowSeen>>
  BY Zenon DEF ReceiveSlow, listVars
<1>2. /\ e \in SlowEvent /\ e = slowQueue[1]
      /\ slowQueue' \in Seq(SlowEvent)
      /\ Len(slowQueue) \in Nat \ {0} /\ Len(slowQueue') = Len(slowQueue) - 1
      /\ \A i \in 1 .. Len(slowQueue') : slowQueue'[i] = slowQueue[i + 1]
  BY <1>1, HeadTailProperties, EmptySeq, LenProperties DEF ShareTyped
<1>3. /\ slowHandler' = "notifying" => slowEvent' = e /\ e.topic \in topics
      /\ slowEvent' \in {e, NoSlowEvent}
      /\ slowDone' \in {slowDone, slowDone \cup {e}}
      /\ slowDone' = slowDone \/ e.topic \notin topics
  BY Zenon DEF ReceiveSlow
<1> HIDE DEF e
<1>4. callee = {}
  BY <1>1, Zenon DEF Calling
<1>5. SlowTaken \in Int /\ SlowTaken' = SlowTaken + 1
  BY <1>1, <1>2 DEF SlowTaken, ShareTyped
<1>6. e.id = SlowTaken'
  BY <1>2, <1>5 DEF SlowNumbered
<1>7. ShareTyped'
  <2>1. slowEvent' \in SlowEvent /\ slowDone' \subseteq SlowEvent
    BY <1>2, <1>3, IdleEvent, Zenon DEF ShareTyped
  <2> QED
    BY <1>1, <1>2, <1>4, <2>1, Zenon DEF ShareTyped
<1>8. SlowNumbered'
  <2>1. Len(slowQueue') <= slowSent'
    BY <1>1, <1>2 DEF SlowNumbered, ShareTyped
  <2>2. \A i \in 1 .. Len(slowQueue') : i + 1 \in 1 .. Len(slowQueue)
    BY <1>2
  <2>3. \A i \in 1 .. Len(slowQueue') : slowQueue'[i].id = SlowTaken' + i
    BY <1>2, <1>5, <2>2, SMTT(30) DEF SlowNumbered
  <2> QED
    BY <2>1, <2>3, Zenon DEF SlowNumbered
<1>9. Calling'
  BY <1>1, <1>4, Zenon DEF Calling
<1>10. \A s \in Listeners : \A i \in DOMAIN slowSeen[s] : slowSeen[s][i].id \in Nat
  BY SeenIsEvent, Zenon DEF SlowEvent
<1>11. \A s \in Listeners : \A i \in DOMAIN slowSeen[s] : slowSeen[s][i].id < SlowTaken'
  BY <1>5, <1>10 DEF SlowPast
<1>12. Ranging'
  BY <1>1, <1>3, <1>6, <1>11, Zenon DEF Ranging
<1>13. \A d \in slowDone : d.id <= SlowTaken'
  BY <1>5 DEF SlowPast, ShareTyped, SlowEvent
<1>14. SlowPast'
  BY <1>1, <1>3, <1>5, <1>6, <1>10, <1>11, <1>13 DEF SlowPast
<1>15. InOrder'
  BY <1>1, Zenon DEF InOrder
<1>16. e.topic \notin topics => listeners[e.topic] = {}
  BY <1>2, Zenon DEF Calling, SlowEvent
<1>17. NoneLost'
  BY <1>1, <1>3, <1>16, Zenon DEF NoneLost, Heard
<1> QED
  BY <1>7, <1>8, <1>9, <1>12, <1>14, <1>15, <1>17, Zenon

(* A callback adds the event of the Range to those its listener has, all of  *)
(* which are earlier.                                                        *)
LEMMA BeginOnEventKeeps ==
  ASSUME ShareInv, NEW s \in Listeners, BeginOnEvent(s)
  PROVE  ShareInv'
<1> USE DEF ShareInv
<1>1. /\ slowHandler = "notifying" /\ s \in listeners[slowEvent.topic] /\ s \notin reached
      /\ callee' = {s} /\ reached' = reached \cup {s}
      /\ slowSeen' = [slowSeen EXCEPT ![s] = Append(slowSeen[s], slowEvent)]
      /\ UNCHANGED <<topics, listeners, slowJoined, slowQueue, slowHandler,
                     slowEvent, slowSent, slowDone>>
  BY Zenon DEF BeginOnEvent, Listed, listVars
<1> DEFINE q == slowSeen[s]
           n == Len(q)
<1>2. q \in Seq(SlowEvent) /\ slowEvent \in SlowEvent
  BY Zenon DEF ShareTyped
<1>3. slowSeen'[s] = Append(q, slowEvent)
        /\ \A r \in Listeners \ {s} : slowSeen'[r] = slowSeen[r]
  BY <1>1, Zenon DEF ShareTyped
<1>4. /\ Append(q, slowEvent) \in Seq(SlowEvent)
      /\ n \in Nat /\ DOMAIN q = 1 .. n
      /\ DOMAIN slowSeen'[s] = 1 .. (n + 1)
      /\ \A i \in 1 .. n : slowSeen'[s][i] = q[i]
      /\ slowSeen'[s][n + 1] = slowEvent
  BY <1>2, <1>3, AppendProperties, LenProperties
<1>5. SlowTaken' = SlowTaken /\ SlowTaken \in Int /\ slowEvent.id = SlowTaken
  BY <1>1, LenProperties DEF SlowTaken, Ranging, ShareTyped
<1>6. \A i \in 1 .. n : q[i].id < SlowTaken
  BY <1>1, <1>4, Zenon DEF Ranging
<1> HIDE DEF q, n
<1>7. ShareTyped'
  <2>1. slowSeen' \in [Listeners -> Seq(SlowEvent)]
    BY <1>1, <1>4, Zenon DEF ShareTyped, q
  <2> QED
    BY <1>1, <2>1, Zenon DEF ShareTyped
<1>8. SlowNumbered' /\ Calling'
  BY <1>1, <1>5, Zenon DEF SlowNumbered, Calling
<1>9. \A r \in Listeners, e \in SlowEvent : Heard(r, e) => Heard(r, e)'
  <2>1. \A e \in SlowEvent : Heard(s, e) => Heard(s, e)'
    BY <1>4 DEF Heard, q
  <2> QED
    BY <1>3, <2>1, Zenon DEF Heard
<1>10. Heard(s, slowEvent)'
  BY <1>1, <1>4 DEF Heard
<1>11. Ranging'
  <2>1. \A r \in reached' : Heard(r, slowEvent)'
    BY <1>1, <1>2, <1>9, <1>10, Zenon DEF Ranging, ShareTyped
  <2>2. \A r \in Listeners \ reached' : \A i \in DOMAIN slowSeen'[r] :
          slowSeen'[r][i].id < SlowTaken'
    BY <1>1, <1>3, <1>5 DEF Ranging
  <2>3. slowEvent'.id = SlowTaken'
    BY <1>1, <1>5, Zenon
  <2> QED
    BY <2>1, <2>2, <2>3, Zenon DEF Ranging
<1>12. SlowPast'
  <2>1. \A i \in DOMAIN slowSeen'[s] : slowSeen'[s][i].id <= SlowTaken'
    <3>1. \A i \in 1 .. n : q[i].id \in Nat
      BY <1>4, SeenIsEvent, Zenon DEF SlowEvent, q
    <3>2. \A i \in DOMAIN slowSeen'[s] : i \in 1 .. n \/ i = n + 1
      BY <1>4
    <3>3. \A i \in 1 .. n : slowSeen'[s][i].id <= SlowTaken'
      BY <1>4, <1>5, <1>6, <3>1
    <3>4. slowSeen'[s][n + 1].id <= SlowTaken'
      BY <1>4, <1>5
    <3> QED
      BY <3>2, <3>3, <3>4, Zenon
  <2>2. \A r \in Listeners \ {s} : \A i \in DOMAIN slowSeen'[r] :
          slowSeen'[r][i].id <= SlowTaken'
    BY <1>3, <1>5, Zenon DEF SlowPast
  <2>3. \A e \in slowDone' : e.id <= SlowTaken'
    BY <1>1, <1>5, Zenon DEF SlowPast
  <2> QED
    BY <2>1, <2>2, <2>3, Zenon DEF SlowPast
<1>13. InOrder'
  <2>1. ASSUME NEW i \in 1 .. (n + 1), NEW j \in 1 .. (n + 1), i < j
        PROVE  slowSeen'[s][i].id < slowSeen'[s][j].id
    <3>1. i \in 1 .. n
      BY <1>4, <2>1
    <3>2. CASE j \in 1 .. n
      BY <1>4, <2>1, <3>1, <3>2, Zenon DEF InOrder, q
    <3>3. CASE j = n + 1
      BY <1>4, <1>5, <1>6, <3>1, <3>3, Zenon
    <3> QED
      BY <1>4, <3>2, <3>3
  <2> QED
    BY <1>3, <1>4, <2>1, Zenon DEF InOrder
<1>14. NoneLost'
  BY <1>1, <1>9, Zenon DEF NoneLost, ShareTyped, SlowEvent
<1> QED
  BY <1>7, <1>8, <1>11, <1>12, <1>13, <1>14, Zenon

(* When a Range is over every listener of its topic has the event.           *)
LEMMA EndRangeKeeps ==
  ASSUME ShareInv, EndRange
  PROVE  ShareInv'
<1> USE DEF ShareInv
<1>1. /\ slowHandler = "notifying" /\ listeners[slowEvent.topic] \subseteq reached
      /\ slowHandler' = "waiting" /\ slowDone' = slowDone \cup {slowEvent}
      /\ slowEvent' = NoSlowEvent /\ reached' = {} /\ callee = {}
      /\ UNCHANGED <<topics, listeners, slowJoined, slowQueue, callee, slowSent, slowSeen>>
  BY Zenon DEF EndRange, SlowRangeOver, listVars
<1>2. SlowTaken' = SlowTaken /\ SlowTaken \in Int /\ slowEvent.id = SlowTaken
  BY <1>1, LenProperties DEF SlowTaken, Ranging, ShareTyped
<1>3. ShareTyped'
  BY <1>1, IdleEvent, Zenon DEF ShareTyped
<1>4. SlowNumbered' /\ Calling' /\ Ranging' /\ InOrder'
  BY <1>1, <1>2, Zenon DEF SlowNumbered, Calling, Ranging, InOrder
<1>5. SlowPast'
  BY <1>1, <1>2 DEF SlowPast
<1>6. \A s \in listeners[slowEvent.topic] : Heard(s, slowEvent)
  BY <1>1, Zenon DEF Ranging
<1>7. NoneLost'
  BY <1>1, <1>6 DEF NoneLost, Heard
<1> QED
  BY <1>3, <1>4, <1>5, <1>7, Zenon

(* The other steps end a callback, the handler or the channel.               *)
LEMMA OtherKeeps ==
  ASSUME ShareInv, SlowShutdown \/ ReceiveClosed \/ EndOnEvent \/ PanicOnEvent
                     \/ UNCHANGED slowVars
  PROVE  ShareInv'
<1> USE DEF ShareInv
<1>1. UNCHANGED <<topics, listeners, slowJoined, slowQueue, slowSent, slowDone, slowSeen>>
  BY Zenon DEF SlowShutdown, ReceiveClosed, EndOnEvent, PanicOnEvent, slowVars, listVars
<1>2. SlowNumbered' /\ SlowPast' /\ InOrder' /\ NoneLost'
  BY <1>1, Zenon DEF SlowNumbered, SlowPast, InOrder, NoneLost, SlowTaken, Heard
<1>3. ASSUME UNCHANGED <<slowEvent, reached, callee>> PROVE ShareTyped'
  BY <1>1, <1>3, Zenon DEF ShareTyped
<1>4. ASSUME EndOnEvent \/ PanicOnEvent PROVE ShareTyped'
  <2>1. callee' = {}
    BY <1>4, Zenon DEF EndOnEvent, PanicOnEvent
  <2>2. slowEvent' \in {slowEvent, NoSlowEvent} /\ reached' \in {reached, {}}
    BY <1>4, Zenon DEF EndOnEvent, PanicOnEvent
  <2> QED
    BY <1>1, <2>1, <2>2, IdleEvent, Zenon DEF ShareTyped
<1>5. ShareTyped'
  <2>1. SlowShutdown \/ ReceiveClosed \/ UNCHANGED slowVars
          => UNCHANGED <<slowEvent, reached, callee>>
    BY Zenon DEF SlowShutdown, ReceiveClosed, slowVars
  <2>2. UNCHANGED <<slowEvent, reached, callee>> \/ EndOnEvent \/ PanicOnEvent
    BY <2>1, Zenon
  <2> QED
    BY <1>3, <1>4, <2>2, Zenon
<1>6. /\ slowHandler' = "notifying" => slowHandler = "notifying"
                                       /\ UNCHANGED <<slowEvent, reached>>
      /\ callee' # {} => callee # {} /\ UNCHANGED <<slowHandler, slowEvent, callee>>
  <2>1. callee # {} => slowHandler = "notifying"
    BY Zenon DEF Calling
  <2>2. CASE SlowShutdown \/ UNCHANGED slowVars
    BY <2>2, Zenon DEF SlowShutdown, slowVars
  <2>3. CASE ReceiveClosed
    BY <2>1, <2>3, Zenon DEF ReceiveClosed
  <2>4. CASE EndOnEvent \/ PanicOnEvent
    BY <2>4, Zenon DEF EndOnEvent, PanicOnEvent
  <2> QED
    BY <2>2, <2>3, <2>4, Zenon
<1>7. Calling'
  BY <1>1, <1>6, Zenon DEF Calling
<1>8. Ranging'
  BY <1>1, <1>6, Zenon DEF Ranging, SlowTaken, Heard
<1> QED
  BY <1>2, <1>5, <1>7, <1>8, Zenon

(* The invariant of the shared publisher.                                    *)
LEMMA ShareInductive == SlowSpec => []ShareInv
<1>1. ShareInv /\ [SlowNext]_slowVars => ShareInv'
  BY AddListenerKeeps, RemoveListenerKeeps, SendSlowKeeps, ReceiveSlowKeeps,
     BeginOnEventKeeps, EndRangeKeeps, OtherKeeps, Zenon
  DEF SlowNext, SlowHandlerStep
<1> QED
  BY <1>1, ShareInitially, PTL DEF SlowSpec

(* notify/msg_notify_center.go, SharePublisher: whatever listeners come and  *)
(* go, each gets its slow events in the order of acceptance, none twice, and *)
(* none is lost to it while it stays listed.                                 *)
THEOREM SlowDelivery == SlowSpec => []SlowInOrderNoneLost
<1>1. ShareInv => SlowInOrderNoneLost
  BY Zenon DEF ShareInv, InOrder, NoneLost, Heard, SlowInOrderNoneLost
<1> QED
  BY <1>1, ShareInductive, PTL

(* notify/msg_notify_center.go, RemoveSubscriber: the lock that Range holds  *)
(* through its callbacks keeps a removal from returning while one runs.      *)
THEOREM RemovalIsFinal == SlowSpec => []NoCallbackAfterRemove
<1>1. ShareInv => NoCallbackAfterRemove
  BY Zenon DEF ShareInv, Calling, NoCallbackAfterRemove
<1> QED
  BY <1>1, ShareInductive, PTL
=============================================================================
