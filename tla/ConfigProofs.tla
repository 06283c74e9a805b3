---------------------------- MODULE ConfigProofs ----------------------------
(***************************************************************************)
(* The configuration module, for any number of operations, requests,       *)
(* namespaces and configurations.                                          *)
(***************************************************************************)
EXTENDS ConfigOperations, ConfigWatch, TLAPS

(* Sequences. *)

(* A sequence is a function on the numbers up to its length.                  *)
LEMMA LenProperties ==
  ASSUME NEW Elt, NEW seq \in Seq(Elt)
  PROVE  Len(seq) \in Nat /\ DOMAIN seq = 1 .. Len(seq) /\ seq \in [1 .. Len(seq) -> Elt]
OBVIOUS

(* The elements of a sequence over a set are in the set.                      *)
LEMMA ElementOfSeq ==
  ASSUME NEW Elt, NEW seq \in Seq(Elt), NEW i \in 1 .. Len(seq)
  PROVE  seq[i] \in Elt
OBVIOUS

(* The empty sequence, and the length of any other.                           *)
LEMMA EmptySeq ==
  ASSUME NEW Elt
  PROVE  /\ <<>> \in Seq(Elt) /\ Len(<<>>) = 0
         /\ \A seq \in Seq(Elt) : seq # <<>> => Len(seq) \in Nat \ {0}
OBVIOUS

(* Append makes the sequence longer by its last element.                      *)
LEMMA AppendProperties ==
  ASSUME NEW Elt, NEW seq \in Seq(Elt), NEW e \in Elt
  PROVE  /\ Append(seq, e) \in Seq(Elt) /\ Append(seq, e) # <<>>
         /\ Len(Append(seq, e)) = Len(seq) + 1
         /\ \A i \in 1 .. Len(seq) : Append(seq, e)[i] = seq[i]
         /\ Append(seq, e)[Len(seq) + 1] = e
OBVIOUS

(* Tail drops the first element.                                              *)
LEMMA HeadTailProperties ==
  ASSUME NEW Elt, NEW seq \in Seq(Elt), seq # <<>>
  PROVE  /\ Head(seq) \in Elt /\ Tail(seq) \in Seq(Elt) /\ Len(Tail(seq)) = Len(seq) - 1
         /\ \A i \in 1 .. Len(Tail(seq)) : Tail(seq)[i] = seq[i + 1]
OBVIOUS

-----------------------------------------------------------------------------
(* A newer configuration is lost only to an operation that overlapped its own. *)

OperationType ==
  [at : {"idle", "filter", "save", "done", "panicked"},
   op : OpTypes \cup {"none"}, version : Nat]

OperationsTyped ==
  /\ clock \in Nat
  /\ operation \in [Operations -> OperationType]
  /\ config \in Operations \cup {"none"}
  /\ before \in [Operations -> SUBSET Operations]

\* Versions are of the past, and what had ended when an operation began is
\* not newer than it.
Dated ==
  /\ \A r \in Operations : operation[r].version <= clock
  /\ \A r \in Operations : \A s \in before[r] :
       /\ Ended(s) /\ operation[r].at # "idle"
       /\ operation[s].version <= operation[r].version

OperationsInv == OperationsTyped /\ Dated

(* An operation that has ended stays as it is, and one that has begun keeps  *)
(* its version: a step that moves one of them on keeps the invariant.        *)
LEMMA MovesOn ==
  ASSUME OperationsInv, NEW r \in Operations,
         NEW where \in {"filter", "save", "done", "panicked"},
         ~Ended(r), Place(r, where), UNCHANGED <<clock, before>>,
         config' \in Operations \cup {"none"}
  PROVE  OperationsInv'
<1>1. operation \in [Operations -> OperationType]
  BY Zenon DEF OperationsInv, OperationsTyped
<1>2. /\ operation' \in [Operations -> OperationType]
      /\ operation'[r].at = where
      /\ \A s \in Operations : operation'[s].version = operation[s].version
      /\ \A s \in Operations \ {r} : operation'[s] = operation[s]
  BY <1>1, Zenon DEF Place, OperationType
<1>3. OperationsTyped'
  BY <1>2, Zenon DEF OperationsInv, OperationsTyped
<1>4. \A q \in Operations : \A s \in before[q] : s # r /\ s \in Operations
  BY Zenon DEF OperationsInv, OperationsTyped, Dated
<1>5. Dated'
  BY <1>2, <1>4 DEF OperationsInv, OperationsTyped, Dated, Ended
<1> QED
  BY <1>3, <1>5, Zenon DEF OperationsInv

(* An operation that begins takes the time, which no version has passed.     *)
LEMMA Begins ==
  ASSUME OperationsInv, NEW r \in Operations, NEW op \in OpTypes, Operate(r, op)
  PROVE  OperationsInv'
<1>1. /\ operation \in [Operations -> OperationType] /\ clock \in Nat
      /\ before \in [Operations -> SUBSET Operations]
  BY Zenon DEF OperationsInv, OperationsTyped
<1>2. /\ operation' = [operation EXCEPT ![r] = [at |-> "filter", op |-> op, version |-> clock]]
      /\ before' = [before EXCEPT ![r] = {s \in Operations : Ended(s)}]
      /\ UNCHANGED <<clock, config>>
      /\ operation[r].at = "idle"
  BY Zenon DEF Operate, Version
<1>3. /\ operation' \in [Operations -> OperationType]
      /\ operation'[r].at = "filter" /\ operation'[r].version = clock
      /\ \A s \in Operations \ {r} : operation'[s] = operation[s]
  BY <1>1, <1>2, Zenon DEF OperationType
<1>4. OperationsTyped'
  BY <1>1, <1>2, <1>3, Zenon DEF OperationsInv, OperationsTyped
<1>5. \A q \in Operations : operation'[q].version <= clock'
  BY <1>1, <1>2, <1>3 DEF OperationsInv, Dated
<1>6. ~Ended(r)
  BY <1>2, Zenon DEF Ended
<1>7. ASSUME NEW s \in before'[r]
      PROVE  Ended(s)' /\ operation'[r].at # "idle"
               /\ operation'[s].version <= operation'[r].version
  <2>1. s \in Operations \ {r} /\ Ended(s)
    BY <1>1, <1>2, <1>6, Zenon
  <2> QED
    BY <1>3, <2>1, Zenon DEF OperationsInv, Dated, Ended
<1>8. ASSUME NEW q \in Operations \ {r}, NEW s \in before'[q]
      PROVE  Ended(s)' /\ operation'[q].at # "idle"
               /\ operation'[s].version <= operation'[q].version
  <2>1. s \in before[q] /\ s \in Operations
    BY <1>1, <1>2, Zenon
  <2>2. s # r
    BY <1>6, <2>1, Zenon DEF OperationsInv, Dated
  <2> QED
    BY <1>3, <2>1, <2>2, Zenon DEF OperationsInv, Dated, Ended
<1>9. Dated'
  BY <1>5, <1>7, <1>8, Zenon DEF Dated
<1> QED
  BY <1>4, <1>9, Zenon DEF OperationsInv

(* Every step keeps the invariant.                                           *)
LEMMA OperationsStep ==
  ASSUME OperationsInv, [OperationsNext]_operationVars
  PROVE  OperationsInv'
<1>1. ASSUME NEW r \in Operations, Undecodable(r) PROVE OperationsInv'
  <2>1. ~Ended(r) /\ Place(r, "done") /\ UNCHANGED <<clock, before, config>>
    BY <1>1, Zenon DEF Undecodable, Ended
  <2>2. config' \in Operations \cup {"none"}
    BY <2>1, Zenon DEF OperationsInv, OperationsTyped
  <2> QED
    BY <2>1, <2>2, MovesOn, Zenon
<1>2. ASSUME NEW r \in Operations, SaveConfig(r) PROVE OperationsInv'
  <2>1. /\ ~Ended(r) /\ Place(r, "done") /\ UNCHANGED <<clock, before>>
        /\ config' = r
    BY <1>2, Zenon DEF SaveConfig, Ended
  <2> QED
    BY <2>1, MovesOn, Zenon
<1>3. ASSUME NEW r \in Operations, NEW beta \in BetaInfos, Filter(r, beta)
      PROVE  OperationsInv'
  <2>1. /\ ~Ended(r) /\ UNCHANGED <<clock, before, config>>
        /\ Place(r, "panicked") \/ Place(r, "save") \/ Place(r, "done")
    BY <1>3, Zenon DEF Filter, Ended
  <2>2. config' \in Operations \cup {"none"}
    BY <2>1, Zenon DEF OperationsInv, OperationsTyped
  <2> QED
    BY <2>1, <2>2, MovesOn, Zenon
<1>4. CASE Pass
  <2>1. clock' \in Nat /\ clock <= clock'
    BY <1>4 DEF Pass, OperationsInv, OperationsTyped
  <2>2. UNCHANGED <<operation, config, before>>
    BY <1>4, Zenon DEF Pass
  <2>3. OperationsTyped'
    BY <2>1, <2>2, Zenon DEF OperationsInv, OperationsTyped
  <2>4. \A r \in Operations : operation[r].version \in Nat
    BY Zenon DEF OperationsInv, OperationsTyped, OperationType
  <2>5. Dated'
    BY <2>1, <2>2, <2>4 DEF OperationsInv, OperationsTyped, Dated, Ended
  <2> QED
    BY <2>3, <2>5, Zenon DEF OperationsInv
<1>5. CASE UNCHANGED operationVars
  BY <1>5, Zenon DEF operationVars, OperationsInv, OperationsTyped, Dated, Ended
<1> QED
  BY <1>1, <1>2, <1>3, <1>4, <1>5, Begins, Zenon DEF OperationsNext

(* server/config/config_core.go, operateConfig: whatever the order in which  *)
(* operations take their version and save, a file that is stored is older    *)
(* than one that was saved before only if the two operations overlapped.     *)
THEOREM NewerSurvives == OperationsSpec => []NewerLostOnlyToOverlap
<1>1. OperationsInit => OperationsInv
  BY DEF OperationsInit, OperationsInv, OperationsTyped, OperationType, Dated, Ended
<1>2. OperationsInv /\ written \subseteq Operations => NewerLostOnlyToOverlap
  <2> SUFFICES ASSUME OperationsInv, written \subseteq Operations, config # "none",
                      NEW s \in written,
                      operation[s].version > operation[config].version
               PROVE  s \notin before[config]
    BY Zenon DEF NewerLostOnlyToOverlap
  <2>1. /\ config \in Operations /\ s \in Operations
        /\ operation[s].version \in Nat /\ operation[config].version \in Nat
    BY Zenon DEF OperationsInv, OperationsTyped, OperationType
  <2> QED
    BY <2>1 DEF OperationsInv, Dated
<1>3. OperationsInit => written \subseteq Operations
  BY Zenon DEF OperationsInit
<1>4. written \subseteq Operations /\ [OperationsNext]_operationVars
        => (written \subseteq Operations)'
  BY Zenon DEF OperationsNext, operationVars, Undecodable, Operate, Filter, SaveConfig, Pass
<1>5. OperationsInv /\ [OperationsNext]_operationVars => OperationsInv'
  BY OperationsStep, Zenon
<1> QED
  BY <1>1, <1>2, <1>3, <1>4, <1>5, PTL DEF OperationsSpec

-----------------------------------------------------------------------------
(* What a client is told. *)

Events == [what : Changes, version : Nat]
Messages == {Failed} \cup {Change(e) : e \in Events}
Places == {"idle", "lock", "insert", "read", "attach", "merge", "answer", "done", "panicked"}

(* Request q, with requests at p and asking for a, has asked under an id of a *)
(* namespace.                                                                 *)
Of(p, a, n, id, q) == p[q] # "idle" /\ a[q].namespace = n /\ a[q].id = id

(* A watcher of the repository holds the stream of a request under its id,    *)
(* and watches only what such requests asked for.                             *)
Sound(p, a, n, id, w) ==
  /\ w = [items |-> w.items, sink |-> w.sink]
  /\ w.sink \in Requests /\ Of(p, a, n, id, w.sink)
  /\ \A g \in DOMAIN w.items : \A f \in w.items[g] :
       \E q \in Requests : Of(p, a, n, id, q) /\ f \in At(a[q].items, g)

WatchType ==
  /\ pc \in [Requests -> Places] /\ ask \in [Requests -> Asks \cup {NoAsk}]
  /\ sent \in [Requests -> Seq(Messages)]
  /\ queue \in Seq(Events) /\ published \in Nat

RepositoryInv ==
  \A n \in DOMAIN watcherRepository : \A id \in DOMAIN watcherRepository[n] :
    Sound(pc, ask, n, id, watcherRepository[n][id])

(* Who inserts a namespace has the lock, and nobody else has inserted it.     *)
InsertInv ==
  /\ \A r \in Requests : pc[r] = "insert" =>
       lock = "write" /\ ask[r].namespace \notin DOMAIN watcherRepository
  /\ \A r, q \in Requests : pc[r] = "insert" /\ pc[q] = "insert" => r = q
  /\ DOMAIN todo = Requests
  /\ \A r \in Requests : pc[r] = "merge" => todo[r] \subseteq DOMAIN ask[r].items

(* Events wait in the order of their versions, behind all that were selected. *)
QueueInv ==
  /\ \A i, k \in 1 .. Len(queue) : i < k => queue[i].version < queue[k].version
  /\ \A i \in 1 .. Len(queue) : queue[i].version <= published
  /\ selecting => queue # <<>> /\ Head(queue).what.namespace \in DOMAIN watcherRepository

Sink(j) == watcherRepository[j.event.what.namespace][j.id].sink

(* A version below those of the queue.                                        *)
Past(v) == v <= published /\ \A i \in 1 .. Len(queue) : v < queue[i].version

JobInv ==
  \A j \in jobs :
    /\ j = [id |-> j.id, event |-> j.event] /\ j.event \in Events
    /\ j.event.what.namespace \in DOMAIN watcherRepository
    /\ j.id \in DOMAIN watcherRepository[j.event.what.namespace]
    /\ Past(j.event.version)
    /\ \A k \in DOMAIN sent[Sink(j)] : sent[Sink(j)][k] # Change(j.event)

(* What may be on the stream of request r: a change that a request under its  *)
(* id has asked for, and the answer once it is given.                         *)
Fine(p, a, r, m) ==
  /\ m = Failed => p[r] = "done"
  /\ m.kind = "change" =>
       \E q \in Requests : /\ Of(p, a, a[r].namespace, a[r].id, q)
                           /\ a[q].namespace = m.what.namespace
                           /\ m.what.file \in At(a[q].items, m.what.group)

SentInv ==
  \A r \in Requests :
    /\ pc[r] = "idle" => sent[r] = <<>>
    /\ \A k \in DOMAIN sent[r] :
         Fine(pc, ask, r, sent[r][k]) /\ (sent[r][k].kind = "change" => Past(sent[r][k].version))
    /\ \A i, k \in DOMAIN sent[r] : sent[r][i] = sent[r][k] => i = k

WatchInv == WatchType /\ RepositoryInv /\ InsertInv /\ QueueInv /\ JobInv /\ SentInv

(* The invariant holds when nobody watches.                                   *)
LEMMA WatchInitially == Init => WatchInv
<1> SUFFICES ASSUME Init PROVE WatchInv
  OBVIOUS
<1>1. WatchType
  BY DEF Init, WatchType, Places
<1>2. RepositoryInv /\ InsertInv /\ QueueInv /\ JobInv /\ SentInv
  BY DEF Init, RepositoryInv, InsertInv, QueueInv, JobInv, SentInv
<1> QED
  BY <1>1, <1>2, Zenon DEF WatchInv

(* A request that has asked stays one that has asked the same.                *)
AsksKept == \A q \in Requests : pc[q] # "idle" => pc'[q] # "idle" /\ ask'[q] = ask[q]

(* A watcher stays, with the stream it holds.                                 *)
WatchersKept ==
  \A n \in DOMAIN watcherRepository :
    /\ n \in DOMAIN watcherRepository'
    /\ \A id \in DOMAIN watcherRepository[n] :
         /\ id \in DOMAIN watcherRepository'[n]
         /\ watcherRepository'[n][id].sink = watcherRepository[n][id].sink

(* A watcher stays sound while no request takes back what it asked.           *)
LEMMA SoundKept ==
  ASSUME AsksKept, NEW n, NEW id, NEW w, Sound(pc, ask, n, id, w)
  PROVE  Sound(pc', ask', n, id, w)
BY DEF AsksKept, Sound, Of

(* No step takes back what was asked.                                         *)
LEMMA EveryStepKeepsAsks ==
  ASSUME WatchInv, Next
  PROVE  AsksKept /\ pc' \in [Requests -> Places] /\ ask' \in [Requests -> Asks \cup {NoAsk}]
<1>1. pc \in [Requests -> Places] /\ ask \in [Requests -> Asks \cup {NoAsk}]
  BY Zenon DEF WatchInv, WatchType
<1>2. CASE UNCHANGED <<pc, ask>>
  BY <1>1, <1>2, Zenon DEF AsksKept
<1>3. ASSUME NEW r \in Requests, NEW p \in Places \ {"idle"}, pc' = [pc EXCEPT ![r] = p], ask' = ask
      PROVE  AsksKept /\ pc' \in [Requests -> Places] /\ ask' \in [Requests -> Asks \cup {NoAsk}]
  BY <1>1, <1>3, Zenon DEF AsksKept
<1>4. ASSUME NEW r \in Requests, watchConfig(r)
      PROVE  AsksKept /\ pc' \in [Requests -> Places] /\ ask' \in [Requests -> Asks \cup {NoAsk}]
  BY <1>1, <1>4, Zenon DEF AsksKept, watchConfig, Places
<1>5. ASSUME NEW r \in Requests, RequestStep(r)
      PROVE  UNCHANGED <<pc, ask>>
             \/ \E p \in Places \ {"idle"} : pc' = [pc EXCEPT ![r] = p] /\ ask' = ask
  BY <1>5, ZenonT(30) DEF RequestStep, FindNamespace, InsertNamespace, ReadNamespace, AddNew, BeginMerge,
     MergeGroup, EndMerge, listenConfig, Places
<1>6. ASSUME \/ PublishEvent \/ HandlerStep \/ JobStep \/ (\E j \in jobs : JobFatal(j))
             \/ \E r \in Requests : CloseStream(r)
      PROVE  UNCHANGED <<pc, ask>>
  BY <1>6, Zenon DEF PublishEvent, HandlerStep, FindWatchers, selectWatcher, JobStep, onConfigChange,
     JobFatal, CloseStream
<1> QED
  BY <1>2, <1>3, <1>4, <1>5, <1>6, Zenon DEF Next

(* InsertNamespace finds the namespace free, and adds no watcher.             *)
LEMMA InsertKeepsRepository ==
  ASSUME WatchInv, NEW r \in Requests, InsertNamespace(r), AsksKept
  PROVE  WatchersKept /\ RepositoryInv'
<1> DEFINE n == ask[r].namespace
           repo == watcherRepository
<1>1. n \notin DOMAIN repo /\ watcherRepository' = Put(repo, n, <<>>)
  BY Zenon DEF InsertNamespace, WatchInv, InsertInv
<1>2. /\ DOMAIN watcherRepository' = DOMAIN repo \cup {n}
      /\ watcherRepository'[n] = <<>> /\ DOMAIN watcherRepository'[n] = {}
      /\ \A m \in DOMAIN repo : watcherRepository'[m] = repo[m]
  <2>1. DOMAIN <<>> = {}
    OBVIOUS
  <2> HIDE DEF n, repo
  <2> QED BY <1>1, <2>1, Zenon DEF Put
<1>3. WatchersKept
  BY <1>2, Zenon DEF WatchersKept
<1>4. ASSUME NEW m \in DOMAIN watcherRepository', NEW id \in DOMAIN watcherRepository'[m]
      PROVE  Sound(pc', ask', m, id, watcherRepository'[m][id])
  <2>1. m \in DOMAIN repo /\ watcherRepository'[m] = repo[m]
    BY <1>2, Zenon
  <2> QED BY <2>1, SoundKept, Zenon DEF WatchInv, RepositoryInv
<1> QED
  BY <1>3, <1>4, Zenon DEF RepositoryInv

(* A step that sets one watcher, which keeps its stream if it was there.      *)
SetsOne(n, id, w, ids) ==
  /\ watcherRepository' = [watcherRepository EXCEPT ![n] = ids]
  /\ DOMAIN ids \subseteq DOMAIN watcherRepository[n] \cup {id}
  /\ DOMAIN watcherRepository[n] \subseteq DOMAIN ids
  /\ \A x \in DOMAIN watcherRepository[n] : x # id => ids[x] = watcherRepository[n][x]
  /\ id \in DOMAIN ids => ids[id] = w
  /\ n \in DOMAIN watcherRepository /\ id \in DOMAIN ids => Sound(pc', ask', n, id, w)
  /\ n \in DOMAIN watcherRepository /\ id \in DOMAIN watcherRepository[n] =>
       w.sink = watcherRepository[n][id].sink

(* When the watcher of one id changes, and holds what it may, the repository  *)
(* is as it should be.                                                        *)
LEMMA OneWatcher ==
  ASSUME WatchInv, AsksKept, NEW n, NEW id, NEW w, NEW ids, SetsOne(n, id, w, ids)
  PROVE  WatchersKept /\ RepositoryInv'
<1> USE DEF SetsOne
<1> DEFINE repo == watcherRepository
<1>1. /\ DOMAIN watcherRepository' = DOMAIN repo
      /\ \A m \in DOMAIN repo : watcherRepository'[m] = IF m = n THEN ids ELSE repo[m]
  OBVIOUS
<1>2. WatchersKept
  BY <1>1, Zenon DEF WatchersKept
<1>3. ASSUME NEW m \in DOMAIN watcherRepository', NEW i \in DOMAIN watcherRepository'[m]
      PROVE  Sound(pc', ask', m, i, watcherRepository'[m][i])
  <2>1. m \in DOMAIN repo
    BY <1>1, Zenon
  <2>2. CASE m = n /\ i = id
    BY <1>1, <2>1, <2>2, Zenon
  <2>3. CASE ~(m = n /\ i = id)
    <3>1. i \in DOMAIN repo[m] /\ watcherRepository'[m][i] = repo[m][i]
      BY <1>1, <2>1, <2>3, Zenon
    <3> QED BY <2>1, <3>1, SoundKept, Zenon DEF WatchInv, RepositoryInv
  <2> QED BY <2>2, <2>3, Zenon
<1> QED
  BY <1>2, <1>3, Zenon DEF RepositoryInv

(* A watcher that is added holds the stream and the items of its request.     *)
LEMMA AddNewKeepsRepository ==
  ASSUME WatchInv, NEW r \in Requests, AddNew(r), AsksKept
  PROVE  WatchersKept /\ RepositoryInv'
<1> DEFINE n == ask[r].namespace
           id == ask[r].id
           w == NewWatcher(r)
           ids == Put(watcherRepository[n], id, w)
<1>1. /\ watcherRepository' = [watcherRepository EXCEPT ![n] = ids]
      /\ id \notin DOMAIN watcherRepository[n] /\ pc[r] # "idle"
  BY Zenon DEF AddNew, Exists, Watchers
<1>2. /\ DOMAIN ids = DOMAIN watcherRepository[n] \cup {id} /\ ids[id] = w
      /\ \A x \in DOMAIN watcherRepository[n] : x # id => ids[x] = watcherRepository[n][x]
  <2> HIDE DEF n, id, w
  <2> QED BY Zenon DEF Put
<1>3. Sound(pc, ask, n, id, w)
  <2>1. w = [items |-> ask[r].items, sink |-> r] /\ w.items = ask[r].items /\ w.sink = r
    BY Zenon DEF NewWatcher
  <2>2. Of(pc, ask, n, id, r)
    BY <1>1, Zenon DEF Of
  <2>3. ASSUME NEW g \in DOMAIN w.items, NEW f \in w.items[g] PROVE f \in At(ask[r].items, g)
    BY <2>1, Zenon DEF At
  <2> HIDE DEF w, n, id
  <2> QED BY <2>1, <2>2, <2>3, Zenon DEF Sound
<1>4. Sound(pc', ask', n, id, w)
  BY <1>3, SoundKept, Zenon
<1> HIDE DEF n, id, w, ids
<1>5. SetsOne(n, id, w, ids)
  BY <1>1, <1>2, <1>4, Zenon DEF SetsOne
<1> QED
  BY <1>5, OneWatcher, Zenon

(* One group of merge adds what the request asked for.                        *)
LEMMA MergeKeepsRepository ==
  ASSUME WatchInv, NEW r \in Requests, NEW g \in todo[r], MergeGroup(r, g), AsksKept
  PROVE  WatchersKept /\ RepositoryInv'
<1> DEFINE n == ask[r].namespace
           id == ask[r].id
           old == watcherRepository[n][id]
           w == [old EXCEPT !.items = merge(@, ask[r].items, g)]
           ids == [watcherRepository[n] EXCEPT ![id] = w]
<1>1. CASE ~Spreads(ItemMap(n, id), g)
  <2>1. UNCHANGED watcherRepository
    BY <1>1, Zenon DEF MergeGroup
  <2>2. WatchersKept
    BY <2>1, Zenon DEF WatchersKept
  <2> QED BY <2>1, <2>2, SoundKept, Zenon DEF WatchInv, RepositoryInv
<1>2. CASE Spreads(ItemMap(n, id), g)
  <2>1. watcherRepository' = [watcherRepository EXCEPT ![n] = ids]
    BY <1>2, Zenon DEF MergeGroup
  <2>2. pc[r] # "idle" /\ g \in DOMAIN ask[r].items
    BY Zenon DEF MergeGroup, WatchInv, InsertInv
  <2>3. ASSUME n \in DOMAIN watcherRepository, id \in DOMAIN watcherRepository[n]
        PROVE  Sound(pc, ask, n, id, w) /\ w.sink = old.sink
    <3>1. Sound(pc, ask, n, id, old)
      BY <2>3, Zenon DEF WatchInv, RepositoryInv
    <3>2. old = [items |-> old.items, sink |-> old.sink]
      BY <3>1, Zenon DEF Sound
    <3> DEFINE more == merge(old.items, ask[r].items, g)
    <3>3. w = [items |-> more, sink |-> old.sink] /\ w.items = more /\ w.sink = old.sink
      <4> HIDE DEF old, more
      <4>1. w = [old EXCEPT !.items = more]
        BY Zenon DEF more
      <4> QED BY <3>2, <4>1
    <3>4. /\ DOMAIN more = DOMAIN old.items \cup {g} /\ more[g] = At(old.items, g) \cup ask[r].items[g]
          /\ \A x \in DOMAIN old.items : x # g => more[x] = old.items[x]
      <4> HIDE DEF old
      <4> QED BY Zenon DEF merge, Put
    <3>5. Of(pc, ask, n, id, r)
      BY <2>2, Zenon DEF Of
    <3> HIDE DEF old, more, w, n, id
    <3>6. ASSUME NEW h \in DOMAIN more, NEW f \in more[h]
          PROVE  \E q \in Requests : Of(pc, ask, n, id, q) /\ f \in At(ask[q].items, h)
      <4>1. CASE h = g /\ f \in ask[r].items[g]
        BY <2>2, <3>5, <4>1, Zenon DEF At
      <4>2. CASE h \in DOMAIN old.items /\ f \in old.items[h]
        BY <3>1, <4>2, Zenon DEF Sound
      <4> QED BY <3>4, <4>1, <4>2, Zenon DEF At
    <3> QED BY <3>1, <3>3, <3>6, Zenon DEF Sound
  <2>4. ASSUME n \in DOMAIN watcherRepository, id \in DOMAIN watcherRepository[n]
        PROVE  Sound(pc', ask', n, id, w) /\ w.sink = watcherRepository[n][id].sink
    BY <2>3, <2>4, SoundKept, Zenon
  <2> HIDE DEF w
  <2>5. /\ DOMAIN ids = DOMAIN watcherRepository[n]
        /\ id \in DOMAIN ids => ids[id] = w
        /\ \A x \in DOMAIN watcherRepository[n] : x # id => ids[x] = watcherRepository[n][x]
    OBVIOUS
  <2> HIDE DEF n, id, ids
  <2>6. SetsOne(n, id, w, ids)
    BY <2>1, <2>4, <2>5, Zenon DEF SetsOne
  <2> QED BY <2>6, OneWatcher, Zenon
<1> QED
  BY <1>1, <1>2, Zenon

(* Every step keeps the watchers.                                             *)
LEMMA EveryStepKeepsWatchers ==
  ASSUME WatchInv, Next
  PROVE  WatchersKept /\ RepositoryInv'
<1>1. AsksKept
  BY EveryStepKeepsAsks, Zenon
<1>2. CASE UNCHANGED watcherRepository
  <2>1. WatchersKept
    BY <1>2, Zenon DEF WatchersKept
  <2> QED BY <1>1, <1>2, <2>1, SoundKept, Zenon DEF WatchInv, RepositoryInv
<1>3. ASSUME NEW r \in Requests, RequestStep(r)
      PROVE  \/ UNCHANGED watcherRepository \/ InsertNamespace(r) \/ AddNew(r)
             \/ \E g \in todo[r] : MergeGroup(r, g)
  BY <1>3, Zenon DEF RequestStep, FindNamespace, ReadNamespace, BeginMerge, EndMerge, listenConfig
<1>4. ASSUME \/ PublishEvent \/ HandlerStep \/ JobStep \/ (\E j \in jobs : JobFatal(j))
             \/ \E r \in Requests : CloseStream(r) \/ watchConfig(r)
      PROVE  UNCHANGED watcherRepository
  BY <1>4, Zenon DEF PublishEvent, HandlerStep, FindWatchers, selectWatcher, JobStep, onConfigChange,
     JobFatal, CloseStream, watchConfig
<1> QED
  BY <1>1, <1>2, <1>3, <1>4, InsertKeepsRepository, AddNewKeepsRepository, MergeKeepsRepository, Zenon
     DEF Next

(* Every step keeps who may insert and what is left to merge.                 *)
LEMMA EveryStepKeepsInsert ==
  ASSUME WatchInv, Next
  PROVE  InsertInv'
<1>1. pc \in [Requests -> Places] /\ AsksKept /\ InsertInv
  BY EveryStepKeepsAsks, Zenon DEF WatchInv, WatchType
<1>2. ASSUME UNCHANGED <<lock, todo>>, DOMAIN watcherRepository' = DOMAIN watcherRepository,
             \A q \in Requests : pc'[q] \in {"insert", "merge"} => pc[q] = pc'[q]
      PROVE  InsertInv'
  <2>1. \A q \in Requests : pc'[q] \in {"insert", "merge"} => ask'[q] = ask[q]
    BY <1>1, <1>2, Zenon DEF AsksKept
  <2> QED BY <1>1, <1>2, <2>1 DEF InsertInv
<1>3. ASSUME NEW r \in Requests, FindNamespace(r) PROVE InsertInv'
  <2>1. \A q \in Requests : pc[q] # "insert"
    BY <1>1, <1>3, Zenon DEF FindNamespace, InsertInv
  <2>2. \A q \in Requests : pc'[q] # "insert" \/ q = r
    BY <1>1, <1>3, <2>1, Zenon DEF FindNamespace
  <2>3. pc'[r] = "insert" => lock' = "write" /\ ask'[r].namespace \notin DOMAIN watcherRepository'
    BY <1>1, <1>3, Zenon DEF FindNamespace, NamespaceExists
  <2>4. \A q \in Requests : pc'[q] = "merge" => pc[q] = "merge"
    BY <1>1, <1>3, Zenon DEF FindNamespace
  <2>5. UNCHANGED <<todo, ask>>
    BY <1>3, Zenon DEF FindNamespace
  <2> QED BY <1>1, <2>2, <2>3, <2>4, <2>5, Zenon DEF InsertInv
<1>4. ASSUME NEW r \in Requests, InsertNamespace(r) PROVE InsertInv'
  <2>1. \A q \in Requests : pc'[q] # "insert"
    BY <1>1, <1>4, Zenon DEF InsertNamespace, InsertInv
  <2>2. \A q \in Requests : pc'[q] = "merge" => pc[q] = "merge"
    BY <1>1, <1>4, Zenon DEF InsertNamespace
  <2>3. UNCHANGED <<todo, ask>>
    BY <1>4, Zenon DEF InsertNamespace
  <2> QED BY <1>1, <2>1, <2>2, <2>3, Zenon DEF InsertInv
<1>5. ASSUME NEW r \in Requests, BeginMerge(r) PROVE InsertInv'
  <2>1. /\ UNCHANGED <<lock, ask, watcherRepository>>
        /\ \A q \in Requests : pc'[q] = IF q = r THEN "merge" ELSE pc[q]
    BY <1>1, <1>5, Zenon DEF BeginMerge
  <2>2. todo' = [todo EXCEPT ![r] = DOMAIN ask[r].items]
    BY <1>5, Zenon DEF BeginMerge
  <2>3. DOMAIN todo' = Requests
    BY <1>1, <2>2, Zenon DEF InsertInv
  <2>4. ASSUME NEW q \in Requests, pc'[q] = "merge" PROVE todo'[q] \subseteq DOMAIN ask'[q].items
    BY <1>1, <2>1, <2>2, <2>4, Zenon DEF InsertInv
  <2> QED BY <1>1, <2>1, <2>3, <2>4, Zenon DEF InsertInv
<1>6. ASSUME NEW r \in Requests, NEW g \in todo[r], MergeGroup(r, g) PROVE InsertInv'
  <2>1. /\ UNCHANGED <<lock, ask>> /\ DOMAIN watcherRepository' = DOMAIN watcherRepository
        /\ \A q \in Requests : pc'[q] \in {"insert", "merge"} => pc[q] = pc'[q]
    BY <1>1, <1>6, Zenon DEF MergeGroup
  <2>2. \/ todo' = [todo EXCEPT ![r] = todo[r] \ {g}]
        \/ todo' = [todo EXCEPT ![r] = {}]
    BY <1>6, Zenon DEF MergeGroup
  <2>3. DOMAIN todo' = Requests
    BY <1>1, <2>2, Zenon DEF InsertInv
  <2>4. ASSUME NEW q \in Requests, pc'[q] = "merge" PROVE todo'[q] \subseteq DOMAIN ask'[q].items
    BY <1>1, <2>1, <2>2, <2>4 DEF InsertInv
  <2> QED BY <1>1, <2>1, <2>3, <2>4, Zenon DEF InsertInv
<1>7. ASSUME NEW r \in Requests,
             watchConfig(r) \/ ReadNamespace(r) \/ AddNew(r) \/ EndMerge(r) \/ listenConfig(r)
      PROVE  InsertInv'
  <2>1. UNCHANGED <<lock, todo>> /\ DOMAIN watcherRepository' = DOMAIN watcherRepository
    BY <1>7, Zenon DEF watchConfig, ReadNamespace, AddNew, EndMerge, listenConfig
  <2>2. \A q \in Requests : pc'[q] \in {"insert", "merge"} => pc[q] = pc'[q]
    BY <1>1, <1>7, Zenon DEF watchConfig, ReadNamespace, AddNew, EndMerge, listenConfig
  <2> QED BY <1>2, <2>1, <2>2, Zenon
<1>8. ASSUME \/ PublishEvent \/ HandlerStep \/ JobStep \/ (\E j \in jobs : JobFatal(j))
             \/ \E r \in Requests : CloseStream(r)
      PROVE  InsertInv'
  <2>1. UNCHANGED <<lock, todo, pc, watcherRepository>>
    BY <1>8, ZenonT(30) DEF PublishEvent, HandlerStep, FindWatchers, AfterLookup, selectWatcher, JobStep,
       onConfigChange, JobFatal, CloseStream
  <2> QED BY <1>2, <2>1, Zenon
<1> QED
  BY <1>3, <1>4, <1>5, <1>6, <1>7, <1>8, Zenon DEF Next, RequestStep

(* The queue gets the next version, and loses its head.                       *)
LEMMA EveryStepKeepsQueue ==
  ASSUME WatchInv, Next
  PROVE  /\ queue' \in Seq(Events) /\ published' \in Nat /\ QueueInv'
         /\ \A v \in Nat : Past(v) => v <= published' /\ \A i \in 1 .. Len(queue') : v < queue'[i].version
<1> DEFINE q == queue
           l == Len(q)
<1>1. /\ q \in Seq(Events) /\ published \in Nat /\ l \in Nat /\ QueueInv
      /\ \A i \in 1 .. l : q[i] \in Events /\ q[i].version \in Nat
  <2>1. q \in Seq(Events) /\ published \in Nat /\ QueueInv
    BY Zenon DEF WatchInv, WatchType
  <2>2. l \in Nat /\ \A i \in 1 .. l : q[i] \in Events
    BY <2>1, LenProperties, ElementOfSeq, Zenon
  <2> QED BY <2>1, <2>2, Zenon DEF Events
<1>2. WatchersKept
  BY EveryStepKeepsWatchers, Zenon
<1>3. CASE UNCHANGED <<queue, published, selecting>>
  BY <1>1, <1>2, <1>3, Zenon DEF QueueInv, WatchersKept, Past
<1>4. CASE PublishEvent
  <2>1. PICK c \in Changes : queue' = Append(q, [what |-> c, version |-> published + 1])
    BY <1>4, Zenon DEF PublishEvent
  <2> DEFINE e == [what |-> c, version |-> published + 1]
  <2>2. e \in Events /\ e.version = published + 1
    BY <1>1 DEF Events
  <2> HIDE DEF e
  <2>3. /\ queue' \in Seq(Events) /\ Len(queue') = l + 1 /\ queue'[l + 1] = e
        /\ \A i \in 1 .. l : queue'[i] = q[i]
    BY <1>1, <2>1, <2>2, AppendProperties DEF e
  <2>4. published' = published + 1 /\ UNCHANGED <<selecting, watcherRepository>>
    BY <1>4, Zenon DEF PublishEvent
  <2>5. \A i \in 1 .. l + 1 : i \in 1 .. l \/ i = l + 1
    BY <1>1
  <2>6. \A i \in 1 .. l : q[i].version \in Nat /\ q[i].version <= published
    BY <1>1, Zenon DEF QueueInv
  <2> HIDE DEF l, q
  <2>7. ASSUME NEW i \in 1 .. l + 1, NEW k \in 1 .. l + 1, i < k
        PROVE  queue'[i].version < queue'[k].version
    <3>1. i \in 1 .. l
      BY <1>1, <2>7
    <3>2. CASE k \in 1 .. l
      BY <1>1, <2>3, <2>7, <3>1, <3>2, Zenon DEF QueueInv, l, q
    <3>3. CASE k = l + 1
      BY <1>1, <2>2, <2>3, <2>6, <3>1, <3>3
    <3> QED BY <2>5, <3>2, <3>3, Zenon
  <2>8. ASSUME NEW i \in 1 .. l + 1 PROVE queue'[i].version <= published'
    BY <1>1, <2>2, <2>3, <2>4, <2>5, <2>6
  <2>9. ASSUME selecting PROVE queue' # <<>> /\ Head(queue') = Head(q)
    <3>1. q # <<>>
      BY <1>1, <2>9, Zenon DEF QueueInv, q
    <3>2. l # 0
      BY <1>1, <3>1, EmptySeq, Zenon DEF l
    <3>3. 1 \in 1 .. l
      BY <1>1, <3>2
    <3>4. queue' # <<>>
      BY <1>1, <2>3, EmptySeq
    <3>5. Head(queue') = queue'[1] /\ Head(q) = q[1]
      BY <1>1, <2>3, <3>1, <3>4, HeadTailProperties
    <3> QED BY <2>3, <3>3, <3>4, <3>5, Zenon
  <2>10. QueueInv'
    BY <1>1, <2>3, <2>4, <2>7, <2>8, <2>9, Zenon DEF QueueInv, q
  <2>11. ASSUME NEW v \in Nat, Past(v), NEW i \in 1 .. l + 1
         PROVE  v <= published' /\ v < queue'[i].version
    <3>1. v <= published /\ (i \in 1 .. l => v < q[i].version)
      BY <2>11, Zenon DEF Past, l, q
    <3> QED BY <1>1, <2>2, <2>3, <2>4, <2>5, <3>1
  <2>12. l + 1 \in 1 .. l + 1
    BY <1>1
  <2>13. published' \in Nat
    BY <1>1, <2>4
  <2>14. ASSUME NEW v \in Nat, Past(v)
         PROVE  v <= published' /\ \A i \in 1 .. Len(queue') : v < queue'[i].version
    <3>1. v <= published'
      BY <2>11, <2>12, <2>14, Zenon
    <3>2. ASSUME NEW i \in 1 .. Len(queue') PROVE v < queue'[i].version
      <4>1. i \in 1 .. l + 1
        BY <2>3, <3>2, Zenon
      <4> QED BY <2>11, <2>14, <4>1, Zenon
    <3> QED BY <3>1, <3>2, Zenon
  <2> QED BY <2>3, <2>10, <2>13, <2>14, Zenon
<1>5. ASSUME queue # <<>>, queue' = Tail(queue), published' = published, ~selecting'
      PROVE  /\ queue' \in Seq(Events) /\ published' \in Nat /\ QueueInv'
             /\ \A v \in Nat : Past(v) => v <= published' /\ \A i \in 1 .. Len(queue') : v < queue'[i].version
  <2>1. /\ queue' \in Seq(Events) /\ Len(queue') = l - 1
        /\ \A i \in 1 .. l - 1 : queue'[i] = q[i + 1]
    BY <1>1, <1>5, HeadTailProperties, Zenon
  <2>2. \A i \in 1 .. l - 1 : i + 1 \in 1 .. l
    BY <1>1
  <2>3. \A i, k \in 1 .. l - 1 : i < k => i + 1 < k + 1
    OBVIOUS
  <2> HIDE DEF l
  <2>4. QueueInv'
    BY <1>1, <1>5, <2>1, <2>2, <2>3 DEF QueueInv, l
  <2> QED BY <1>1, <1>5, <2>1, <2>2, <2>4, Zenon DEF Past, l
<1>6. ASSUME FindWatchers
      PROVE  /\ queue' \in Seq(Events) /\ published' \in Nat /\ QueueInv'
             /\ \A v \in Nat : Past(v) => v <= published' /\ \A i \in 1 .. Len(queue') : v < queue'[i].version
  <2>1. CASE Head(queue).what.namespace \in DOMAIN watcherRepository
    <3>1. UNCHANGED <<queue, published, watcherRepository>> /\ queue # <<>>
      BY <1>6, <2>1, Zenon DEF FindWatchers
    <3> QED BY <1>1, <2>1, <3>1, Zenon DEF QueueInv, Past
  <2>2. CASE Head(queue).what.namespace \notin DOMAIN watcherRepository
    BY <1>5, <1>6, <2>2, Zenon DEF FindWatchers
  <2> QED BY <2>1, <2>2, Zenon
<1>7. ASSUME selectWatcher
      PROVE  queue # <<>> /\ queue' = Tail(queue) /\ published' = published /\ ~selecting'
  BY <1>1, <1>7, Zenon DEF selectWatcher, QueueInv
<1>8. ASSUME NEW r \in Requests, watchConfig(r) \/ RequestStep(r) \/ CloseStream(r)
      PROVE  UNCHANGED <<queue, published, selecting>>
  BY <1>8, ZenonT(30) DEF watchConfig, RequestStep, FindNamespace, InsertNamespace, ReadNamespace, AddNew,
     BeginMerge, MergeGroup, EndMerge, listenConfig, CloseStream
<1>9. ASSUME JobStep \/ (\E j \in jobs : JobFatal(j))
      PROVE  UNCHANGED <<queue, published, selecting>>
  BY <1>9, Zenon DEF JobStep, onConfigChange, JobFatal
<1> QED
  BY <1>3, <1>4, <1>5, <1>6, <1>7, <1>8, <1>9, Zenon DEF Next, HandlerStep

(* Failed is no change, and a change tells its event.                         *)
LEMMA MessageFacts ==
  /\ Failed \in Messages /\ Failed.kind = "failed"
  /\ \A e \in Events : /\ Change(e) \in Messages /\ Change(e).kind = "change" /\ Change(e) # Failed
                       /\ Change(e).version = e.version /\ Change(e).what = e.what
                       /\ e.version \in Nat
  /\ \A e, f \in Events : Change(e) = Change(f) => e = f
  /\ \A m \in Messages : m.kind = "change" => m.version \in Nat
<1>1. Failed \in Messages /\ Failed.kind = "failed" /\ Failed.kind # "change"
  BY Zenon DEF Messages, Failed
<1>2. ASSUME NEW e \in Events
      PROVE  /\ Change(e) \in Messages /\ Change(e).kind = "change"
             /\ Change(e).version = e.version /\ Change(e).what = e.what /\ e.version \in Nat
             /\ e = [what |-> e.what, version |-> e.version]
  BY Zenon DEF Messages, Change, Events
<1>3. ASSUME NEW e \in Events, NEW f \in Events, Change(e) = Change(f) PROVE e = f
  BY <1>2, <1>3
<1>4. ASSUME NEW m \in Messages, m.kind = "change" PROVE m.version \in Nat
  <2>1. PICK e \in Events : m = Change(e)
    BY <1>1, <1>4, Zenon DEF Messages
  <2> QED BY <1>2, <2>1, Zenon
<1> QED
  BY <1>1, <1>2, <1>3, <1>4, Zenon

(* A step keeps who has asked, who is done and which versions are past.       *)
Kept ==
  /\ AsksKept /\ WatchersKept
  /\ \A q \in Requests : pc[q] = "done" => pc'[q] = "done"
  /\ \A v \in Nat : Past(v) => v <= published' /\ \A i \in 1 .. Len(queue') : v < queue'[i].version

(* No step reopens a request that is done, or publishes a version twice.      *)
LEMMA EveryStepKeeps ==
  ASSUME WatchInv, Next
  PROVE  Kept
<1>1. ASSUME NEW q \in Requests, pc[q] = "done" PROVE pc'[q] = "done"
  <2>1. pc \in [Requests -> Places]
    BY Zenon DEF WatchInv, WatchType
  <2>2. ASSUME NEW r \in Requests, watchConfig(r) \/ RequestStep(r) \/ CloseStream(r)
        PROVE  pc'[q] = "done"
    <3>1. CASE UNCHANGED pc
      BY <1>1, <3>1, Zenon
    <3>2. CASE pc[r] # "done" /\ \E p : pc' = [pc EXCEPT ![r] = p]
      BY <1>1, <2>1, <3>2, Zenon
    <3> QED
      BY <2>2, <3>1, <3>2, Zenon DEF watchConfig, RequestStep, FindNamespace, InsertNamespace,
         ReadNamespace, AddNew, BeginMerge, MergeGroup, EndMerge, listenConfig, CloseStream
  <2>3. ASSUME PublishEvent \/ HandlerStep \/ JobStep \/ \E j \in jobs : JobFatal(j)
        PROVE  UNCHANGED pc
    BY <2>3, Zenon DEF PublishEvent, HandlerStep, FindWatchers, selectWatcher, JobStep, onConfigChange,
       JobFatal
  <2> QED BY <1>1, <2>2, <2>3, Zenon DEF Next
<1> QED
  BY <1>1, EveryStepKeepsAsks, EveryStepKeepsWatchers, EveryStepKeepsQueue, Zenon DEF Kept

(* A message that was fine stays so.                                          *)
LEMMA FineKept ==
  ASSUME WatchInv, Kept, NEW r \in Requests, NEW k \in DOMAIN sent[r]
  PROVE  /\ pc'[r] # "idle" /\ sent[r][k] \in Messages
         /\ Fine(pc', ask', r, sent[r][k])
         /\ sent[r][k].kind = "change" =>
              /\ sent[r][k].version <= published'
              /\ \A i \in 1 .. Len(queue') : sent[r][k].version < queue'[i].version
<1>1. pc[r] # "idle"
  BY DEF WatchInv, SentInv
<1>2. sent[r][k] \in Messages
  <2>1. sent[r] \in Seq(Messages)
    BY Zenon DEF WatchInv, WatchType
  <2> QED BY <2>1, LenProperties, ElementOfSeq, Zenon
<1> DEFINE m == sent[r][k]
<1>3. Fine(pc, ask, r, m) /\ (m.kind = "change" => Past(m.version))
  BY Zenon DEF WatchInv, SentInv
<1>4. m.kind = "change" => m.version \in Nat
  BY <1>2, MessageFacts, Zenon
<1> HIDE DEF m
<1>5. pc'[r] # "idle" /\ ask'[r] = ask[r] /\ (pc[r] = "done" => pc'[r] = "done")
  BY <1>1, Zenon DEF Kept, AsksKept
<1>6. Fine(pc', ask', r, m)
  BY <1>3, <1>5, Zenon DEF Kept, AsksKept, Fine, Of
<1> QED
  BY <1>2, <1>3, <1>4, <1>5, <1>6, Zenon DEF Kept, m

(* The last of a sequence that was appended to is what was appended.          *)
LEMMA AppendedIs ==
  ASSUME NEW S, NEW seq \in Seq(S), NEW x \in S, NEW k \in DOMAIN Append(seq, x)
  PROVE  Append(seq, x)[k] = x \/ (k \in DOMAIN seq /\ Append(seq, x)[k] = seq[k])
<1>1. Len(seq) \in Nat /\ DOMAIN seq = 1 .. Len(seq)
  BY LenProperties, Zenon
<1>2. /\ Len(Append(seq, x)) = Len(seq) + 1 /\ Append(seq, x) \in Seq(S)
      /\ Append(seq, x)[Len(seq) + 1] = x
      /\ \A i \in 1 .. Len(seq) : Append(seq, x)[i] = seq[i]
  BY AppendProperties
<1>3. k \in 1 .. Len(seq) + 1
  BY <1>2, LenProperties, Zenon
<1>4. k \in 1 .. Len(seq) \/ k = Len(seq) + 1
  BY <1>1, <1>3
<1> QED
  BY <1>1, <1>2, <1>4, Zenon

(* A step that sends nothing.                                                 *)
LEMMA NothingSent ==
  ASSUME WatchInv, Kept, UNCHANGED sent
  PROVE  sent' \in [Requests -> Seq(Messages)] /\ SentInv'
<1>1. ASSUME NEW r \in Requests, pc'[r] = "idle" PROVE sent[r] = <<>>
  BY <1>1, Zenon DEF WatchInv, SentInv, Kept, AsksKept
<1>2. ASSUME NEW r \in Requests, NEW k \in DOMAIN sent[r]
      PROVE  /\ Fine(pc', ask', r, sent[r][k])
             /\ sent[r][k].kind = "change" => Past(sent[r][k].version)'
  BY FineKept, Zenon DEF Past
<1>3. \A r \in Requests : \A i, k \in DOMAIN sent[r] : sent[r][i] = sent[r][k] => i = k
  BY Zenon DEF WatchInv, SentInv
<1> QED
  BY <1>1, <1>2, <1>3, Zenon DEF WatchInv, WatchType, SentInv

(* A step that sends a message that is not on the stream yet.                 *)
LEMMA OneSent ==
  ASSUME WatchInv, Kept, NEW s \in Requests, NEW m \in Messages,
         sent' = [sent EXCEPT ![s] = Append(sent[s], m)],
         \A k \in DOMAIN sent[s] : sent[s][k] # m,
         pc'[s] # "idle", Fine(pc', ask', s, m),
         m.kind = "change" => /\ m.version <= published'
                              /\ \A i \in 1 .. Len(queue') : m.version < queue'[i].version
  PROVE  sent' \in [Requests -> Seq(Messages)] /\ SentInv'
<1> DEFINE l == Len(sent[s])
<1>1. sent \in [Requests -> Seq(Messages)] /\ sent[s] \in Seq(Messages)
  BY Zenon DEF WatchInv, WatchType
<1>2. l \in Nat /\ DOMAIN sent[s] = 1 .. l
  BY <1>1, LenProperties, Zenon
<1>3. /\ Append(sent[s], m) \in Seq(Messages) /\ Len(Append(sent[s], m)) = l + 1
      /\ Append(sent[s], m)[l + 1] = m
      /\ \A i \in 1 .. l : Append(sent[s], m)[i] = sent[s][i]
  BY <1>1, AppendProperties
<1>4. sent' \in [Requests -> Seq(Messages)] /\ sent'[s] = Append(sent[s], m)
      /\ \A r \in Requests \ {s} : sent'[r] = sent[r]
  BY <1>1, <1>3, Zenon
<1>5. DOMAIN sent'[s] = 1 .. l + 1 /\ sent'[s][l + 1] = m
      /\ \A i \in 1 .. l : sent'[s][i] = sent[s][i]
  <2>1. DOMAIN Append(sent[s], m) = 1 .. l + 1
    BY <1>3, LenProperties, Zenon
  <2> QED BY <1>3, <1>4, <2>1, Zenon
<1> HIDE DEF l
<1>6. \A i \in 1 .. l + 1 : i \in 1 .. l \/ i = l + 1
  BY <1>2
<1>7. ASSUME NEW r \in Requests, pc'[r] = "idle" PROVE sent'[r] = <<>>
  BY <1>4, <1>7, Zenon DEF WatchInv, SentInv, Kept, AsksKept
<1>8. ASSUME NEW r \in Requests, NEW k \in DOMAIN sent'[r]
      PROVE  /\ Fine(pc', ask', r, sent'[r][k])
             /\ sent'[r][k].kind = "change" => Past(sent[r][k].version)'
  <2>1. CASE r = s /\ k = l + 1
    BY <1>5, <2>1, Zenon DEF Past
  <2>2. CASE ~(r = s /\ k = l + 1)
    <3>1. k \in DOMAIN sent[r] /\ sent'[r][k] = sent[r][k]
      BY <1>2, <1>4, <1>5, <1>6, <2>2, Zenon
    <3> QED BY <3>1, FineKept, Zenon DEF Past
  <2> QED BY <2>1, <2>2, Zenon
<1>9. ASSUME NEW r \in Requests, NEW i \in DOMAIN sent'[r], NEW k \in DOMAIN sent'[r],
             sent'[r][i] = sent'[r][k]
      PROVE  i = k
  <2>1. CASE r # s
    BY <1>4, <1>9, <2>1, Zenon DEF WatchInv, SentInv
  <2>2. CASE r = s /\ i \in 1 .. l /\ k \in 1 .. l
    BY <1>2, <1>5, <1>9, <2>2 DEF WatchInv, SentInv
  <2>3. CASE r = s /\ (i = l + 1 \/ k = l + 1)
    BY <1>2, <1>5, <1>6, <1>9, <2>3, Zenon
  <2> QED BY <1>5, <1>6, <2>1, <2>2, <2>3, Zenon
<1> QED
  BY <1>4, <1>7, <1>8, <1>9, Zenon DEF SentInv

(* What a step leaves of a job.                                               *)
LEMMA JobKept ==
  ASSUME WatchInv, Kept, NEW j \in jobs
  PROVE  /\ j = [id |-> j.id, event |-> j.event] /\ j.event \in Events
         /\ j.event.what.namespace \in DOMAIN watcherRepository'
         /\ j.id \in DOMAIN watcherRepository'[j.event.what.namespace]
         /\ j.event.version <= published'
         /\ \A i \in 1 .. Len(queue') : j.event.version < queue'[i].version
         /\ Sink(j)' = Sink(j)
<1>1. /\ j = [id |-> j.id, event |-> j.event] /\ j.event \in Events
      /\ j.event.what.namespace \in DOMAIN watcherRepository
      /\ j.id \in DOMAIN watcherRepository[j.event.what.namespace]
      /\ Past(j.event.version)
  BY Zenon DEF WatchInv, JobInv
<1>2. j.event.version \in Nat
  BY <1>1, MessageFacts, Zenon
<1>3. Sink(j)' = Sink(j)
  BY <1>1, Zenon DEF Kept, WatchersKept, Sink
<1> QED
  BY <1>1, <1>2, <1>3, Zenon DEF Kept, WatchersKept

(* Jobs that stay, and whose events are not sent on their streams.            *)
LEMMA JobsStay ==
  ASSUME WatchInv, Kept, jobs' \subseteq jobs,
         \A j \in jobs' : \A k \in DOMAIN sent'[Sink(j)] : sent'[Sink(j)][k] # Change(j.event)
  PROVE  JobInv'
<1> SUFFICES ASSUME NEW j \in jobs'
             PROVE  /\ j = [id |-> j.id, event |-> j.event] /\ j.event \in Events
                    /\ j.event.what.namespace \in DOMAIN watcherRepository'
                    /\ j.id \in DOMAIN watcherRepository'[j.event.what.namespace]
                    /\ Past(j.event.version)'
                    /\ \A k \in DOMAIN sent'[Sink(j)'] : sent'[Sink(j)'][k] # Change(j.event)
  BY Zenon DEF JobInv
<1> QED
  BY JobKept, Zenon DEF Past

(* A watcher a job is for has a stream of its namespace and id.               *)
LEMMA SinkFacts ==
  ASSUME WatchInv, NEW j \in jobs
  PROVE  LET n == j.event.what.namespace
             w == watcherRepository[n][j.id]
         IN /\ Sound(pc, ask, n, j.id, w) /\ w.sink = Sink(j)
            /\ Sink(j) \in Requests /\ pc[Sink(j)] # "idle"
            /\ ask[Sink(j)].namespace = n /\ ask[Sink(j)].id = j.id
<1>1. /\ j.event.what.namespace \in DOMAIN watcherRepository
      /\ j.id \in DOMAIN watcherRepository[j.event.what.namespace]
  BY Zenon DEF WatchInv, JobInv
<1>2. Sound(pc, ask, j.event.what.namespace, j.id, watcherRepository[j.event.what.namespace][j.id])
  BY <1>1, Zenon DEF WatchInv, RepositoryInv
<1> QED
  BY <1>2, Zenon DEF Sound, Of, Sink

(* What has been sent is not the event of a job.                              *)
LEMMA NotSentYet ==
  ASSUME WatchInv, NEW j \in jobs, NEW k \in DOMAIN sent[Sink(j)]
  PROVE  sent[Sink(j)][k] # Change(j.event)
BY Zenon DEF WatchInv, JobInv

(* listenConfig gives the answer once.                                        *)
LEMMA ListenKeeps ==
  ASSUME WatchInv, Kept, NEW r \in Requests, listenConfig(r)
  PROVE  sent' \in [Requests -> Seq(Messages)] /\ SentInv' /\ JobInv'
<1>1. /\ pc[r] = "answer" /\ jobs' = jobs /\ pc' = [pc EXCEPT ![r] = "done"] /\ ask' = ask
      /\ sent' = [sent EXCEPT ![r] = IF r \in open THEN Append(sent[r], Failed) ELSE sent[r]]
  BY Zenon DEF listenConfig, Send
<1>2. sent \in [Requests -> Seq(Messages)] /\ pc \in [Requests -> Places]
  BY Zenon DEF WatchInv, WatchType
<1>3. CASE r \notin open
  <2>1. sent' = sent
    BY <1>1, <1>2, <1>3, Zenon
  <2> QED BY <1>1, <2>1, NothingSent, JobsStay, NotSentYet, Zenon
<1>4. CASE r \in open
  <2>1. sent' = [sent EXCEPT ![r] = Append(sent[r], Failed)] /\ pc'[r] = "done"
    BY <1>1, <1>2, <1>4, Zenon
  <2>2. ASSUME NEW k \in DOMAIN sent[r] PROVE sent[r][k] # Failed
    BY <1>1, Zenon DEF WatchInv, SentInv, Fine
  <2>3. Fine(pc', ask', r, Failed)
    BY <2>1, MessageFacts, Zenon DEF Fine
  <2>4. sent' \in [Requests -> Seq(Messages)] /\ SentInv'
    BY <2>1, <2>2, <2>3, MessageFacts, OneSent, Zenon
  <2>5. ASSUME NEW j \in jobs, NEW k \in DOMAIN sent'[Sink(j)]
        PROVE  sent'[Sink(j)][k] # Change(j.event)
    <3>1. Change(j.event) # Failed
      BY MessageFacts, Zenon DEF WatchInv, JobInv
    <3>2. Sink(j) \in Requests
      BY SinkFacts, Zenon
    <3>3. CASE Sink(j) # r
      BY <1>2, <2>1, <2>5, <3>2, <3>3, NotSentYet, Zenon
    <3>4. CASE Sink(j) = r
      <4>1. sent[r] \in Seq(Messages) /\ sent'[r] = Append(sent[r], Failed)
        BY <1>2, <2>1, Zenon
      <4>2. sent'[r][k] = Failed \/ (k \in DOMAIN sent[r] /\ sent'[r][k] = sent[r][k])
        BY <2>5, <3>4, <4>1, AppendedIs, MessageFacts
      <4> QED BY <3>1, <3>4, <4>2, NotSentYet, Zenon
    <3> QED BY <3>3, <3>4, Zenon
  <2> QED BY <1>1, <2>4, <2>5, JobsStay, Zenon
<1> QED
  BY <1>3, <1>4, Zenon

(* onConfigChange sends the event of a job that is then gone.                 *)
LEMMA ChangeKeeps ==
  ASSUME WatchInv, Kept, NEW j \in jobs, onConfigChange(j)
  PROVE  sent' \in [Requests -> Seq(Messages)] /\ SentInv' /\ JobInv'
<1> DEFINE c == j.event.what
           w == watcherRepository[c.namespace][j.id]
           s == Sink(j)
           m == Change(j.event)
<1>1. /\ jobs' = jobs \ {j} /\ UNCHANGED <<pc, ask, published, queue>>
      /\ IF IsWatched(w.items, c) /\ c \notin Unencodable
         THEN sent' = [sent EXCEPT ![s] = IF s \in open THEN Append(sent[s], m) ELSE sent[s]]
         ELSE UNCHANGED sent
  BY ZenonT(30) DEF onConfigChange, Send, JobTaken, Sink
<1>2. sent \in [Requests -> Seq(Messages)] /\ s \in Requests
  BY SinkFacts, Zenon DEF WatchInv, WatchType
<1>3. CASE UNCHANGED sent
  BY <1>1, <1>3, NothingSent, JobsStay, NotSentYet, Zenon
<1>4. CASE IsWatched(w.items, c) /\ sent' = [sent EXCEPT ![s] = Append(sent[s], m)]
  <2>1. Sound(pc, ask, c.namespace, j.id, w) /\ pc[s] # "idle"
        /\ ask[s].namespace = c.namespace /\ ask[s].id = j.id
    BY SinkFacts, Zenon
  <2>2. j.event \in Events /\ j = [id |-> j.id, event |-> j.event] /\ Past(j.event.version)
    BY Zenon DEF WatchInv, JobInv
  <2>3. m \in Messages /\ m.kind = "change" /\ m # Failed /\ m.version = j.event.version /\ m.what = c
    BY <2>2, MessageFacts, Zenon
  <2>4. PICK q \in Requests : Of(pc, ask, c.namespace, j.id, q) /\ c.file \in At(ask[q].items, c.group)
    <3>1. c.group \in DOMAIN w.items /\ c.file \in w.items[c.group]
      BY <1>4, ZenonT(30) DEF IsWatched, At
    <3> HIDE DEF w
    <3> QED BY <2>1, <3>1, Zenon DEF Sound
  <2> HIDE DEF m, w, s
  <2>5. Fine(pc', ask', s, m)
    BY <1>1, <2>1, <2>3, <2>4, Zenon DEF Fine, Of
  <2>6. \A k \in DOMAIN sent[s] : sent[s][k] # m
    BY NotSentYet, Zenon DEF m, s
  <2>7. m.version <= published' /\ \A i \in 1 .. Len(queue') : m.version < queue'[i].version
    BY <1>1, <2>2, <2>3, Zenon DEF Past
  <2>8. sent' \in [Requests -> Seq(Messages)] /\ SentInv'
    BY <1>1, <1>2, <1>4, <2>1, <2>3, <2>5, <2>6, <2>7, OneSent, Zenon
  <2>9. ASSUME NEW i \in jobs', NEW k \in DOMAIN sent'[Sink(i)]
        PROVE  sent'[Sink(i)][k] # Change(i.event)
    <3>1. i \in jobs /\ i # j /\ Sink(i) \in Requests
      BY <1>1, SinkFacts, Zenon
    <3>2. CASE Sink(i) # s
      BY <1>2, <1>4, <2>9, <3>1, <3>2, NotSentYet, Zenon
    <3>3. CASE Sink(i) = s
      <4>1. i.id = j.id
        BY <2>1, <3>1, <3>3, SinkFacts, Zenon
      <4>2. i = [id |-> i.id, event |-> i.event] /\ i.event \in Events
        BY <3>1, Zenon DEF WatchInv, JobInv
      <4>3. i.event # j.event
        BY <2>2, <3>1, <4>1, <4>2, Zenon
      <4>4. Change(i.event) # m
        BY <2>2, <4>2, <4>3, MessageFacts, Zenon DEF m
      <4>5. sent[s] \in Seq(Messages) /\ sent'[s] = Append(sent[s], m)
        BY <1>2, <1>4, Zenon
      <4>6. sent'[s][k] = m \/ (k \in DOMAIN sent[s] /\ sent'[s][k] = sent[s][k])
        BY <2>3, <2>9, <3>3, <4>5, AppendedIs
      <4> QED BY <3>1, <3>3, <4>4, <4>6, NotSentYet, Zenon
    <3> QED BY <3>2, <3>3, Zenon
  <2>10. jobs' \subseteq jobs
    BY <1>1, Zenon
  <2> QED BY <2>8, <2>9, <2>10, JobsStay, Zenon
<1>5. s \notin open => (sent' = [sent EXCEPT ![s] = sent[s]] => UNCHANGED sent)
  BY <1>2, Zenon
<1> QED
  BY <1>1, <1>3, <1>4, <1>5, Zenon

(* selectWatcher makes jobs of an event none of which has been sent.          *)
LEMMA SelectKeeps ==
  ASSUME WatchInv, Kept, selectWatcher
  PROVE  sent' \in [Requests -> Seq(Messages)] /\ SentInv' /\ JobInv'
<1> DEFINE e == Head(queue)
           n == e.what.namespace
<1>1. UNCHANGED <<sent, watcherRepository, published>> /\ queue' = Tail(queue) /\ selecting
  BY Zenon DEF selectWatcher
<1>2. sent' \in [Requests -> Seq(Messages)] /\ SentInv'
  BY <1>1, NothingSent, Zenon
<1>3. queue # <<>> /\ n \in DOMAIN watcherRepository /\ queue \in Seq(Events) /\ published \in Nat
  BY <1>1, Zenon DEF WatchInv, WatchType, QueueInv
<1>4. e = queue[1] /\ e \in Events /\ Len(queue) \in Nat \ {0}
  BY <1>3, HeadTailProperties, EmptySeq
<1>5. 1 \in 1 .. Len(queue)
  BY <1>4
<1>6. e.version <= published' /\ \A i \in 1 .. Len(queue') : e.version < queue'[i].version
  <2>1. Len(queue') = Len(queue) - 1 /\ \A i \in 1 .. Len(queue) - 1 : queue'[i] = queue[i + 1]
    BY <1>1, <1>3, HeadTailProperties, Zenon
  <2>2. \A i \in 1 .. Len(queue) - 1 : i + 1 \in 1 .. Len(queue) /\ 1 < i + 1
    BY <1>4
  <2>3. \A i \in 1 .. Len(queue) : 1 < i => queue[1].version < queue[i].version
    BY <1>5, Zenon DEF WatchInv, QueueInv
  <2>4. queue[1].version <= published
    BY <1>5, Zenon DEF WatchInv, QueueInv
  <2> QED BY <1>1, <1>4, <2>1, <2>2, <2>3, <2>4, Zenon
<1> HIDE DEF e
<1>7. ASSUME NEW id \in DOMAIN watcherRepository[n],
             NEW k \in DOMAIN sent[watcherRepository[n][id].sink]
      PROVE  sent[watcherRepository[n][id].sink][k] # Change(e)
  <2> DEFINE s == watcherRepository[n][id].sink
  <2>1. Sound(pc, ask, n, id, watcherRepository[n][id])
    BY <1>3, Zenon DEF WatchInv, RepositoryInv
  <2>2. s \in Requests
    BY <2>1, Zenon DEF Sound
  <2> HIDE DEF s
  <2>3. sent[s][k].kind = "change" => sent[s][k].version < queue[1].version
    BY <1>5, <1>7, <2>2, Zenon DEF WatchInv, SentInv, Past, s
  <2>4. Change(e).kind = "change" /\ Change(e).version = queue[1].version /\ queue[1].version \in Nat
    BY <1>4, MessageFacts, Zenon
  <2>5. ASSUME sent[s][k] = Change(e) PROVE FALSE
    <3>1. queue[1].version < queue[1].version
      BY <2>3, <2>4, <2>5, Zenon
    <3> QED BY <2>4, <3>1
  <2> QED BY <2>5, Zenon DEF s
<1>8. ASSUME NEW j \in jobs', j \notin jobs
      PROVE  \E id \in DOMAIN watcherRepository[n] : j = [id |-> id, event |-> e]
  BY <1>8, Zenon DEF selectWatcher, Selected, Watchers, e
<1>9. ASSUME NEW j \in jobs'
      PROVE  /\ j = [id |-> j.id, event |-> j.event] /\ j.event \in Events
             /\ j.event.what.namespace \in DOMAIN watcherRepository'
             /\ j.id \in DOMAIN watcherRepository'[j.event.what.namespace]
             /\ Past(j.event.version)'
             /\ \A k \in DOMAIN sent'[Sink(j)'] : sent'[Sink(j)'][k] # Change(j.event)
  <2>1. CASE j \in jobs
    BY <1>1, <2>1, JobKept, NotSentYet, Zenon DEF Past
  <2>2. CASE j \notin jobs
    <3>1. PICK id \in DOMAIN watcherRepository[n] : j = [id |-> id, event |-> e]
      BY <1>8, <2>2, Zenon
    <3>2. j.id = id /\ j.event = e /\ Sink(j)' = watcherRepository[n][id].sink
      BY <1>1, <3>1, Zenon DEF Sink
    <3> QED BY <1>1, <1>3, <1>4, <1>6, <1>7, <3>1, <3>2, ZenonT(30) DEF Past
  <2> QED BY <2>1, <2>2, Zenon
<1>10. JobInv'
  BY <1>9, Zenon DEF JobInv
<1> QED
  BY <1>2, <1>10, Zenon

(* Every step preserves the invariant.                                        *)
LEMMA WatchInductive == WatchInv /\ [Next]_vars => WatchInv'
<1> SUFFICES ASSUME WatchInv, [Next]_vars PROVE WatchInv'
  BY Zenon
<1>1. CASE Next
  <2>1. Kept
    BY <1>1, EveryStepKeeps, Zenon
  <2>2. ASSUME UNCHANGED <<sent, jobs>>
        PROVE  sent' \in [Requests -> Seq(Messages)] /\ SentInv' /\ JobInv'
    BY <2>1, <2>2, NothingSent, JobsStay, NotSentYet, Zenon
  <2>3. ASSUME NEW r \in Requests, watchConfig(r) \/ RequestStep(r) \/ CloseStream(r)
        PROVE  UNCHANGED <<sent, jobs>> \/ listenConfig(r)
    BY <2>3, Zenon DEF watchConfig, RequestStep, FindNamespace, InsertNamespace, ReadNamespace, AddNew,
       BeginMerge, MergeGroup, EndMerge, CloseStream
  <2>4. ASSUME PublishEvent \/ FindWatchers \/ \E j \in jobs : JobFatal(j)
        PROVE  UNCHANGED <<sent, jobs>>
    BY <2>4, Zenon DEF PublishEvent, FindWatchers, JobFatal
  <2>5. sent' \in [Requests -> Seq(Messages)] /\ SentInv' /\ JobInv'
    BY <1>1, <2>1, <2>2, <2>3, <2>4, ListenKeeps, ChangeKeeps, SelectKeeps, Zenon
       DEF Next, HandlerStep, JobStep
  <2> QED
    BY <1>1, <2>5, EveryStepKeepsAsks, EveryStepKeepsWatchers, EveryStepKeepsInsert,
       EveryStepKeepsQueue, Zenon DEF WatchInv, WatchType
<1>2. CASE UNCHANGED vars
  <2>1. WatchType' /\ RepositoryInv' /\ InsertInv'
    BY <1>2, Zenon DEF vars, WatchInv, WatchType, RepositoryInv, InsertInv
  <2>2. QueueInv'
    BY <1>2, Zenon DEF vars, WatchInv, QueueInv
  <2>3. JobInv'
    BY <1>2, ZenonT(30) DEF vars, WatchInv, JobInv, Past, Sink
  <2>4. SentInv'
    BY <1>2, Zenon DEF vars, WatchInv, SentInv, Past
  <2> QED BY <2>1, <2>2, <2>3, <2>4, Zenon DEF WatchInv
<1> QED
  BY <1>1, <1>2, Zenon

(* config_core.go, selectWatcher and onConfigChange, for any clients, files   *)
(* and events: a client is told only of what was asked for under its id, on a *)
(* stream of its own, and of each event once.                                 *)
THEOREM ClientsAreToldOnce == Spec => []ToldOnceWhatIsWatched
<1>1. WatchInv => ToldOnceWhatIsWatched
  BY Zenon DEF WatchInv, SentInv, ToldOnceWhatIsWatched, Fine, Of, SameWatcher, Asked
<1> QED
  BY <1>1, WatchInitially, WatchInductive, PTL DEF Spec
=============================================================================
