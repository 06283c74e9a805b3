---------------------------- MODULE ConfigWatch ----------------------------
(***************************************************************************)
(* The watches of server/config/config_core.go: clients ask on a stream    *)
(* to be told of changes of files (listenConfig, AddWatcher, merge), the   *)
(* handler of the ConfigChangeEvent topic selects the watchers of a        *)
(* changed file (OnEvent, selectWatcher) and the routine pool runs one job *)
(* for each (onConfigChange).                                              *)
(*                                                                         *)
(* NewSetWithValues takes its values one by one, and both callers hand it  *)
(* a []string as one value.  A slice cannot be the key of a Go map, so the *)
(* call panics.  ValuesSpread = FALSE is the code as it stands;            *)
(* ValuesSpread = TRUE is the same code with the slice spread.             *)
(*                                                                         *)
(* Premises: ConfigCore.watcherMgn is set and subscribed, which nothing in *)
(* the repository does, and a worker of the routine pool is free in the    *)
(* end.                                                                    *)
(*                                                                         *)
(* Go's maps end the process when they notice a read or write beside a     *)
(* write; whether they notice is left open here (Races).                   *)
(***************************************************************************)
EXTENDS Naturals, Sequences, FiniteSets

CONSTANTS
  Requests,      \* the streams on which clients send a watch request
  Asks,          \* what a client may ask for: namespace, id, items
  Changes,       \* what may change: namespace, group, file
  Unencodable,   \* the changes whose content MarshalAny rejects
  ValuesSpread,
  MaxEvents      \* bound: events published

ASSUME ConfigWatchAssumption ==
  /\ Unencodable \subseteq Changes
  /\ ValuesSpread \in BOOLEAN
  /\ MaxEvents \in Nat

Namespaces == {a.namespace : a \in Asks} \cup {c.namespace : c \in Changes}

VARIABLES
  watcherRepository,  \* namespace -> id -> [items, sink], where present
  lock,               \* WatcherManager.lock: "free", "read", "write"
  idsLock,            \* aggWatcher.lock by namespace: "free", "write"
  pc,                 \* where listenConfig stands for each request
  ask,                \* what each request asked for
  todo,               \* the groups merge has still to visit
  queue,              \* events accepted for the topic and not yet handled
  selecting,          \* selectWatcher has found the namespace of Head(queue)
  jobs,               \* jobs in the routine pool
  published,          \* number of events published: the next version
  open,               \* streams the client has not closed
  sent,               \* messages that reached the client, by stream
  fatal               \* the runtime has ended the process

vars == <<watcherRepository, lock, idsLock, pc, ask, todo, queue, selecting,
          jobs, published, open, sent, fatal>>

-----------------------------------------------------------------------------
NoAsk == [namespace |-> "none", id |-> "none", items |-> <<>>]
Failed == [kind |-> "failed", version |-> 0]
Change(e) == [kind |-> "change", version |-> e.version, what |-> e.what]

Put(f, k, v) == [x \in DOMAIN f \cup {k} |-> IF x = k THEN v ELSE f[x]]
At(f, k) == IF k \in DOMAIN f THEN f[k] ELSE {}

Watchers(n) == watcherRepository[n]
Exists(r) == ask[r].id \in DOMAIN Watchers(ask[r].namespace)
ItemMap(n, id) == watcherRepository[n][id].items

\* RpcServerContext.Send, whose error every caller ignores.
Send(r, m) ==
  sent' = [sent EXCEPT ![r] = IF r \in open THEN Append(@, m) ELSE @]

Init ==
  /\ watcherRepository = <<>>
  /\ lock = "free"
  /\ idsLock = [n \in Namespaces |-> "free"]
  /\ pc = [r \in Requests |-> "idle"]
  /\ ask = [r \in Requests |-> NoAsk]
  /\ todo = [r \in Requests |-> {}]
  /\ queue = <<>>
  /\ selecting = FALSE
  /\ jobs = {}
  /\ published = 0
  /\ open = {}
  /\ sent = [r \in Requests |-> <<>>]
  /\ fatal = FALSE

-----------------------------------------------------------------------------
(* AddWatcher.  The repository is written under the lock ... *)

\* A request whose body cannot be decoded is answered with an error and leaves
\* everything as it is: it is no step here.
watchConfig(r) ==
  /\ ~fatal
  /\ pc[r] = "idle"
  /\ \E a \in Asks : ask' = [ask EXCEPT ![r] = a]
  /\ open' = open \cup {r}
  /\ pc' = [pc EXCEPT ![r] = "lock"]
  /\ UNCHANGED <<watcherRepository, lock, idsLock, todo, queue, selecting,
                 jobs, published, sent, fatal>>

NamespaceExists(r) == ask[r].namespace \in DOMAIN watcherRepository

FindNamespace(r) ==
  /\ ~fatal
  /\ pc[r] = "lock"
  /\ lock = "free"
  /\ IF NamespaceExists(r)
     THEN pc' = [pc EXCEPT ![r] = "read"] /\ UNCHANGED lock
     ELSE pc' = [pc EXCEPT ![r] = "insert"] /\ lock' = "write"
  /\ UNCHANGED <<watcherRepository, idsLock, ask, todo, queue, selecting, jobs,
                 published, open, sent, fatal>>

InsertNamespace(r) ==
  /\ ~fatal
  /\ pc[r] = "insert"
  /\ watcherRepository' = Put(watcherRepository, ask[r].namespace, <<>>)
  /\ lock' = "free"
  /\ pc' = [pc EXCEPT ![r] = "read"]
  /\ UNCHANGED <<idsLock, ask, todo, queue, selecting, jobs, published, open,
                 sent, fatal>>

(* ... and read without it. *)
ReadRaces(r) == \E q \in Requests \ {r} : pc[q] = "insert"

ReadNamespace(r) ==
  /\ ~fatal
  /\ pc[r] = "read"
  /\ \/ pc' = [pc EXCEPT ![r] = "attach"] /\ UNCHANGED fatal
     \/ ReadRaces(r) /\ fatal' = TRUE /\ UNCHANGED pc
  /\ UNCHANGED <<watcherRepository, lock, idsLock, ask, todo, queue, selecting,
                 jobs, published, open, sent>>

NewWatcher(r) == [items |-> ask[r].items, sink |-> r]

AddNew(r) ==
  /\ ~fatal
  /\ pc[r] = "attach"
  /\ idsLock[ask[r].namespace] = "free"
  /\ ~Exists(r)
  /\ watcherRepository' =
       [watcherRepository EXCEPT
          ![ask[r].namespace] = Put(@, ask[r].id, NewWatcher(r))]
  /\ pc' = [pc EXCEPT ![r] = "answer"]
  /\ UNCHANGED <<lock, idsLock, ask, todo, queue, selecting, jobs, published,
                 open, sent, fatal>>

BeginMerge(r) ==
  /\ ~fatal
  /\ pc[r] = "attach"
  /\ idsLock[ask[r].namespace] = "free"
  /\ Exists(r)
  /\ idsLock' = [idsLock EXCEPT ![ask[r].namespace] = "write"]
  /\ todo' = [todo EXCEPT ![r] = DOMAIN ask[r].items]
  /\ pc' = [pc EXCEPT ![r] = "merge"]
  /\ UNCHANGED <<watcherRepository, lock, ask, queue, selecting, jobs,
                 published, open, sent, fatal>>

merge(items, more, g) == Put(items, g, At(items, g) \cup more[g])

Spreads(items, g) == ValuesSpread \/ g \in DOMAIN items

AfterMerge(r) == [idsLock EXCEPT ![ask[r].namespace] = "free"]

\* One group of merge.  After a panic the locks are released by defer and the
\* stream gets no answer.
MergeGroup(r, g) ==
  LET n == ask[r].namespace
      id == ask[r].id
  IN /\ ~fatal
     /\ pc[r] = "merge"
     /\ g \in todo[r]
     /\ IF Spreads(ItemMap(n, id), g)
        THEN /\ watcherRepository' =
                  [watcherRepository EXCEPT
                     ![n][id].items = merge(@, ask[r].items, g)]
             /\ todo' = [todo EXCEPT ![r] = @ \ {g}]
             /\ UNCHANGED <<idsLock, pc>>
        ELSE /\ idsLock' = AfterMerge(r)
             /\ todo' = [todo EXCEPT ![r] = {}]
             /\ pc' = [pc EXCEPT ![r] = "panicked"]
             /\ UNCHANGED watcherRepository
     /\ UNCHANGED <<lock, ask, queue, selecting, jobs, published, open, sent,
                    fatal>>

EndMerge(r) ==
  /\ ~fatal
  /\ pc[r] = "merge"
  /\ todo[r] = {}
  /\ idsLock' = AfterMerge(r)
  /\ pc' = [pc EXCEPT ![r] = "answer"]
  /\ UNCHANGED <<watcherRepository, lock, ask, todo, queue, selecting, jobs,
                 published, open, sent, fatal>>

\* AddWatcher returns false whatever it has done.
listenConfig(r) ==
  /\ ~fatal
  /\ pc[r] = "answer"
  /\ Send(r, Failed)
  /\ pc' = [pc EXCEPT ![r] = "done"]
  /\ UNCHANGED <<watcherRepository, lock, idsLock, ask, todo, queue, selecting,
                 jobs, published, open, fatal>>

-----------------------------------------------------------------------------
(* OnEvent, called by the handler of the topic for one event at a time. *)

PublishEvent ==
  /\ ~fatal
  /\ published < MaxEvents
  /\ \E c \in Changes :
       queue' = Append(queue, [what |-> c, version |-> published + 1])
  /\ published' = published + 1
  /\ UNCHANGED <<watcherRepository, lock, idsLock, pc, ask, todo, selecting,
                 jobs, open, sent, fatal>>

AfterLookup == "free"

\* The first part of selectWatcher, under the read lock.
FindWatchers ==
  /\ ~fatal
  /\ queue # <<>>
  /\ ~selecting
  /\ lock = "free"
  /\ lock' = AfterLookup
  /\ IF Head(queue).what.namespace \in DOMAIN watcherRepository
     THEN selecting' = TRUE /\ UNCHANGED queue
     ELSE queue' = Tail(queue) /\ UNCHANGED selecting
  /\ UNCHANGED <<watcherRepository, idsLock, pc, ask, todo, jobs, published,
                 open, sent, fatal>>

OneOfGroup(e) ==
  LET ids == {id \in DOMAIN Watchers(e.what.namespace) :
                e.what.group \in DOMAIN ItemMap(e.what.namespace, id)}
  IN {id \in ids : id = CHOOSE i \in ids : TRUE}
Selected(e) ==
  {id \in DOMAIN Watchers(e.what.namespace) :
     e.what.group \in DOMAIN ItemMap(e.what.namespace, id)}

\* The second part: with the set of client ids empty every watcher of the
\* group is called back.  A panic of NewSetWithValues is recovered by
\* notifySubscriber, and the handler goes on with the next event.
selectWatcher ==
  /\ ~fatal
  /\ selecting
  /\ idsLock[Head(queue).what.namespace] = "free"
  /\ jobs' = IF ValuesSpread
             THEN jobs \cup {[id |-> id, event |-> Head(queue)] :
                              id \in Selected(Head(queue))}
             ELSE jobs
  /\ queue' = Tail(queue)
  /\ selecting' = FALSE
  /\ UNCHANGED <<watcherRepository, lock, idsLock, pc, ask, todo, published,
                 open, sent, fatal>>

-----------------------------------------------------------------------------
(* A job of the pool reads the watcher without a lock. *)

\* merge is writing the map of groups, or the files of the group.
JobRaces(j) ==
  \E r \in Requests :
    /\ pc[r] = "merge"
    /\ ask[r].namespace = j.event.what.namespace
    /\ ask[r].id = j.id
    /\ \E g \in todo[r] :
         \/ g \notin DOMAIN ItemMap(ask[r].namespace, ask[r].id)
         \/ g = j.event.what.group

AnyFile(items, c) == c.group \in DOMAIN items
IsWatched(items, c) == c.file \in At(items, c.group)

JobTaken(j) == jobs \ {j}

onConfigChange(j) ==
  LET c == j.event.what
      w == watcherRepository[c.namespace][j.id]
  IN /\ ~fatal
     /\ jobs' = JobTaken(j)
     /\ IF IsWatched(w.items, c) /\ c \notin Unencodable
        THEN Send(w.sink, Change(j.event))
        ELSE UNCHANGED sent
     /\ UNCHANGED <<watcherRepository, lock, idsLock, pc, ask, todo, queue,
                    selecting, published, open, fatal>>

JobFatal(j) ==
  /\ ~fatal
  /\ JobRaces(j)
  /\ fatal' = TRUE
  /\ UNCHANGED <<watcherRepository, lock, idsLock, pc, ask, todo, queue,
                 selecting, jobs, published, open, sent>>

\* The client goes away.  No code removes its watcher.
CloseStream(r) ==
  /\ ~fatal
  /\ r \in open
  /\ open' = open \ {r}
  /\ UNCHANGED <<watcherRepository, lock, idsLock, pc, ask, todo, queue,
                 selecting, jobs, published, sent, fatal>>

-----------------------------------------------------------------------------
RequestStep(r) ==
  \/ FindNamespace(r)
  \/ InsertNamespace(r)
  \/ ReadNamespace(r)
  \/ AddNew(r)
  \/ BeginMerge(r)
  \/ \E g \in todo[r] : MergeGroup(r, g)
  \/ EndMerge(r)
  \/ listenConfig(r)

HandlerStep == FindWatchers \/ selectWatcher

JobStep == \E j \in jobs : onConfigChange(j)

Next ==
  \/ \E r \in Requests : watchConfig(r) \/ RequestStep(r) \/ CloseStream(r)
  \/ PublishEvent
  \/ HandlerStep
  \/ JobStep
  \/ \E j \in jobs : JobFatal(j)

Spec == Init /\ [][Next]_vars

\* Goroutines that can run do, in the end.  Nobody has to send a request,
\* publish an event or close a stream.
FairSpec ==
  /\ Spec
  /\ \A r \in Requests : WF_vars(RequestStep(r))
  /\ WF_vars(HandlerStep)
  /\ WF_vars(JobStep)

-----------------------------------------------------------------------------
(* Properties *)

Attached(r) == pc[r] \in {"answer", "done"}
Asked(r, c) ==
  /\ ask[r].namespace = c.namespace
  /\ c.file \in At(ask[r].items, c.group)
SameWatcher(q, r) == ask[q].namespace = ask[r].namespace /\ ask[q].id = ask[r].id
Told(r, e) == \E i \in DOMAIN sent[r] : sent[r][i] = Change(e)

\* A client is told only of files that it, under its id, has asked for, and
\* only on a stream of its own, and no event is sent twice on a stream, though
\* jobs, merges and further events interleave (selectWatcher, onConfigChange).
ToldOnceWhatIsWatched ==
  \A r \in Requests : \A i \in DOMAIN sent[r] :
    /\ sent[r][i].kind = "change" =>
         \E q \in Requests : SameWatcher(q, r) /\ Asked(q, sent[r][i].what)
    /\ \A k \in DOMAIN sent[r] : sent[r][i] = sent[r][k] => i = k

\* A watch that is in place when an event is published leads to a message on
\* the stream that the watcher holds, unless that stream has been closed or
\* the process has ended (OnEvent to onConfigChange).  The stream is the one
\* of the first request with the id: a client that comes back with its id is
\* told on the stream it has left.
WatchersTold ==
  \A r \in Requests : \A c \in Changes \ Unencodable : \A v \in 1..MaxEvents :
    LET e == [what |-> c, version |-> v]
    IN (Attached(r) /\ Asked(r, c) /\ \E i \in DOMAIN queue : queue[i] = e)
         ~> (\/ fatal
             \/ \E q \in Requests : SameWatcher(q, r) /\ Told(q, e)
             \/ Attached(r) /\ Watchers(ask[r].namespace)[ask[r].id].sink \notin open)

=============================================================================
