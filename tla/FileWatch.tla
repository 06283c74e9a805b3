------------------------------ MODULE FileWatch ------------------------------
(***************************************************************************)
(* WatcherCenter of notify/watch_file_center.go for the one directory that *)
(* the repository registers, the configuration directory: the watchers     *)
(* registered for it, fsnotify's watch and queue of events, and the loop   *)
(* that takes an event and calls the watchers one after the other.         *)
(*                                                                         *)
(* watcherMap holds a Go slice, and so does the loop while it calls: they  *)
(* share the backing array until an append makes another one, and what     *)
(* removeElement and append write to it the loop reads.                    *)
(*                                                                         *)
(* Premise: the centre has been made; only the tests call                  *)
(* InitWatcherCenter.  LogInstalled says whether w.log has a value, which  *)
(* the code never gives it.  Shutdown has no caller and is left out.       *)
(***************************************************************************)
EXTENDS Integers, Sequences, FiniteSets

CONSTANTS
  LogInstalled,
  MaxQueue        \* bound: events that the kernel queues before it overflows

ASSUME FileWatchAssumption == LogInstalled \in BOOLEAN /\ MaxQueue \in Nat \ {0}

VARIABLES
  slots,     \* the backing array of watcherMap[path]; 0 where nothing was written
  length,    \* the length of the slice
  watched,   \* whether fsnotify watches the directory
  queue,     \* the events the loop has not received yet
  loop       \* the loop: where it is, the event, its slice and the watcher called

watchVars == <<slots, length, watched, queue, loop>>

-----------------------------------------------------------------------------
\* "conf" is the creation, a write or the removal of cluster.conf, "other" any
\* other event, "overflow" fsnotify's error for events that were lost.
Events == {"conf", "other", "overflow"}

Receiving == [at |-> "receive"]
Dead == [at |-> "dead"]
Crashed == loop.at = "crashed"
Calling == loop.at \in {"call", "apply"}

\* fws, the slice the loop iterates: its own array, or the one of watcherMap.
Held(l) == IF l.shared THEN slots ELSE l.array
Watcher == Held(loop)[loop.i]

Listed == {slots[i] : i \in 1 .. length}

WatchInit(ws) ==
  /\ slots = ws
  /\ length = Len(ws)
  /\ watched = (ws # <<>>)
  /\ queue = <<>>
  /\ loop = Receiving

-----------------------------------------------------------------------------
(* The array of watcherMap is left to the loop, with what it then holds. *)
Detached(array) == IF Calling /\ loop.shared
                   THEN [loop EXCEPT !.shared = FALSE, !.array = array]
                   ELSE loop

Grown(w) == SubSeq(slots, 1, length) \o <<w>> \o [i \in 1 .. length - 1 |-> 0]

append(w) ==
  IF length < Len(slots)
  THEN slots' = [slots EXCEPT ![length + 1] = w] /\ UNCHANGED loop
  ELSE slots' = Grown(w) /\ loop' = Detached(slots)

\* RegisterFileWatcher, under the centre's lock: watch.Add succeeds ...
AddsOnce == watched' = (watched \/ slots = <<>>)
Adds == watched' = TRUE

Register(w) ==
  /\ append(w)
  /\ length' = length + 1
  /\ Adds
  /\ UNCHANGED queue

\* ... or fails, and all the watchers of the directory are forgotten.
RegisterFails(w) ==
  /\ slots' = <<>>
  /\ length' = 0
  /\ loop' = Detached(IF length < Len(slots) THEN [slots EXCEPT ![length + 1] = w] ELSE slots)
  /\ UNCHANGED <<watched, queue>>

\* removeElement keeps the elements that are to go, in the array itself: with
\* the predicate it is called with, as many times w as w is listed.
removeElement(w) == [i \in 1 .. Cardinality({k \in 1 .. length : slots[k] = w}) |-> w]

\* fsnotify forgets the name of the directory at once: of the events that it
\* has not passed on only the first may still have its path.
Nameless(e) == IF e = "conf" THEN "other" ELSE e
Forget(k) == [i \in DOMAIN queue |-> IF i <= k THEN queue[i] ELSE Nameless(queue[i])]

RemoveFileWatcher(w) ==
  LET kept == removeElement(w) IN
  /\ slots' = kept \o SubSeq(slots, Len(kept) + 1, Len(slots))
  /\ length' = Len(kept)
  /\ watched' = FALSE
  /\ IF watched THEN \E k \in {0, 1} : queue' = Forget(k) ELSE UNCHANGED queue
  /\ UNCHANGED loop

-----------------------------------------------------------------------------
(* The kernel's queue: an event that finds it full becomes one overflow. *)
Occur(e) ==
  /\ queue' = CASE ~watched -> queue
                [] watched /\ Len(queue) < MaxQueue -> Append(queue, e)
                [] watched /\ Len(queue) = MaxQueue -> Append(queue, "overflow")
                [] OTHER -> queue
  /\ UNCHANGED <<slots, length, watched, loop>>

-----------------------------------------------------------------------------
(* The loop of start.  Its range over watcherMap takes no lock. *)

NotifiesChanges(e) == e = "conf"
Notifies(e) == e \in {"conf", "overflow"}

\* After the last watcher.  The branch of the errors then writes to w.log.
AfterCalls(e) == IF e = "overflow" /\ ~LogInstalled THEN Dead ELSE Receiving

Receive ==
  /\ loop.at = "receive"
  /\ queue # <<>>
  /\ queue' = Tail(queue)
  /\ loop' = IF Notifies(Head(queue)) /\ length > 0
             THEN [at |-> "call", event |-> Head(queue), shared |-> TRUE,
                   array |-> <<>>, len |-> length, i |-> 1, f |-> 0, read |-> 0]
             ELSE AfterCalls(Head(queue))
  /\ UNCHANGED <<slots, length, watched>>

\* OnEvent of the next watcher has read version v of its file ...
HasRead(v) ==
  /\ loop.at = "call"
  /\ loop' = [loop EXCEPT !.at = "apply", !.f = Watcher, !.read = v]
  /\ UNCHANGED <<slots, length, watched, queue>>

\* ... and has returned.
Returned ==
  /\ loop.at = "apply"
  /\ loop' = IF loop.i < loop.len
             THEN [loop EXCEPT !.at = "call", !.i = @ + 1, !.f = 0, !.read = 0]
             ELSE AfterCalls(loop.event)
  /\ UNCHANGED <<slots, length, watched, queue>>

\* It panics.  A change is recovered from, by a call of w.log.Fatal; the
\* branch of the errors has no recover.
Panics ==
  /\ loop.at = "call"
  /\ loop' = IF loop.event = "conf" /\ LogInstalled THEN Receiving ELSE Dead
  /\ UNCHANGED <<slots, length, watched, queue>>

\* Go ends the process when the map is written while the loop ranges over it.
MapRace ==
  /\ loop.at = "receive"
  /\ queue # <<>>
  /\ loop' = [at |-> "crashed"]
  /\ UNCHANGED <<slots, length, watched, queue>>
=============================================================================
