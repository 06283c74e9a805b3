------------------------------- MODULE Lessor -------------------------------
(***************************************************************************)
(* The leases of server/discovery/discovery_less.go: GrantLess gives a key *)
(* an expiry and a task on the time wheel, the task looks at the expiry    *)
(* and either reports the key or goes back to the wheel, and a goroutine   *)
(* hands the reported keys to the watchers.                                *)
(*                                                                         *)
(* The wheel is scheduler.go of the vendored pole-rpc: it puts a task into *)
(* the slot its delay leads to, scans a slot for the tasks whose circle is *)
(* negative, and has one worker per slot to run them.  A circle is never   *)
(* counted down, because the scan changes a copy of it.                    *)
(*                                                                         *)
(* Premises: NewTimeWheel returns (with an Interval of a second it asks    *)
(* make for more buckets than its capacity, and panics), somebody calls    *)
(* Start of the wheel, which the Lessor does not, and the channel          *)
(* expireKeys exists, unbuffered, where NewLessor leaves it nil.  Nothing  *)
(* here obliges a task to run, so that what is shown holds without the     *)
(* last two as well.                                                       *)
(*                                                                         *)
(* lessRep is written under lessLock and read under rwLock.  The two do    *)
(* not exclude each other, so that a read may meet a write half way, which *)
(* ends the process (MapRace).                                             *)
(***************************************************************************)
EXTENDS Integers, Sequences, FiniteSets

CONSTANTS
  LeaseKeys,    \* keys of the instances
  SlotNum,      \* 15
  Lease,        \* 15
  Second,       \* nanoseconds of a second
  Half,         \* a time.Duration lies in -Half .. Half - 1
  Half32,       \* an int32 lies in -Half32 .. Half32 - 1
  MaxNow,       \* bound: the clock, in milliseconds
  MaxGrants,    \* bound: tasks made
  MaxWatchers,  \* bound: watchers added
  MaxCtx,       \* bound: contexts made
  Absent, Loop

ASSUME LessorAssumption ==
  /\ {SlotNum, Lease, Second, Half, Half32} \subseteq Nat \ {0}
  /\ {MaxNow, MaxGrants, MaxWatchers, MaxCtx} \subseteq Nat
  /\ Absent \notin Int \cup LeaseKeys /\ Loop \notin Nat

VARIABLES
  ctxs,      \* contexts: 1 is the lessor's, 2 the one of its goroutine
  now,       \* GetCurrentTimeMs
  lessRep,   \* expiry of each key, Absent when the map has no entry
  tasks,     \* the less objects, numbered as they are made: key, slot, place, and
             \* whether the circle is negative
  readers,   \* holders of the read lock rwLock: tasks, or Loop
  adding,    \* "no", or "waits" for the write lock in AddExpireWatcher
  watchers,  \* number of watchers
  loop,      \* the goroutine: place and the key it has received
  fatal,     \* the process has ended on a concurrent map read and map write
  watch,     \* history: the task of each key's last grant, 0 if there is none
  granted,   \* history: leases granted to each key
  told,      \* history: reports of each key handed to the watchers
  late,      \* history: those of a key since it was revoked
  had        \* history: the reports under way when it was revoked

lessorVars == <<ctxs, now, lessRep, tasks, readers, adding, watchers, loop, fatal,
          watch, granted, told, late, had>>
history == <<watch, granted, told, late, had>>

C == INSTANCE ContextPole

-----------------------------------------------------------------------------
\* x as a signed integer of 2 * h values.
Wrap(x, h) == ((x + h) % (2 * h)) - h

\* Division and remainder round towards zero.
Quo(x, n) == IF x < 0 THEN -((-x) \div n) ELSE x \div n
Rem(x, n) == IF x < 0 THEN -((-x) % n) ELSE x % n

\* getSlots, the hand of the wheel being at tick: a bucket, or an index out of
\* range when the 32 bits of the sum make a negative number ...
Pos(delay, tick) == Rem(Wrap(tick + Quo(delay, Second), Half32), SlotNum)

\* ... and whether the circle is negative.
NegativeCircle(delay) == Quo(Quo(delay, Second), SlotNum) < 0

OnWheel(k, pos, ripe) == [key |-> k, slot |-> pos, at |-> "wheel", ripe |-> ripe]
Running(t) == tasks[t].at \in {"lock", "read", "send"}
SlotFree(s) == \A t \in DOMAIN tasks : tasks[t].slot = s => ~Running(t)
To(t, place) == [tasks EXCEPT ![t].at = place]

\* Reports of k on their way to the watchers: with the goroutine, or with a task
\* that has read the lease.
InHand(k) == IF loop.at \in {"got", "notify"} /\ loop.key = k THEN 1 ELSE 0
Sending(k) == {t \in DOMAIN tasks : tasks[t].key = k /\ tasks[t].at = "send"}
UnderWay(k) == InHand(k) + Cardinality(Sending(k))

\* RLock waits for a writer that waits.
MayRead == adding = "no"

LessorInit ==
  /\ ctxs = <<C!NewCtxPole, C!Context(1, FALSE)>>
  /\ now = 0
  /\ lessRep = [k \in LeaseKeys |-> Absent]
  /\ tasks = <<>>
  /\ readers = {}
  /\ adding = "no"
  /\ watchers = 0
  /\ loop = [at |-> "select", key |-> Absent]
  /\ fatal = FALSE
  /\ watch = [k \in LeaseKeys |-> 0]
  /\ granted = [k \in LeaseKeys |-> 0]
  /\ told = [k \in LeaseKeys |-> 0]
  /\ late = [k \in LeaseKeys |-> 0]
  /\ had = [k \in LeaseKeys |-> 0]

-----------------------------------------------------------------------------
(* What a caller does to a lease, under lessLock. *)

Expiry == Wrap((Lease + now) * Second, Half)

\* An index out of range panics in DelayExec, when the lease is already there,
\* and the deferred Unlock runs.
GrantLess(k, tick) ==
  LET pos == Pos(Expiry, tick) IN
  /\ Len(tasks) < MaxGrants
  /\ lessRep' = [lessRep EXCEPT ![k] = Expiry]
  /\ tasks' = IF pos < 0 THEN tasks
              ELSE Append(tasks, OnWheel(k, pos, NegativeCircle(Expiry)))
  /\ watch' = [watch EXCEPT ![k] = IF pos < 0 THEN 0 ELSE Len(tasks')]
  /\ granted' = [granted EXCEPT ![k] = @ + Len(tasks') - Len(tasks)]
  /\ late' = [late EXCEPT ![k] = 0]
  /\ UNCHANGED <<ctxs, now, readers, adding, watchers, loop, fatal, told, had>>

\* A key without an entry is left alone.
RenewLess(k) ==
  /\ lessRep[k] # Absent
  /\ lessRep' = [lessRep EXCEPT ![k] = Wrap(Lease * Second + @, Half)]
  /\ UNCHANGED <<ctxs, now, tasks, readers, adding, watchers, loop, fatal, history>>

\* The task of the key stays on the wheel.
RevokeLess(k) ==
  /\ lessRep[k] # Absent
  /\ lessRep' = [lessRep EXCEPT ![k] = Absent]
  /\ had' = [had EXCEPT ![k] = UnderWay(k)]
  /\ UNCHANGED <<ctxs, now, tasks, readers, adding, watchers, loop, fatal,
                 watch, granted, told, late>>

\* A caller writes lessRep while a task reads it.
MapRace ==
  /\ \E t \in DOMAIN tasks : tasks[t].at = "read"
  /\ fatal' = TRUE
  /\ UNCHANGED <<ctxs, now, lessRep, tasks, readers, adding, watchers, loop, history>>

-----------------------------------------------------------------------------
(* less.Run on the worker of its slot. *)

\* The scan of a slot passes over the tasks without a negative circle, and now
\* and then, when the worker is slow, over others.
Fire(t) ==
  /\ tasks[t].at = "wheel"
  /\ tasks[t].ripe
  /\ SlotFree(tasks[t].slot)
  /\ tasks' = To(t, "lock")
  /\ UNCHANGED <<ctxs, now, lessRep, readers, adding, watchers, loop, fatal, history>>

RunLock(t) ==
  /\ tasks[t].at = "lock"
  /\ MayRead
  /\ tasks' = To(t, "read")
  /\ readers' = readers \cup {t}
  /\ UNCHANGED <<ctxs, now, lessRep, adding, watchers, loop, fatal, history>>

Due(k) == lessRep[k] # Absent /\ lessRep[k] <= now

\* The send holds the read lock until the goroutine receives.
RunDue(t) ==
  /\ tasks[t].at = "read"
  /\ Due(tasks[t].key)
  /\ tasks' = To(t, "send")
  /\ UNCHANGED <<ctxs, now, lessRep, readers, adding, watchers, loop, fatal, history>>

RunRevoked(t) ==
  /\ tasks[t].at = "read"
  /\ lessRep[tasks[t].key] = Absent
  /\ tasks' = To(t, "dropped")
  /\ readers' = readers \ {t}
  /\ UNCHANGED <<ctxs, now, lessRep, adding, watchers, loop, fatal, history>>

\* The expiry is ahead, so the circle is not negative: the task stays in its
\* slot for good.  A panic of DelayExec is one of the worker, and ends the
\* process.
AgainNever(t, tick) ==
  /\ tasks[t].at = "read"
  /\ lessRep[tasks[t].key] # Absent
  /\ ~Due(tasks[t].key)
  /\ readers' = readers \ {t}
  /\ tasks' = To(t, "dropped")
  /\ UNCHANGED <<ctxs, now, lessRep, adding, watchers, loop, fatal, history>>

RunAgain(t, tick) ==
  LET k == tasks[t].key
      pos == Pos(lessRep[k], tick)
  IN  /\ tasks[t].at = "read"
      /\ lessRep[k] # Absent
      /\ ~Due(k)
      /\ readers' = readers \ {t}
      /\ IF pos < 0
         THEN fatal' = TRUE /\ UNCHANGED tasks
         ELSE /\ tasks' = [tasks EXCEPT ![t] = OnWheel(k, pos, NegativeCircle(lessRep[k]))]
              /\ UNCHANGED fatal
      /\ UNCHANGED <<ctxs, now, lessRep, adding, watchers, loop, history>>

-----------------------------------------------------------------------------
(* The goroutine of start, and notifyExpire. *)

ReceiveKeepsTask(t) ==
  /\ loop.at = "select"
  /\ tasks[t].at = "send"
  /\ loop' = [at |-> "got", key |-> tasks[t].key]
  /\ tasks' = To(t, "wheel")
  /\ readers' = readers \ {t}
  /\ UNCHANGED <<ctxs, now, lessRep, adding, watchers, fatal, history>>

Receive(t) ==
  /\ loop.at = "select"
  /\ tasks[t].at = "send"
  /\ loop' = [at |-> "got", key |-> tasks[t].key]
  /\ tasks' = To(t, "told")
  /\ readers' = readers \ {t}
  /\ UNCHANGED <<ctxs, now, lessRep, adding, watchers, fatal, history>>

ReceiveDone ==
  /\ loop.at = "select"
  /\ C!Done(2)
  /\ loop' = [loop EXCEPT !.at = "end"]
  /\ UNCHANGED <<ctxs, now, lessRep, tasks, readers, adding, watchers, fatal, history>>

NotifyLock ==
  /\ loop.at = "got"
  /\ MayRead
  /\ loop' = [loop EXCEPT !.at = "notify"]
  /\ readers' = readers \cup {Loop}
  /\ UNCHANGED <<ctxs, now, lessRep, tasks, adding, watchers, fatal, history>>

NotifyExpire ==
  /\ loop.at = "notify"
  /\ loop' = [at |-> "select", key |-> Absent]
  /\ readers' = readers \ {Loop}
  /\ told' = [told EXCEPT ![loop.key] = @ + 1]
  /\ late' = IF lessRep[loop.key] = Absent
             THEN [late EXCEPT ![loop.key] = @ + 1] ELSE late
  /\ UNCHANGED <<ctxs, now, lessRep, tasks, adding, watchers, fatal, watch, granted, had>>

-----------------------------------------------------------------------------
AddWait ==
  /\ adding = "no"
  /\ watchers < MaxWatchers
  /\ adding' = "waits"
  /\ UNCHANGED <<ctxs, now, lessRep, tasks, readers, watchers, loop, fatal, history>>

AddExpireWatcher ==
  /\ adding = "waits"
  /\ readers = {}
  /\ adding' = "no"
  /\ watchers' = watchers + 1
  /\ UNCHANGED <<ctxs, now, lessRep, tasks, readers, loop, fatal, history>>

\* The ticker of utils/common_util.go.
Elapse ==
  /\ now < MaxNow
  /\ now' = now + 1
  /\ UNCHANGED <<ctxs, lessRep, tasks, readers, adding, watchers, loop, fatal, history>>

\* Whoever made the context of the lessor cancels it, or its goroutine's ends.
Contexts ==
  /\ \E c \in DOMAIN ctxs : C!Cancel(c)
  /\ UNCHANGED <<now, lessRep, tasks, readers, adding, watchers, loop, fatal, history>>

Ticks == 0 .. SlotNum - 1

Task(t) ==
  \/ Fire(t) \/ RunLock(t) \/ RunDue(t) \/ RunRevoked(t) \/ Receive(t)
  \/ \E tick \in Ticks : RunAgain(t, tick)

LessorNext ==
  /\ ~fatal
  /\ \/ \E k \in LeaseKeys : RenewLess(k) \/ RevokeLess(k) \/ \E tick \in Ticks : GrantLess(k, tick)
     \/ MapRace
     \/ \E t \in DOMAIN tasks : Task(t)
     \/ ReceiveDone \/ NotifyLock \/ NotifyExpire
     \/ AddWait \/ AddExpireWatcher
     \/ Elapse
     \/ Contexts

LessorSpec == LessorInit /\ [][LessorNext]_lessorVars

-----------------------------------------------------------------------------
(* Properties *)

\* Tasks of k that may still report it.
Live(k) == {t \in DOMAIN tasks : tasks[t].key = k /\ tasks[t].at \notin {"told", "dropped"}}

\* discovery_less.go:64-67, 79-84, 108-119: a lease is reported at most once per
\* grant, whatever renewals, revocations and grants of the same key meet its
\* task: the task that reports does not go back to the wheel.  After RevokeLess
\* the watchers may still be told of the key, but only by the reports that were
\* under way at that time, in a task that had read the lease or with the
\* goroutine; never by a task that reads the lease afterwards.
ReportsBounded ==
  \A k \in LeaseKeys :
    /\ told[k] + InHand(k) + Cardinality(Live(k)) <= granted[k]
    /\ lessRep[k] = Absent => late[k] + UnderWay(k) <= had[k]

\* discovery_less.go:58-68, 79-84, 105-119: as long as a key has a lease, the
\* task of its last grant is on the wheel, in its Run or has reported the key: a
\* task that finds the key revoked gives up, also when the key is granted again
\* before or after, but never the one that the lease in force relies on.  A grant
\* whose DelayExec panicked has none from the start.
LeaseIsWatched ==
  \A k \in LeaseKeys :
    lessRep[k] # Absent /\ watch[k] # 0 =>
      tasks[watch[k]].key = k /\ tasks[watch[k]].at # "dropped"
=============================================================================
