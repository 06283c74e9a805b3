---------------------------- MODULE HealthCheck ----------------------------
(***************************************************************************)
(* The health-check plugins of client/healthcheck (custom, heartbeat, HTTP *)
(* and TCP), registered with plugin/plugin_center.go.  The four plugins    *)
(* are the same program around a different check: a map of tasks by        *)
(* address, and a time wheel that runs a task once, after which the task   *)
(* puts itself back unless it has been cancelled.                          *)
(*                                                                         *)
(* The wheel is the one of pole-rpc's scheduler.go, as the plugins use it: *)
(* a list of tasks and one worker per slot.  Once the wheel is started, a  *)
(* worker runs the tasks of its slot one after the other, in the order in  *)
(* which they were put there.  Two premises: the plugins call AddTask with *)
(* a delay and NewTimeWheel with numbers, where the vendored package has   *)
(* DelayExec and options; and the task does run, where the vendored scan   *)
(* passes every task over whose circle is not negative.                    *)
(*                                                                         *)
(* AddTask before Init writes to a nil map and panics without an effect;   *)
(* RemoveTask before Init finds nothing.  Neither is a step here.          *)
(***************************************************************************)
EXTENDS Naturals, Sequences

CONSTANTS
  Kinds,      \* names of the plugins
  Tcp,        \* the one that keeps a connection
  Addrs,      \* ip:port of the instances
  Slots,      \* of a wheel; 16 in the code
  None,
  MaxTasks    \* bound: tasks created

ASSUME HealthCheckAssumption == Tcp \in Kinds /\ None \notin Nat /\ MaxTasks \in Nat

VARIABLES
  phase,           \* of each plugin, in the centre's pluginRepository or absent
  taskRepository,  \* by plugin and address: the number of a task, or None
  tasks,           \* the task objects, numbered as they are made
  wheel,           \* by plugin and slot: the tasks that wait for its worker
  late             \* history: runs of each task begun after its cancellation

vars == <<phase, taskRepository, tasks, wheel, late>>

-----------------------------------------------------------------------------
Task(k, a, slot, where) ==
  [kind |-> k, addr |-> a, slot |-> slot, cancel |-> FALSE, conn |-> "none",
   at |-> where]
Held(t) == t.at \in {"run", "end", "again"}
Live(t) == t.at = "wheel" \/ Held(t)

\* TcpRead waits for a byte from a peer that may never send one.
MayBlock(t) == t.at = "run" /\ t.kind = Tcp /\ t.conn = "open"

Init ==
  /\ phase = [k \in Kinds |-> "absent"]
  /\ taskRepository = [k \in Kinds |-> [a \in Addrs |-> None]]
  /\ tasks = <<>>
  /\ wheel = [k \in Kinds |-> [s \in Slots |-> <<>>]]
  /\ late = <<>>

-----------------------------------------------------------------------------
(* plugin_center.go.  Init and Run of a plugin follow in a goroutine. *)

NameFree(k) == phase[k] = "absent"

RegisterPlugin(k) ==
  /\ NameFree(k)
  /\ phase' = [phase EXCEPT ![k] = "registered"]
  /\ UNCHANGED <<taskRepository, tasks, wheel, late>>

\* The test is the same one: a plugin that is registered is refused, one that
\* is not is stored and its Destroy panics on the wheel it does not have.
DeregisterPlugin(k) ==
  /\ phase[k] = "absent"
  /\ phase' = [phase EXCEPT ![k] = "dead"]
  /\ UNCHANGED <<taskRepository, tasks, wheel, late>>

InitMap(k) ==
  /\ phase[k] = "registered"
  /\ phase' = [phase EXCEPT ![k] = "mapped"]
  /\ taskRepository' = [taskRepository EXCEPT ![k] = [a \in Addrs |-> None]]
  /\ UNCHANGED <<tasks, wheel, late>>

InitWheel(k) ==
  /\ phase[k] = "mapped"
  /\ phase' = [phase EXCEPT ![k] = "ready"]
  /\ UNCHANGED <<taskRepository, tasks, wheel, late>>

Run(k) ==
  /\ phase[k] = "ready"
  /\ phase' = [phase EXCEPT ![k] = "running"]
  /\ UNCHANGED <<taskRepository, tasks, wheel, late>>

-----------------------------------------------------------------------------
(* AddTask and RemoveTask of a plugin, under its rwLock. *)

\* The wheel puts a task at the end of the slot that its hand reaches after the
\* delay.
Put(k, slot, o) == [wheel EXCEPT ![k][slot] = Append(@, o)]

\* Between the two assignments of Init there is a map and no wheel: the task
\* is stored, and the call panics.
HasWheel(k) == phase[k] # "mapped"

AddTask(k, a, slot) ==
  /\ phase[k] \in {"mapped", "ready", "running"}
  /\ Len(tasks) < MaxTasks
  /\ tasks' = Append(tasks, Task(k, a, slot, IF HasWheel(k) THEN "wheel" ELSE "stranded"))
  /\ wheel' = IF HasWheel(k) THEN Put(k, slot, Len(tasks')) ELSE wheel
  /\ taskRepository' = [taskRepository EXCEPT ![k][a] = Len(tasks')]
  /\ late' = Append(late, 0)
  /\ UNCHANGED phase

Unregistered(k, a) == [taskRepository EXCEPT ![k][a] = None]
Cancel(o) == [tasks EXCEPT ![o].cancel = TRUE]

RemoveTask(k, a) ==
  LET o == taskRepository[k][a] IN
  /\ o # None
  /\ tasks' = Cancel(o)
  /\ taskRepository' = Unregistered(k, a)
  /\ UNCHANGED <<phase, wheel, late>>

-----------------------------------------------------------------------------
(* Run of a task, on the worker of its slot. *)

Neighbours(o) ==
  {p \in DOMAIN tasks : tasks[p].kind = tasks[o].kind /\ tasks[p].slot = tasks[o].slot}

PluginFree(o) == \A p \in DOMAIN tasks : tasks[p].kind = tasks[o].kind => ~Held(tasks[p])
WorkerFree(o) == \A p \in Neighbours(o) : ~Held(tasks[p])

Fire(o) ==
  LET k == tasks[o].kind
      s == tasks[o].slot
  IN  /\ tasks[o].at = "wheel"
      /\ phase[k] = "running"
      /\ wheel[k][s] # <<>> /\ Head(wheel[k][s]) = o
      /\ WorkerFree(o)
      /\ wheel' = [wheel EXCEPT ![k][s] = Tail(@)]
      /\ tasks' = [tasks EXCEPT ![o].at = "run"]
      /\ late' = [late EXCEPT ![o] = IF tasks[o].cancel THEN @ + 1 ELSE @]
      /\ UNCHANGED <<phase, taskRepository>>

\* The TCP check dials once and then reads from what it has got; a connection
\* that fails is kept.  The other checks keep nothing, and the outcome of none
\* of them is recorded.
Conns(t) == IF t.kind = Tcp /\ t.conn = "none" THEN {"none", "open"} ELSE {t.conn}

Check(o) ==
  /\ tasks[o].at = "run"
  /\ \E c \in Conns(tasks[o]) : tasks' = [tasks EXCEPT ![o].at = "end", ![o].conn = c]
  /\ UNCHANGED <<phase, taskRepository, wheel, late>>

\* The deferred function: it looks at cancel ...
Stop(t) == [t EXCEPT !.at = "out", !.conn = IF @ = "open" THEN "closed" ELSE @]
NeverStops(t) == [t EXCEPT !.at = "again"]
StopsAlways(t) == [t EXCEPT !.at = "out", !.conn = IF @ = "open" THEN "closed" ELSE @]
AfterRun(t) == IF t.cancel THEN Stop(t) ELSE [t EXCEPT !.at = "again"]

Finish(o) ==
  /\ tasks[o].at = "end"
  /\ tasks' = [tasks EXCEPT ![o] = AfterRun(@)]
  /\ UNCHANGED <<phase, taskRepository, wheel, late>>

\* ... and then gives the task to the wheel again, in another slot or the same.
ReAdd(o, slot) ==
  /\ tasks[o].at = "again"
  /\ tasks' = [tasks EXCEPT ![o].at = "wheel", ![o].slot = slot]
  /\ wheel' = Put(tasks[o].kind, slot, o)
  /\ UNCHANGED <<phase, taskRepository, late>>

-----------------------------------------------------------------------------
PluginCall(k, a) == RemoveTask(k, a) \/ \E slot \in Slots : AddTask(k, a, slot)
PluginStep(k) == InitMap(k) \/ InitWheel(k) \/ Run(k)
TaskStep(o) ==
  Fire(o) \/ Check(o) \/ Finish(o) \/ \E slot \in Slots : ReAdd(o, slot)

Next ==
  \/ \E k \in Kinds : RegisterPlugin(k) \/ DeregisterPlugin(k) \/ PluginStep(k)
  \/ \E k \in Kinds, a \in Addrs : PluginCall(k, a)
  \/ \E o \in DOMAIN tasks : TaskStep(o)

Spec == Init /\ [][Next]_vars

\* What the worker of a slot does next, unless that is a read without a byte.
WorkerStep(k, slot) ==
  \E o \in DOMAIN tasks :
    /\ tasks[o].kind = k /\ tasks[o].slot = slot
    /\ ~MayBlock(tasks[o])
    /\ TaskStep(o)

\* The goroutine of a plugin and the workers of its wheel go on; a dial ends by
\* its timeout, an HTTP request by the client's 30 seconds.  A read has no
\* deadline.
FairSpec ==
  /\ Spec
  /\ \A k \in Kinds : WF_vars(PluginStep(k)) /\ \A slot \in Slots : WF_vars(WorkerStep(k, slot))

-----------------------------------------------------------------------------
(* Properties *)

\* A task that AddTask accepted and that nobody removed is on the wheel or in
\* its Run, between any two steps of Run and of other calls, and a connection
\* is open only while there is such a run to close it (Run's defer).
AcceptedIsScheduled ==
  \A o \in DOMAIN tasks :
    \/ tasks[o].at # "stranded" /\ ~tasks[o].cancel
    \/ tasks[o].conn = "open"
    => Live(tasks[o])

\* After RemoveTask a task runs at most once more, also when the removal falls
\* between the look at cancel and the AddTask that follows it.
AtMostOneMoreRun == \A o \in DOMAIN tasks : late[o] <= 1

\* A removed task comes to its end and its connection is closed, and one that
\* stays is checked again and again, unless the worker of its slot waits for ever
\* for a byte from a silent TCP peer, its own or that of a task before it: the
\* other slots of the wheel and the other plugins go on.
Stuck(o) == \E p \in Neighbours(o) : MayBlock(tasks[p])
CheckedUntilRemoved ==
  \A o \in 1 .. MaxTasks :
    /\ (o \in DOMAIN tasks /\ tasks[o].at # "stranded" /\ tasks[o].cancel)
         ~> (\/ o \in DOMAIN tasks /\ tasks[o].at = "out" /\ tasks[o].conn # "open"
             \/ [](o \in DOMAIN tasks /\ Stuck(o)))
    /\ (o \in DOMAIN tasks /\ tasks[o].at = "end")
         ~> (\/ o \in DOMAIN tasks /\ (tasks[o].cancel \/ tasks[o].at = "run")
             \/ [](o \in DOMAIN tasks /\ Stuck(o)))
=============================================================================
