-------------------------- MODULE RdsHealthProofs ---------------------------
(***************************************************************************)
(* Two independent parts: the tasks of the health checks, for any plugins, *)
(* tasks and runs; and the relational store, for any callers, rows and     *)
(* batches of statements.                                                  *)
(***************************************************************************)
EXTENDS HealthCheck, Rds, FiniteSetTheorems, TLAPS

(* An accepted task stays scheduled, a removed one runs at most once more. *)

Places == {"stranded", "wheel", "run", "end", "again", "out"}
TaskType == [kind : Kinds, addr : Addrs, slot : Slots, cancel : BOOLEAN,
             conn : {"none", "open", "closed"}, at : Places]

Typed ==
  /\ tasks \in Seq(TaskType)
  /\ late \in Seq(Nat)
  /\ Len(late) = Len(tasks)
  /\ taskRepository \in [Kinds -> [Addrs -> DOMAIN tasks \cup {None}]]

\* A task is out only when it was cancelled, with its connection closed; one
\* that has no wheel has no connection; and a task that has run after its
\* cancellation is still in that run or has left it for good.
TaskSound(t, n) ==
  /\ t.at = "out" => t.cancel /\ t.conn # "open"
  /\ t.at = "stranded" => t.conn = "none"
  /\ n \in {0, 1}
  /\ n = 1 => t.cancel /\ t.at \in {"run", "end", "out"}

HealthInv == Typed /\ \A o \in DOMAIN tasks : TaskSound(tasks[o], late[o])

(* The strengthening gives both properties.                                  *)
LEMMA Implied == HealthInv => AcceptedIsScheduled /\ AtMostOneMoreRun
<1> SUFFICES ASSUME HealthInv, NEW o \in DOMAIN tasks
             PROVE  /\ \/ tasks[o].at # "stranded" /\ ~tasks[o].cancel
                       \/ tasks[o].conn = "open"
                       => Live(tasks[o])
                    /\ late[o] <= 1
  BY Zenon DEF AcceptedIsScheduled, AtMostOneMoreRun
<1>1. tasks[o] \in TaskType /\ TaskSound(tasks[o], late[o])
  BY DEF HealthInv, Typed
<1> QED
  BY <1>1 DEF TaskType, Places, TaskSound, Live, Held

(* Initially there is no task.                                               *)
LEMMA HealthInitially == Init => HealthInv
BY DEF Init, HealthInv, Typed

(* A step that replaces one task by a sound one keeps the invariant.         *)
LEMMA OneTask ==
  ASSUME HealthInv,
         NEW o \in DOMAIN tasks, NEW t \in TaskType, NEW n \in Nat,
         TaskSound(t, n),
         tasks' = [tasks EXCEPT ![o] = t],
         late' = [late EXCEPT ![o] = n],
         taskRepository' \in [Kinds -> [Addrs -> DOMAIN tasks \cup {None}]]
  PROVE  HealthInv'
<1>1. /\ tasks' \in Seq(TaskType) /\ Len(tasks') = Len(tasks)
      /\ DOMAIN tasks' = DOMAIN tasks
      /\ \A p \in DOMAIN tasks : tasks'[p] = IF p = o THEN t ELSE tasks[p]
  BY DEF HealthInv, Typed
<1>2. /\ late' \in Seq(Nat) /\ Len(late') = Len(late)
      /\ \A p \in DOMAIN tasks : late'[p] = IF p = o THEN n ELSE late[p]
  BY DEF HealthInv, Typed
<1> QED
  BY <1>1, <1>2, Zenon DEF HealthInv, Typed

(* Steps of a plugin change no task.                                         *)
LEMMA PluginKeeps ==
  ASSUME HealthInv, NEW k \in Kinds,
         RegisterPlugin(k) \/ DeregisterPlugin(k) \/ PluginStep(k)
  PROVE  HealthInv'
<1>1. UNCHANGED <<tasks, late>>
  BY Zenon DEF RegisterPlugin, DeregisterPlugin, PluginStep, InitMap, InitWheel, Run
<1>2. \/ UNCHANGED taskRepository
      \/ taskRepository' = [taskRepository EXCEPT ![k] = [a \in Addrs |-> None]]
  BY Zenon DEF RegisterPlugin, DeregisterPlugin, PluginStep, InitMap, InitWheel, Run
<1>3. taskRepository' \in [Kinds -> [Addrs -> DOMAIN tasks \cup {None}]]
  BY <1>2, Zenon DEF HealthInv, Typed
<1> QED
  BY <1>1, <1>3, Zenon DEF HealthInv, Typed

(* A new task is on the wheel or stranded, and has not run.                  *)
LEMMA AddTaskKeeps ==
  ASSUME HealthInv, NEW k \in Kinds, NEW a \in Addrs, NEW slot \in Slots,
         AddTask(k, a, slot)
  PROVE  HealthInv'
<1> DEFINE t == Task(k, a, slot, IF HasWheel(k) THEN "wheel" ELSE "stranded")
<1>1. t \in TaskType /\ TaskSound(t, 0)
  BY DEF Task, TaskType, Places, TaskSound
<1>2. /\ tasks' = Append(tasks, t) /\ late' = Append(late, 0)
      /\ taskRepository' = [taskRepository EXCEPT ![k][a] = Len(tasks')]
  BY Zenon DEF AddTask
<1> HIDE DEF t
<1>3. /\ tasks' \in Seq(TaskType) /\ late' \in Seq(Nat)
      /\ Len(tasks') = Len(tasks) + 1 /\ Len(late') = Len(late) + 1
      /\ DOMAIN tasks' = DOMAIN tasks \cup {Len(tasks')}
      /\ \A o \in DOMAIN tasks : tasks'[o] = tasks[o] /\ late'[o] = late[o]
      /\ tasks'[Len(tasks')] = t /\ late'[Len(tasks')] = 0
  BY <1>1, <1>2 DEF HealthInv, Typed
<1>4. taskRepository' \in [Kinds -> [Addrs -> DOMAIN tasks' \cup {None}]]
  BY <1>2, <1>3 DEF HealthInv, Typed
<1>5. \A o \in DOMAIN tasks' : TaskSound(tasks'[o], late'[o])
  BY <1>1, <1>3, Zenon DEF HealthInv
<1> QED
  BY <1>3, <1>4, <1>5, Zenon DEF HealthInv, Typed

(* RemoveTask cancels a task: what was sound stays so.                       *)
LEMMA RemoveTaskKeeps ==
  ASSUME HealthInv, NEW k \in Kinds, NEW a \in Addrs, RemoveTask(k, a)
  PROVE  HealthInv'
<1> DEFINE o == taskRepository[k][a]
           t == [tasks[o] EXCEPT !.cancel = TRUE]
<1>1. o \in DOMAIN tasks
  BY Zenon DEF RemoveTask, HealthInv, Typed
<1>2. tasks[o] \in TaskType /\ late[o] \in Nat /\ TaskSound(tasks[o], late[o])
  BY <1>1 DEF HealthInv, Typed
<1>3. t \in TaskType /\ TaskSound(t, late[o])
  BY <1>2, Zenon DEF TaskType, TaskSound
<1>4. /\ tasks' = [tasks EXCEPT ![o] = t]
      /\ late' = [late EXCEPT ![o] = late[o]]
      /\ taskRepository' \in [Kinds -> [Addrs -> DOMAIN tasks \cup {None}]]
  BY <1>1 DEF RemoveTask, Cancel, Unregistered, HealthInv, Typed
<1> HIDE DEF o, t
<1> QED
  BY <1>1, <1>2, <1>3, <1>4, OneTask, Zenon

(* Fire counts a late run only from the wheel, where none has been counted;  *)
(* Check, Finish and ReAdd keep the count.                                   *)
LEMMA TaskKeeps ==
  ASSUME HealthInv, NEW o \in DOMAIN tasks, TaskStep(o)
  PROVE  HealthInv'
<1>1. tasks[o] \in TaskType /\ late[o] \in Nat /\ TaskSound(tasks[o], late[o])
  BY DEF HealthInv, Typed
<1>2. /\ tasks \in Seq(TaskType) /\ late \in Seq(Nat) /\ o \in DOMAIN late
      /\ taskRepository \in [Kinds -> [Addrs -> DOMAIN tasks \cup {None}]]
  BY DEF HealthInv, Typed
<1>3. CASE Fire(o)
  <2> DEFINE t == [tasks[o] EXCEPT !.at = "run"]
             n == IF tasks[o].cancel THEN late[o] + 1 ELSE late[o]
  <2>1. t \in TaskType /\ n \in Nat /\ TaskSound(t, n)
    BY <1>1, <1>3 DEF Fire, TaskType, Places, TaskSound
  <2>2. /\ tasks' = [tasks EXCEPT ![o] = t] /\ late' = [late EXCEPT ![o] = n]
        /\ UNCHANGED taskRepository
    BY <1>3, Zenon DEF Fire
  <2> HIDE DEF t, n
  <2> QED
    BY <1>2, <2>1, <2>2, OneTask, Zenon
<1>4. CASE Check(o)
  <2>1. PICK c \in Conns(tasks[o]) :
          tasks' = [tasks EXCEPT ![o].at = "end", ![o].conn = c]
    BY <1>4, Zenon DEF Check
  <2> DEFINE t == [tasks[o] EXCEPT !.at = "end", !.conn = c]
  <2>2. t \in TaskType /\ TaskSound(t, late[o])
    BY <1>1, <1>4, <2>1, Zenon DEF Check, Conns, TaskType, Places, TaskSound
  <2>3. tasks' = [tasks EXCEPT ![o] = t]
    BY <2>1, <1>1, <1>2, Zenon
  <2>4. late' = [late EXCEPT ![o] = late[o]] /\ UNCHANGED taskRepository
    BY <1>2, <1>4 DEF Check
  <2> HIDE DEF t
  <2> QED
    BY <1>1, <1>2, <2>2, <2>3, <2>4, OneTask, Zenon
<1>5. CASE Finish(o)
  <2> DEFINE t == AfterRun(tasks[o])
  <2>1. t \in TaskType /\ TaskSound(t, late[o])
    BY <1>1, <1>5, Zenon DEF Finish, AfterRun, Stop, TaskType, Places, TaskSound
  <2>2. /\ tasks' = [tasks EXCEPT ![o] = t] /\ late' = [late EXCEPT ![o] = late[o]]
        /\ UNCHANGED taskRepository
    BY <1>2, <1>5 DEF Finish
  <2> HIDE DEF t
  <2> QED
    BY <1>1, <1>2, <2>1, <2>2, OneTask, Zenon
<1>6. ASSUME NEW slot \in Slots, ReAdd(o, slot) PROVE HealthInv'
  <2> DEFINE t == [tasks[o] EXCEPT !.at = "wheel", !.slot = slot]
  <2>1. t \in TaskType /\ TaskSound(t, late[o])
    BY <1>1, <1>6, Zenon DEF ReAdd, TaskType, Places, TaskSound
  <2>2. tasks' = [tasks EXCEPT ![o] = t]
    BY <1>1, <1>2, <1>6, Zenon DEF ReAdd
  <2>3. late' = [late EXCEPT ![o] = late[o]] /\ UNCHANGED taskRepository
    BY <1>2, <1>6 DEF ReAdd
  <2> HIDE DEF t
  <2> QED
    BY <1>1, <1>2, <2>1, <2>2, <2>3, OneTask, Zenon
<1> QED
  BY <1>3, <1>4, <1>5, <1>6, Zenon DEF TaskStep

(* The invariant of the plugins and their tasks.                             *)
LEMMA HealthInductive == Spec => []HealthInv
<1>1. HealthInv /\ [Next]_vars => HealthInv'
  <2> SUFFICES ASSUME HealthInv, [Next]_vars PROVE HealthInv'
    OBVIOUS
  <2>1. CASE UNCHANGED vars
    BY <2>1, Zenon DEF vars, HealthInv, Typed
  <2>2. CASE Next
    BY <2>2, PluginKeeps, AddTaskKeeps, RemoveTaskKeeps, TaskKeeps, Zenon DEF Next, PluginCall
  <2> QED
    BY <2>1, <2>2, Zenon
<1> QED
  BY <1>1, HealthInitially, PTL DEF Spec

(* client/healthcheck/health_core.go, AddTask and the deferred function of   *)
(* Run: a task that was accepted and not removed never leaves the wheel but  *)
(* for its run, and no connection outlives its task.                         *)
THEOREM Scheduling == Spec => []AcceptedIsScheduled
BY HealthInductive, Implied, PTL

(* client/healthcheck/health_core.go, RemoveTask: whenever it falls between  *)
(* the steps of a run, the task runs once more at most.                      *)
THEOREM Removal == Spec => []AtMostOneMoreRun
BY HealthInductive, Implied, PTL

-----------------------------------------------------------------------------
(* What a query sees, and what modifications leave. *)

RowValue == [by : Sessions \cup {Nobody}, no : Nat]
StatementSet == [no : Nat, row : Rows]
SessionState ==
  [op : {"none", "modify", "transaction", "config", "query"},
   at : {"idle", "exec", "commit", "done", "abandoned"}, todo : Seq(StatementSet)]

RdsTyped ==
  /\ db \in [Rows -> RowValue]
  /\ session \in [Sessions -> SessionState]
  /\ pending \in [Sessions -> [Rows -> RowValue]]
  /\ fate \in [Sessions -> {"none", "rolled back", "committed"}]
  /\ cache \in [Sessions -> RowValue]
  /\ results \in [Sessions -> Seq([cache : Sessions])]
  /\ began \in [Sessions -> [Rows -> RowValue]]

\* The order in which a call executes the statements it is given.
Orders(op, reqs) == IF op = "modify" THEN Sort(reqs) ELSE {reqs}

\* After k statements of s a row is as it was or as the last of them on it says.
RowAfter(c, s, k, value, r) ==
  \/ value = NoRow /\ \A j \in 1 .. k : s[j].row # r
  \/ \E j \in 1 .. k : /\ s[j].row = r /\ value = [by |-> c, no |-> s[j].no]
                       /\ \A i \in 1 .. k : i > j => s[i].row # r

\* A call has executed the first k of the statements s.
Executed(c, s, k, todo, rows) ==
  /\ k \in Nat /\ k + Len(todo) = Len(s)
  /\ \A i \in 1 .. Len(todo) : todo[i] = s[k + i]
  /\ \A r \in Rows : RowAfter(c, s, k, rows[r], r)

\* What is known of an ExecuteModify that can still commit.
InTransaction(c, state, rows) ==
  state.op = "modify" /\ state.at \in {"exec", "commit"} =>
    \E reqs \in StatementLists : \E s \in Orders(state.op, reqs), k \in Nat :
      Executed(c, s, k, state.todo, rows)

\* The rows a call has written are its own.
OwnRows(c, rows) == \A r \in Rows : rows[r] # NoRow => rows[r].by = c

\* What is known of a query: the rows it has read are those it began with, and
\* every record points to the last of them.
InQuery(c, state, data, found, row, start) ==
  state.op = "query" =>
    /\ \A i \in DOMAIN found : found[i] = [cache |-> c]
    /\ Len(found) > 0 => row = start[Len(found)]
    /\ state.at = "exec" =>
         /\ data = start
         /\ \A i \in 1 .. Len(state.todo) : state.todo[i].row = Len(found) + i

SessionSound(c, state, rows, end, data, found, row, start) ==
  /\ state.op = "none" <=> state.at = "idle"
  /\ state.at = "idle" => rows = Nothing /\ end = "none" /\ found = <<>>
  /\ state.at = "exec" => Len(state.todo) > 0
  /\ state.at = "commit" => Len(state.todo) = 0
  /\ end = "committed" => state.at = "done"
  /\ OwnRows(c, rows)
  /\ InTransaction(c, state, rows)
  /\ InQuery(c, state, data, found, row, start)

CallerSound(c) ==
  SessionSound(c, session[c], pending[c], fate[c], db, results[c], cache[c], began[c])

\* Of the rows: who wrote them has begun; an ExecuteModify that wrote one has
\* committed, left the statement with the highest No, and wrote the rows that
\* are written together with it, until a call of another kind writes them.
WritersBegun == \A r \in Rows : db[r].by # Nobody => session[db[r].by].op # "none"
FromCommitted ==
  \A r \in Rows : ModifiedBy(r, "modify") => fate[db[r].by] = "committed"
FromOneCall ==
  \A r, s \in Rows : Together(r, s) /\ ModifiedBy(r, "modify") /\ db[s].by # db[r].by =>
    ModifiedBy(s, "transaction") \/ ModifiedBy(s, "config")
HighestStands ==
  \A r \in Rows : ModifiedBy(r, "modify") =>
    \E reqs \in StatementLists : db[r].no = LastNo(reqs, r)

RowsSound == WritersBegun /\ FromCommitted /\ FromOneCall /\ HighestStands

RdsInv == RdsTyped /\ RowsSound /\ \A c \in Sessions : CallerSound(c)

-----------------------------------------------------------------------------
(* A step of session c leaves what belongs to the others alone.               *)
OthersLeft(c) ==
  \A d \in Sessions \ {c} :
    /\ session'[d] = session[d] /\ pending'[d] = pending[d] /\ fate'[d] = fate[d]
    /\ results'[d] = results[d] /\ cache'[d] = cache[d] /\ began'[d] = began[d]

(* The others stay sound if the rows do not change while one of them reads.   *)
LEMMA OthersStaySound ==
  ASSUME RdsInv, NEW c \in Sessions, OthersLeft(c), db' = db \/ Reading = {},
         NEW d \in Sessions \ {c}
  PROVE  CallerSound(d)'
<1>1. /\ session'[d] = session[d] /\ pending'[d] = pending[d] /\ fate'[d] = fate[d]
      /\ results'[d] = results[d] /\ cache'[d] = cache[d] /\ began'[d] = began[d]
  BY Zenon DEF OthersLeft
<1>2. CallerSound(d) /\ d \in Sessions
  BY Zenon DEF RdsInv
<1>3. SessionSound(d, session[d], pending[d], fate[d], db', results[d], cache[d], began[d])
  <2>1. CASE db' = db
    BY <1>2, <2>1, Zenon DEF CallerSound
  <2>2. CASE Reading = {}
    <3>1. ~(session[d].op = "query" /\ session[d].at = "exec")
      BY <2>2, Zenon DEF Reading
    <3>2. InQuery(d, session[d], db', results[d], cache[d], began[d])
      BY <1>2, <3>1, Zenon DEF CallerSound, SessionSound, InQuery
    <3> QED BY <1>2, <3>2, Zenon DEF CallerSound, SessionSound
  <2> QED BY <2>1, <2>2, Zenon
<1> QED
  BY <1>1, <1>3, Zenon DEF CallerSound

(* The rows stay sound if they do not change, no call that was begun changes  *)
(* its kind and what has committed has.                                       *)
LEMMA RowsStaySound ==
  ASSUME RdsInv, db' = db,
         \A d \in Sessions : session[d].op # "none" => session'[d].op = session[d].op,
         \A d \in Sessions : fate[d] = "committed" => fate'[d] = "committed"
  PROVE  RowsSound'
<1>1. ASSUME NEW r \in Rows, db[r].by # Nobody
      PROVE  /\ db[r].by \in Sessions /\ session[db[r].by].op # "none"
             /\ session'[db[r].by].op = session[db[r].by].op
  <2>1. db[r].by \in Sessions
    BY <1>1, Zenon DEF RdsInv, RdsTyped, RowValue
  <2>2. session[db[r].by].op # "none"
    BY <1>1, Zenon DEF RdsInv, RowsSound, WritersBegun
  <2> QED BY <2>1, <2>2, Zenon
<1>2. \A r \in Rows : \A op : ModifiedBy(r, op)' <=> ModifiedBy(r, op)
  BY <1>1, Zenon DEF ModifiedBy
<1>3. WritersBegun'
  BY <1>1, Zenon DEF WritersBegun
<1>4. FromCommitted'
  <2> SUFFICES ASSUME NEW r \in Rows, ModifiedBy(r, "modify")
               PROVE  fate'[db[r].by] = "committed"
    BY <1>2, Zenon DEF FromCommitted
  <2>1. fate[db[r].by] = "committed" /\ db[r].by # Nobody
    BY Zenon DEF RdsInv, RowsSound, FromCommitted, ModifiedBy
  <2> QED BY <1>1, <2>1, Zenon
<1>5. FromOneCall'
  BY <1>2, Zenon DEF RdsInv, RowsSound, FromOneCall, Together
<1>6. HighestStands'
  BY <1>2, Zenon DEF RdsInv, RowsSound, HighestStands
<1> QED
  BY <1>3, <1>4, <1>5, <1>6, Zenon DEF RowsSound

(* A step of session c keeps the invariant if it keeps the types, c and the   *)
(* rows.                                                                      *)
LEMMA OneSession ==
  ASSUME RdsInv, NEW c \in Sessions, OthersLeft(c), db' = db \/ Reading = {},
         RdsTyped', RowsSound', CallerSound(c)'
  PROVE  RdsInv'
<1>1. ASSUME NEW d \in Sessions PROVE CallerSound(d)'
  BY OthersStaySound, Zenon
<1> QED
  BY <1>1, Zenon DEF RdsInv

(* What is known of a session by its type.                                    *)
LEMMA SessionFacts ==
  ASSUME RdsInv, NEW c \in Sessions
  PROVE  /\ session[c] \in SessionState /\ session[c].todo \in Seq(StatementSet)
         /\ pending[c] \in [Rows -> RowValue] /\ results[c] \in Seq([cache : Sessions])
         /\ cache[c] \in RowValue /\ began[c] \in [Rows -> RowValue]
         /\ SessionSound(c, session[c], pending[c], fate[c], db, results[c], cache[c], began[c])
         /\ c # Nobody
BY RdsAssumption, Zenon DEF RdsInv, RdsTyped, SessionState, CallerSound

-----------------------------------------------------------------------------
(* The ends of calls but those of Commit: only where the call is and what     *)
(* became of its transaction changes.                                         *)
LEMMA EndKeeps ==
  ASSUME RdsInv, NEW c \in Sessions, session[c].at \in {"exec", "commit", "abandoned"},
         NEW place \in {"done", "abandoned"}, NEW end \in {"none", "rolled back", "committed"},
         end = "committed" => place = "done",
         session' = [session EXCEPT ![c].at = place], fate' = [fate EXCEPT ![c] = end],
         UNCHANGED <<db, pending, cache, results, began>>
  PROVE  RdsInv'
<1>1. PICK old : old = session[c]
  BY Zenon
<1>2. PICK new : new = [old EXCEPT !.at = place]
  BY Zenon
<1>3. old \in SessionState
  BY <1>1, SessionFacts, Zenon
<1>4. new \in SessionState /\ new.op = old.op /\ new.at = place /\ new.todo = old.todo
  BY <1>2, <1>3, Zenon DEF SessionState
<1>5. session' = [session EXCEPT ![c] = new]
  BY <1>1, <1>2, Zenon
<1>6. /\ session \in [Sessions -> SessionState]
      /\ fate \in [Sessions -> {"none", "rolled back", "committed"}]
  BY Zenon DEF RdsInv, RdsTyped
<1>7. /\ session' \in [Sessions -> SessionState] /\ session'[c] = new
      /\ \A d \in Sessions \ {c} : session'[d] = session[d]
  BY <1>4, <1>5, <1>6, Zenon
<1>8. /\ fate' \in [Sessions -> {"none", "rolled back", "committed"}] /\ fate'[c] = end
      /\ \A d \in Sessions \ {c} : fate'[d] = fate[d]
  BY <1>6, Zenon
<1>9. OthersLeft(c)
  BY <1>7, <1>8, Zenon DEF OthersLeft
<1>10. RdsTyped'
  BY <1>7, <1>8, Zenon DEF RdsInv, RdsTyped
<1>11. SessionSound(c, old, pending[c], fate[c], db, results[c], cache[c], began[c])
         /\ old.at \in {"exec", "commit", "abandoned"}
  BY <1>1, SessionFacts, Zenon
<1>12. fate[c] # "committed" /\ old.op # "none"
  BY <1>11, Zenon DEF SessionSound
<1>13. RowsSound'
  <2>1. \A d \in Sessions : session'[d].op = session[d].op
    BY <1>1, <1>4, <1>7, Zenon
  <2>2. \A d \in Sessions : fate[d] = "committed" => fate'[d] = "committed"
    BY <1>8, <1>12, Zenon
  <2> QED BY <2>1, <2>2, RowsStaySound, Zenon
<1>14. CallerSound(c)'
  <2>1. InTransaction(c, new, pending[c])
    BY <1>4, Zenon DEF InTransaction
  <2>2. InQuery(c, new, db, results[c], cache[c], began[c])
    BY <1>4, <1>11, Zenon DEF SessionSound, InQuery
  <2>3. SessionSound(c, new, pending[c], end, db, results[c], cache[c], began[c])
    BY <1>4, <1>11, <1>12, <2>1, <2>2, Zenon DEF SessionSound
  <2> QED BY <1>7, <1>8, <2>3, Zenon DEF CallerSound
<1> QED
  BY <1>9, <1>10, <1>13, <1>14, OneSession, Zenon

(* So do all the ways in which a call fails, a Transaction ends and a query   *)
(* breaks off.                                                                *)
LEMMA EndsKeep ==
  ASSUME RdsInv, NEW c \in Sessions,
         \/ ModifyExecFails(c) \/ ModifyCommitFails(c) \/ FFails(c) \/ TransactionCommits(c)
         \/ OpPanics(c) \/ OpCommitFails(c) \/ ContextEnds(c) \/ QueryFails(c)
  PROVE  RdsInv'
<1> USE DEF At, Return, Goto, queryVars
<1>1. fate \in [Sessions -> {"none", "rolled back", "committed"}]
  BY Zenon DEF RdsInv, RdsTyped
<1>2. PICK was : was = fate[c]
  OBVIOUS
<1>3. was \in {"none", "rolled back", "committed"} /\ fate = [fate EXCEPT ![c] = was]
  BY <1>1, <1>2, Zenon
<1>4. CASE ModifyExecFails(c) \/ ModifyCommitFails(c) \/ FFails(c) \/ OpCommitFails(c) \/ ContextEnds(c)
  <2>1. /\ session[c].at \in {"exec", "commit", "abandoned"}
        /\ session' = [session EXCEPT ![c].at = "done"]
        /\ fate' = [fate EXCEPT ![c] = "rolled back"]
        /\ UNCHANGED <<db, pending, cache, results, began>>
    BY <1>4, Zenon DEF ModifyExecFails, ModifyCommitFails, FFails, OpCommitFails, ContextEnds,
                CommitRefused, Rollback
  <2> QED BY <2>1, EndKeeps, Zenon
<1>5. CASE TransactionCommits(c)
  <2>1. /\ session[c].at \in {"exec", "commit", "abandoned"}
        /\ session' = [session EXCEPT ![c].at = "done"]
        /\ fate' = [fate EXCEPT ![c] = "committed"]
        /\ UNCHANGED <<db, pending, cache, results, began>>
    BY <1>5, Zenon DEF TransactionCommits
  <2> QED BY <2>1, EndKeeps, Zenon
<1>6. CASE OpPanics(c) \/ QueryFails(c)
  <2>1. /\ session[c].at \in {"exec", "commit", "abandoned"} /\ session[c].at # "done"
        /\ \E place \in {"done", "abandoned"} : session' = [session EXCEPT ![c].at = place]
        /\ UNCHANGED fate /\ UNCHANGED <<db, pending, cache, results, began>>
    BY <1>6, Zenon DEF OpPanics, QueryFails
  <2>2. was # "committed"
    BY <1>2, <2>1, SessionFacts, Zenon DEF SessionSound
  <2>3. fate' = [fate EXCEPT ![c] = was]
    BY <1>3, <2>1, Zenon
  <2>4. PICK place \in {"done", "abandoned"} : session' = [session EXCEPT ![c].at = place]
    BY <2>1, Zenon
  <2> QED BY <1>3, <2>1, <2>2, <2>3, <2>4, EndKeeps, Zenon
<1> QED
  BY <1>4, <1>5, <1>6, Zenon

-----------------------------------------------------------------------------
(* What is known of the statements of a call.                                 *)
LEMMA RequestFacts ==
  ASSUME NEW reqs \in StatementLists
  PROVE  /\ reqs \in Seq(StatementSet) /\ DOMAIN reqs = 1 .. Len(reqs)
         /\ Len(reqs) \in Nat /\ Len(reqs) > 0
         /\ \A i \in 1 .. Len(reqs) : reqs[i].no \in Nat
<1>1. reqs \in Seq(StatementSet) /\ reqs # <<>>
  BY RdsAssumption, Zenon DEF StatementSet
<1>2. DOMAIN reqs = 1 .. Len(reqs) /\ Len(reqs) \in Nat /\ Len(reqs) > 0
  BY <1>1
<1>3. \A i \in 1 .. Len(reqs) : reqs[i] \in StatementSet
  BY <1>1, <1>2
<1>4. \A i \in 1 .. Len(reqs) : reqs[i].no \in Nat
  BY <1>3, Zenon DEF StatementSet
<1> QED
  BY <1>1, <1>2, <1>4, Zenon

(* sort.Sort gives the statements in another order: none is lost.             *)
LEMMA SortFacts ==
  ASSUME NEW reqs \in StatementLists, NEW s \in Sort(reqs)
  PROVE  /\ s \in Seq(StatementSet) /\ Len(s) = Len(reqs)
         /\ \A i, j \in 1 .. Len(s) : i < j => s[i].no <= s[j].no
         /\ \A i \in 1 .. Len(s) : \E j \in 1 .. Len(reqs) : s[i] = reqs[j]
         /\ \A j \in 1 .. Len(reqs) : \E i \in 1 .. Len(s) : s[i] = reqs[j]
<1> DEFINE n == Len(reqs)
<1>1. reqs \in Seq(StatementSet) /\ DOMAIN reqs = 1 .. n /\ n \in Nat
  BY RequestFacts, Zenon
<1>2. PICK p \in [1 .. n -> 1 .. n] :
        /\ \A i, j \in 1 .. n : p[i] = p[j] => i = j
        /\ s = [i \in 1 .. n |-> reqs[p[i]]]
  BY <1>1, Zenon DEF Sort
<1>3. \A i, j \in 1 .. n : i < j => s[i].no <= s[j].no
  BY <1>1, Zenon DEF Sort
<1> HIDE DEF n
<1>4. s \in [1 .. n -> StatementSet]
  <2>1. \A i \in 1 .. n : reqs[p[i]] \in StatementSet
    BY <1>1, <1>2
  <2> QED BY <1>2, <2>1, Zenon
<1>5. s \in Seq(StatementSet) /\ Len(s) = n
  BY <1>1, <1>4
<1>6. p \in Surjection(1 .. n, 1 .. n)
  <2>1. p \in Injection(1 .. n, 1 .. n)
    BY <1>2, Zenon DEF Injection, IsInjective
  <2>2. IsFiniteSet(1 .. n)
    BY <1>1, FS_Interval
  <2> QED BY <2>1, <2>2, FS_Injection, Zenon
<1>7. \A j \in 1 .. n : \E i \in 1 .. n : p[i] = j
  BY <1>6, Zenon DEF Surjection
<1>8. \A j \in 1 .. n : \E i \in 1 .. n : s[i] = reqs[j]
  BY <1>2, <1>7, Zenon
<1>9. \A i \in 1 .. n : \E j \in 1 .. n : s[i] = reqs[j]
  BY <1>2, Zenon
<1> QED
  BY <1>3, <1>5, <1>8, <1>9, Zenon DEF n

(* Either order has the statements of the request.                            *)
LEMMA OrderFacts ==
  ASSUME NEW reqs \in StatementLists, NEW op, NEW s \in Orders(op, reqs)
  PROVE  /\ s \in Seq(StatementSet) /\ Len(s) > 0
         /\ \A r : Writes(reqs, r) <=> \E i \in 1 .. Len(s) : s[i].row = r
<1>1. reqs \in Seq(StatementSet) /\ DOMAIN reqs = 1 .. Len(reqs) /\ Len(reqs) > 0
  BY RequestFacts, Zenon
<1>2. CASE op = "modify"
  <2>1. s \in Sort(reqs)
    BY <1>2, Zenon DEF Orders
  <2>2. /\ s \in Seq(StatementSet) /\ Len(s) = Len(reqs)
        /\ \A i \in 1 .. Len(s) : \E j \in 1 .. Len(reqs) : s[i] = reqs[j]
        /\ \A j \in 1 .. Len(reqs) : \E i \in 1 .. Len(s) : s[i] = reqs[j]
    BY <2>1, SortFacts, Zenon
  <2>3. ASSUME NEW r PROVE Writes(reqs, r) <=> \E i \in 1 .. Len(s) : s[i].row = r
    <3>1. Writes(reqs, r) <=> \E j \in 1 .. Len(reqs) : reqs[j].row = r
      BY <1>1, Zenon DEF Writes
    <3> QED BY <2>2, <3>1, ZenonT(30)
  <2>4. Len(s) > 0
    BY <1>1, <2>2, Zenon
  <2> QED BY <2>2, <2>3, <2>4, Zenon
<1>3. CASE op # "modify"
  <2>1. s = reqs
    BY <1>3, Zenon DEF Orders
  <2> QED BY <1>1, <2>1, Zenon DEF Writes
<1> QED
  BY <1>2, <1>3, Zenon

(* The last of the sorted statements on a row has its highest No.             *)
LEMMA LastIsHighest ==
  ASSUME NEW reqs \in StatementLists, NEW s \in Sort(reqs), NEW r, NEW j \in 1 .. Len(s),
         s[j].row = r, \A i \in 1 .. Len(s) : i > j => s[i].row # r
  PROVE  s[j].no = LastNo(reqs, r)
<1> DEFINE N == {reqs[i].no : i \in {i \in DOMAIN reqs : reqs[i].row = r}}
           Top(n) == \A i \in DOMAIN reqs : reqs[i].row = r => reqs[i].no <= n
<1>1. /\ s \in Seq(StatementSet) /\ Len(s) = Len(reqs)
      /\ \A i, k \in 1 .. Len(s) : i < k => s[i].no <= s[k].no
      /\ \A i \in 1 .. Len(s) : \E k \in 1 .. Len(reqs) : s[i] = reqs[k]
      /\ \A k \in 1 .. Len(reqs) : \E i \in 1 .. Len(s) : s[i] = reqs[k]
  BY SortFacts, Zenon
<1>2. /\ reqs \in Seq(StatementSet) /\ DOMAIN reqs = 1 .. Len(reqs) /\ Len(reqs) \in Nat
      /\ \A i \in 1 .. Len(reqs) : reqs[i].no \in Nat
  BY RequestFacts, Zenon
<1>3. s[j].no \in N
  BY <1>1, <1>2, Zenon
<1>4. \A i \in 1 .. Len(s) : s[i].row = r => s[i].no <= s[j].no
  <2>1. ASSUME NEW i \in 1 .. Len(s), s[i].row = r PROVE s[i].no <= s[j].no
    <3>1. ~(i > j)
      BY <2>1, Zenon
    <3>2. i = j \/ i < j
      BY <3>1
    <3>3. s[j].no \in Nat
      BY <1>1, <1>2, Zenon
    <3>4. i < j => s[i].no <= s[j].no
      BY <1>1, Zenon
    <3>5. i = j => s[i].no <= s[j].no
      BY <3>3
    <3> QED BY <3>2, <3>4, <3>5, Zenon
  <2> QED BY <2>1, Zenon
<1>5. Top(s[j].no)
  BY <1>1, <1>2, <1>4, ZenonT(30)
<1>6. N \subseteq Nat
  BY <1>2, Zenon
<1>7. \A m \in N : Top(m) => s[j].no <= m
  <2>1. PICK k \in DOMAIN reqs : reqs[k].row = r /\ reqs[k].no = s[j].no
    BY <1>1, <1>2, Zenon
  <2> QED BY <2>1, Zenon
<1>8. \A m \in N : Top(m) => m <= s[j].no
  BY <1>5, Zenon
<1>9. \A m \in N : Top(m) => m = s[j].no
  <2> HIDE DEF N, Top
  <2>1. s[j].no \in Nat
    BY <1>3, <1>6, Zenon
  <2> SUFFICES ASSUME NEW m \in N, Top(m)
               PROVE  m = s[j].no
    BY Zenon
  <2>2. m \in Nat /\ m <= s[j].no /\ s[j].no <= m
    BY <1>6, <1>7, <1>8, Zenon
  <2> QED BY <2>1, <2>2
<1>10. LastNo(reqs, r) = CHOOSE m \in N : Top(m)
  BY Zenon DEF LastNo
<1> HIDE DEF N, Top
<1> QED
  BY <1>3, <1>5, <1>9, <1>10, Zenon

-----------------------------------------------------------------------------
\* A session goes on to another state; a query that begins notes the rows.
Moves(c, new, start) ==
  /\ new \in SessionState /\ start \in [Rows -> RowValue]
  /\ session' = [session EXCEPT ![c] = new]
  /\ began' = [began EXCEPT ![c] = start]

(* A call begins.                                                             *)
LEMMA BeginKeeps ==
  ASSUME RdsInv, NEW c \in Sessions, session[c].at = "idle", NEW new, NEW start,
         Moves(c, new, start), UNCHANGED <<db, pending, fate, cache, results>>,
         NEW row, row = cache[c],
         SessionSound(c, new, Nothing, "none", db, <<>>, row, start)
  PROVE  RdsInv'
<1>1. /\ session \in [Sessions -> SessionState] /\ began \in [Sessions -> [Rows -> RowValue]]
  BY Zenon DEF RdsInv, RdsTyped
<1>2. /\ session' \in [Sessions -> SessionState] /\ session'[c] = new
      /\ \A d \in Sessions \ {c} : session'[d] = session[d]
  BY <1>1, Zenon DEF Moves
<1>3. /\ began' \in [Sessions -> [Rows -> RowValue]] /\ began'[c] = start
      /\ \A d \in Sessions \ {c} : began'[d] = began[d]
  BY <1>1, Zenon DEF Moves
<1>4. OthersLeft(c)
  BY <1>2, <1>3, Zenon DEF OthersLeft
<1>5. RdsTyped'
  BY <1>2, <1>3, Zenon DEF RdsInv, RdsTyped
<1>6. session[c].op = "none" /\ pending[c] = Nothing /\ fate[c] = "none" /\ results[c] = <<>>
  BY SessionFacts, Zenon DEF SessionSound
<1>7. RowsSound'
  <2>1. \A d \in Sessions : session[d].op # "none" => session'[d].op = session[d].op
    BY <1>2, <1>6, Zenon
  <2> QED BY <2>1, RowsStaySound, Zenon
<1>8. CallerSound(c)'
  BY <1>2, <1>3, <1>6, Zenon DEF CallerSound
<1> QED
  BY <1>4, <1>5, <1>7, <1>8, OneSession, Zenon

(* Of no rows all are the caller's.                                           *)
LEMMA NothingOwned ==
  ASSUME NEW c
  PROVE  OwnRows(c, Nothing)
BY Zenon DEF OwnRows, Nothing

(* With the statements of a call in either order, as the types are.           *)
LEMMA EnterKeeps ==
  ASSUME RdsInv, NEW c \in Sessions, NEW op \in {"modify", "transaction", "config"},
         NEW reqs \in StatementLists, NEW s \in Orders(op, reqs), Enter(c, op, s),
         UNCHANGED <<db, pending, fate, cache, results, began>>
  PROVE  RdsInv'
<1>1. PICK new, start, row : /\ new = [op |-> op, at |-> "exec", todo |-> s]
                             /\ start = began[c] /\ row = cache[c]
  BY Zenon
<1>2. s \in Seq(StatementSet) /\ Len(s) > 0 /\ Len(s) \in Nat
  <2>1. s \in Seq(StatementSet) /\ Len(s) > 0
    BY OrderFacts, Zenon
  <2> QED BY <2>1
<1>3. new \in SessionState /\ new.op = op /\ new.at = "exec" /\ new.todo = s
  BY <1>1, <1>2, Zenon DEF SessionState
<1>4. Moves(c, new, start)
  <2>1. start \in [Rows -> RowValue]
    BY <1>1, SessionFacts, Zenon
  <2>2. began' = [began EXCEPT ![c] = start]
    BY <1>1, Zenon DEF RdsInv, RdsTyped
  <2> QED BY <1>1, <1>3, <2>1, <2>2, Zenon DEF Moves, Enter
<1>5. Executed(c, s, 0, s, Nothing)
  BY <1>2 DEF Executed, RowAfter, Nothing
<1>6. InTransaction(c, new, Nothing)
  BY <1>3, <1>5, Zenon DEF InTransaction
<1>7. InQuery(c, new, db, <<>>, row, start)
  BY <1>3, Zenon DEF InQuery
<1>8. SessionSound(c, new, Nothing, "none", db, <<>>, row, start)
  BY <1>2, <1>3, <1>6, <1>7, NothingOwned, Zenon DEF SessionSound
<1> QED
  BY <1>1, <1>4, <1>8, BeginKeeps, Zenon DEF Enter

(* The begin of a query.                                                      *)
LEMMA ExecuteQueryKeeps ==
  ASSUME RdsInv, NEW c \in Sessions, ExecuteQuery(c)
  PROVE  RdsInv'
<1>1. PICK n \in Rows : Rows = 1 .. n /\ n \in Nat /\ n > 0
  BY RdsAssumption
<1>2. PICK s : s = [r \in Rows |-> [no |-> 0, row |-> r]]
  BY Zenon
<1>3. s \in Seq(StatementSet) /\ Len(s) = n /\ \A i \in 1 .. n : s[i].row = i
  <2>1. s \in [1 .. n -> StatementSet]
    BY <1>1, <1>2, Zenon DEF StatementSet
  <2>2. s \in Seq(StatementSet) /\ Len(s) = n
    BY <1>1, <2>1
  <2> QED BY <1>1, <1>2, <2>2, Zenon
<1>4. PICK new, start, row : /\ new = [op |-> "query", at |-> "exec", todo |-> s]
                             /\ start = db /\ row = cache[c]
  BY Zenon
<1>5. new \in SessionState /\ new.op = "query" /\ new.at = "exec" /\ new.todo = s
  BY <1>3, <1>4, Zenon DEF SessionState
<1>6. Moves(c, new, start)
  <2>1. start \in [Rows -> RowValue]
    BY <1>4, Zenon DEF RdsInv, RdsTyped
  <2> QED BY <1>2, <1>4, <1>5, <2>1, Zenon DEF Moves, Enter, ExecuteQuery
<1>7. InTransaction(c, new, Nothing)
  BY <1>5, Zenon DEF InTransaction
<1>8. InQuery(c, new, db, <<>>, row, start)
  BY <1>3, <1>4, <1>5 DEF InQuery
<1>9. SessionSound(c, new, Nothing, "none", db, <<>>, row, start)
  BY <1>1, <1>3, <1>5, <1>7, <1>8, NothingOwned, Zenon DEF SessionSound
<1>10. session[c].at = "idle" /\ UNCHANGED <<db, pending, fate, cache, results>>
  BY Zenon DEF ExecuteQuery, Enter
<1> QED
  BY <1>4, <1>6, <1>9, <1>10, BeginKeeps, Zenon

(* A call that begins no transaction.                                         *)
LEMMA ModifyBeginFailsKeeps ==
  ASSUME RdsInv, NEW c \in Sessions, ModifyBeginFails(c)
  PROVE  RdsInv'
<1>1. PICK new, start, row : /\ new = [op |-> "modify", at |-> "done", todo |-> <<>>]
                             /\ start = began[c] /\ row = cache[c]
  BY Zenon
<1>2. new \in SessionState /\ new.op = "modify" /\ new.at = "done"
  BY <1>1 DEF SessionState
<1>3. session[c].at = "idle" /\ UNCHANGED <<db, pending, fate, cache, results, began>>
  BY Zenon DEF ModifyBeginFails, queryVars
<1>4. Moves(c, new, start)
  <2>1. start \in [Rows -> RowValue]
    BY <1>1, SessionFacts, Zenon
  <2>2. began' = [began EXCEPT ![c] = start]
    BY <1>1, <1>3, Zenon DEF RdsInv, RdsTyped
  <2> QED BY <1>1, <1>2, <2>1, <2>2, Zenon DEF Moves, ModifyBeginFails
<1>5. InTransaction(c, new, Nothing) /\ InQuery(c, new, db, <<>>, row, start)
  BY <1>2, Zenon DEF InTransaction, InQuery
<1>6. SessionSound(c, new, Nothing, "none", db, <<>>, row, start)
  BY <1>2, <1>5, NothingOwned, Zenon DEF SessionSound
<1> QED
  BY <1>1, <1>3, <1>4, <1>6, BeginKeeps, Zenon

-----------------------------------------------------------------------------
(* The session after the next statement.                                      *)
LEMMA AdvanceFacts ==
  ASSUME RdsInv, NEW c \in Sessions, session[c].at = "exec", Advance(c)
  PROVE  /\ session[c].todo \in Seq(StatementSet) /\ Len(session[c].todo) \in Nat
         /\ Len(session[c].todo) > 0
         /\ Statement(c) = session[c].todo[1] /\ Statement(c) \in StatementSet
         /\ session' \in [Sessions -> SessionState]
         /\ \A d \in Sessions \ {c} : session'[d] = session[d]
         /\ session'[c].op = session[c].op
         /\ session'[c].todo = Tail(session[c].todo)
         /\ Len(Tail(session[c].todo)) = Len(session[c].todo) - 1
         /\ \A i \in 1 .. Len(Tail(session[c].todo)) :
              Tail(session[c].todo)[i] = session[c].todo[i + 1]
         /\ session'[c].at = IF Len(session[c].todo) = 1 THEN "commit" ELSE "exec"
<1>1. PICK old, todo : old = session[c] /\ todo = session[c].todo
  OBVIOUS
<1>2. old \in SessionState /\ todo \in Seq(StatementSet) /\ Len(todo) > 0
  BY <1>1, SessionFacts, Zenon DEF SessionSound
<1>3. todo # <<>> /\ Len(todo) \in Nat
  BY <1>2
<1>4. /\ Tail(todo) \in Seq(StatementSet) /\ Len(Tail(todo)) = Len(todo) - 1
      /\ \A i \in 1 .. Len(Tail(todo)) : Tail(todo)[i] = todo[i + 1]
      /\ Head(todo) = todo[1] /\ todo[1] \in StatementSet
  BY <1>2, <1>3
<1>5. PICK new : new = [op |-> old.op, todo |-> Tail(todo),
                        at |-> IF Len(todo) = 1 THEN "commit" ELSE "exec"]
  BY Zenon
<1>6. new \in SessionState
  BY <1>2, <1>4, <1>5, Zenon DEF SessionState
<1>7. new.op = old.op /\ new.todo = Tail(todo) /\ new.at = IF Len(todo) = 1 THEN "commit" ELSE "exec"
  BY <1>5, Zenon
<1>8. session' = [session EXCEPT ![c] = new]
  BY <1>1, <1>5, Zenon DEF Advance
<1>9. session \in [Sessions -> SessionState]
  BY Zenon DEF RdsInv, RdsTyped
<1>10. /\ session' \in [Sessions -> SessionState] /\ session'[c] = new
       /\ \A d \in Sessions \ {c} : session'[d] = session[d]
  BY <1>6, <1>8, <1>9, Zenon
<1> QED
  BY <1>1, <1>2, <1>3, <1>4, <1>7, <1>10, Zenon DEF Statement

\* The first of the statements to go is executed.
NextStatement(c, todo, rows, rest, after) ==
  /\ Len(todo) \in Nat /\ Len(todo) > 0
  /\ Len(rest) = Len(todo) - 1 /\ \A i \in 1 .. Len(rest) : rest[i] = todo[i + 1]
  /\ \A r \in Rows : after[r] = IF r = todo[1].row THEN [by |-> c, no |-> todo[1].no]
                                 ELSE rows[r]

(* So one more of the statements s is executed.                               *)
LEMMA OneMoreExecuted ==
  ASSUME NEW c, NEW s, NEW k, NEW todo, NEW rows, NEW rest, NEW after,
         Executed(c, s, k, todo, rows), NextStatement(c, todo, rows, rest, after)
  PROVE  Executed(c, s, k + 1, rest, after)
<1> USE DEF NextStatement
<1>1. k \in Nat /\ k + Len(todo) = Len(s) /\ \A i \in 1 .. Len(todo) : todo[i] = s[k + i]
  BY Zenon DEF Executed
<1>2. todo[1] = s[k + 1]
  BY <1>1
<1>3. \A i \in 1 .. Len(rest) : rest[i] = s[(k + 1) + i]
  <2>1. ASSUME NEW i \in 1 .. Len(rest) PROVE rest[i] = s[(k + 1) + i]
    <3>1. i + 1 \in 1 .. Len(todo) /\ k + (i + 1) = (k + 1) + i
      BY <1>1, SMTT(30)
    <3>2. rest[i] = todo[i + 1] /\ todo[i + 1] = s[k + (i + 1)]
      BY <1>1, <3>1, Zenon
    <3> QED BY <3>1, <3>2, Zenon
  <2> QED BY <2>1, Zenon
<1>4. ASSUME NEW r \in Rows PROVE RowAfter(c, s, k + 1, after[r], r)
  <2>1. CASE r = todo[1].row
    <3>1. after[r] = [by |-> c, no |-> s[k + 1].no] /\ s[k + 1].row = r
      BY <1>2, <2>1, Zenon
    <3>2. k + 1 \in 1 .. (k + 1) /\ \A i \in 1 .. (k + 1) : ~(i > k + 1)
      BY <1>1
    <3> QED BY <3>1, <3>2, Zenon DEF RowAfter
  <2>2. CASE r # todo[1].row
    <3>1. after[r] = rows[r] /\ s[k + 1].row # r /\ RowAfter(c, s, k, rows[r], r)
      BY <1>2, <2>2, Zenon DEF Executed
    <3>2. \A i \in 1 .. (k + 1) : i \in 1 .. k \/ i = k + 1
      BY <1>1
    <3>3. \A i \in 1 .. k : i \in 1 .. (k + 1)
      BY <1>1
    <3> QED BY <3>1, <3>2, <3>3, Zenon DEF RowAfter
  <2> QED BY <2>1, <2>2, Zenon
<1>5. k + 1 \in Nat /\ (k + 1) + Len(rest) = Len(s)
  <2>1. k \in Nat /\ Len(todo) \in Nat /\ k + Len(todo) = Len(s) /\ Len(rest) = Len(todo) - 1
    BY <1>1, Zenon
  <2> HIDE DEF NextStatement
  <2> QED BY <2>1
<1> QED
  BY <1>3, <1>4, <1>5, Zenon DEF Executed

(* A statement of ExecuteModify.                                              *)
LEMMA ExecKeeps ==
  ASSUME RdsInv, NEW c \in Sessions, ModifyExec(c)
  PROVE  RdsInv'
<1>1. /\ session[c].op = "modify" /\ session[c].at = "exec" /\ Advance(c)
      /\ pending' = [pending EXCEPT ![c][Statement(c).row] = Written(c)]
      /\ UNCHANGED <<db, fate, cache, results, began>>
  BY Zenon DEF ModifyExec, At, ExecInTx, queryVars
<1>2. PICK todo, op, rows, rest : /\ todo = session[c].todo /\ op = session[c].op
                                  /\ rows = pending[c] /\ rest = Tail(session[c].todo)
  BY Zenon
<1>3. /\ todo \in Seq(StatementSet) /\ Len(todo) \in Nat /\ Len(todo) > 0
      /\ Statement(c) = todo[1] /\ Statement(c) \in StatementSet
      /\ session' \in [Sessions -> SessionState]
      /\ \A d \in Sessions \ {c} : session'[d] = session[d]
      /\ session'[c].op = op /\ session'[c].todo = rest
      /\ Len(rest) = Len(todo) - 1 /\ \A i \in 1 .. Len(rest) : rest[i] = todo[i + 1]
      /\ session'[c].at = IF Len(todo) = 1 THEN "commit" ELSE "exec"
  BY <1>1, <1>2, AdvanceFacts, Zenon
<1>4. PICK value, row : value = [by |-> c, no |-> todo[1].no] /\ row = todo[1].row
  BY Zenon
<1>5. row \in Rows /\ value \in RowValue
  BY <1>3, <1>4, Zenon DEF StatementSet, RowValue
<1>6. pending \in [Sessions -> [Rows -> RowValue]]
  BY Zenon DEF RdsInv, RdsTyped
<1>7. PICK after : after = [rows EXCEPT ![row] = value]
  BY Zenon
<1>8. pending' = [pending EXCEPT ![c] = after]
  BY <1>1, <1>2, <1>3, <1>4, <1>7, Zenon DEF Written
<1>9. after \in [Rows -> RowValue] /\ \A r \in Rows : after[r] = IF r = row THEN value ELSE rows[r]
  BY <1>2, <1>5, <1>6, <1>7, Zenon
<1>10. /\ pending' \in [Sessions -> [Rows -> RowValue]] /\ pending'[c] = after
       /\ \A d \in Sessions \ {c} : pending'[d] = pending[d]
  BY <1>6, <1>8, <1>9, Zenon
<1>11. OthersLeft(c)
  BY <1>1, <1>3, <1>10, Zenon DEF OthersLeft
<1>12. RdsTyped'
  BY <1>1, <1>3, <1>10, Zenon DEF RdsInv, RdsTyped
<1>13. RowsSound'
  <2>1. \A d \in Sessions : session'[d].op = session[d].op
    BY <1>2, <1>3, Zenon
  <2> QED BY <1>1, <2>1, RowsStaySound, Zenon
<1>14. CallerSound(c)'
  <2>1. SessionSound(c, session[c], rows, fate[c], db, results[c], cache[c], began[c])
    BY <1>2, SessionFacts, Zenon
  <2>2. PICK reqs \in StatementLists : \E s \in Orders(op, reqs), k \in Nat :
          Executed(c, s, k, todo, rows)
    BY <1>1, <1>2, <2>1, Zenon DEF SessionSound, InTransaction
  <2>3. PICK s \in Orders(op, reqs), k \in Nat : Executed(c, s, k, todo, rows)
    BY <2>2, Zenon
  <2>4. Executed(c, s, k + 1, rest, after)
    <3>1. \A r \in Rows : after[r] = IF r = todo[1].row THEN [by |-> c, no |-> todo[1].no]
                                     ELSE rows[r]
      BY <1>4, <1>9, Zenon
    <3>2. NextStatement(c, todo, rows, rest, after)
      BY <1>3, <3>1, Zenon DEF NextStatement
    <3> QED BY <2>3, <3>2, OneMoreExecuted, Zenon
  <2>5. InTransaction(c, session'[c], after)
    <3>1. k + 1 \in Nat
      OBVIOUS
    <3> QED BY <1>3, <2>3, <2>4, <3>1, Zenon DEF InTransaction
  <2>6. InQuery(c, session'[c], db, results[c], cache[c], began[c])
    BY <1>1, <1>2, <1>3, Zenon DEF InQuery
  <2>7. /\ session'[c].op # "none" /\ session'[c].at \in {"exec", "commit"}
        /\ session'[c].at = "exec" => Len(rest) > 0
        /\ session'[c].at = "commit" => Len(rest) = 0
    <3>1. Len(rest) \in Nat /\ (Len(todo) = 1 <=> Len(rest) = 0)
      BY <1>3
    <3>2. op # "none" /\ session'[c].op = op
      BY <1>1, <1>2, <1>3, Zenon
    <3>3. session'[c].at = IF Len(todo) = 1 THEN "commit" ELSE "exec"
      BY <1>3, Zenon
    <3> QED BY <3>1, <3>2, <3>3, SMTT(30)
  <2>8. fate[c] # "committed"
    BY <1>1, <2>1, Zenon DEF SessionSound
  <2>9. OwnRows(c, after)
    <3>1. value.by = c
      BY <1>4, Zenon
    <3> QED BY <1>9, <2>1, <3>1, Zenon DEF SessionSound, OwnRows
  <2>10. SessionSound(c, session'[c], after, fate[c], db, results[c], cache[c], began[c])
    BY <1>3, <2>5, <2>6, <2>7, <2>8, <2>9, Zenon DEF SessionSound
  <2> QED BY <1>1, <1>10, <2>10, Zenon DEF CallerSound
<1> QED
  BY <1>1, <1>11, <1>12, <1>13, <1>14, OneSession, Zenon

(* A statement of the chain of a ConfigOpContext, executed or passed over.    *)
LEMMA OpRunKeeps ==
  ASSUME RdsInv, NEW c \in Sessions, OpRun(c) \/ OpRunFails(c)
  PROVE  RdsInv'
<1>1. /\ session[c].op = "config" /\ session[c].at = "exec" /\ Advance(c)
      /\ pending' = pending \/ pending' = [pending EXCEPT ![c][Statement(c).row] = Written(c)]
      /\ UNCHANGED <<db, fate, cache, results, began>>
  BY Zenon DEF OpRun, OpRunFails, At, ExecInTx, queryVars
<1>2. PICK todo, rest, rows : /\ todo = session[c].todo /\ rest = Tail(session[c].todo)
                              /\ rows = pending[c]
  BY Zenon
<1>3. /\ Len(todo) \in Nat /\ Len(todo) > 0 /\ Statement(c) \in StatementSet
      /\ session' \in [Sessions -> SessionState]
      /\ \A d \in Sessions \ {c} : session'[d] = session[d]
      /\ session'[c].op = session[c].op /\ session'[c].todo = rest /\ Len(rest) = Len(todo) - 1
      /\ session'[c].at = IF Len(todo) = 1 THEN "commit" ELSE "exec"
  BY <1>1, <1>2, AdvanceFacts, Zenon
<1>4. PICK row, value : row = Statement(c).row /\ value = Written(c)
  OBVIOUS
<1>5. row \in Rows /\ value \in RowValue /\ value.by = c
  BY <1>3, <1>4, Zenon DEF StatementSet, RowValue, Written
<1>6. pending \in [Sessions -> [Rows -> RowValue]]
  BY Zenon DEF RdsInv, RdsTyped
<1>7. PICK after : after = [rows EXCEPT ![row] = value]
  BY Zenon
<1>8. /\ after \in [Rows -> RowValue]
      /\ \A r \in Rows : after[r] = IF r = row THEN value ELSE rows[r]
  BY <1>2, <1>5, <1>6, <1>7, Zenon
<1>9. pending' = pending \/ pending' = [pending EXCEPT ![c] = after]
  BY <1>1, <1>2, <1>4, <1>7, Zenon
<1>10. /\ pending' \in [Sessions -> [Rows -> RowValue]]
       /\ pending'[c] = rows \/ pending'[c] = after
       /\ \A d \in Sessions \ {c} : pending'[d] = pending[d]
  BY <1>2, <1>6, <1>8, <1>9, Zenon
<1>11. OthersLeft(c)
  BY <1>1, <1>3, <1>10, Zenon DEF OthersLeft
<1>12. RdsTyped'
  BY <1>1, <1>3, <1>10, Zenon DEF RdsInv, RdsTyped
<1>13. \A d \in Sessions : session'[d].op = session[d].op
  BY <1>3, Zenon
<1>14. RowsSound'
  BY <1>1, <1>13, RowsStaySound, Zenon
<1>15. CallerSound(c)'
  <2>1. SessionSound(c, session[c], rows, fate[c], db, results[c], cache[c], began[c])
    BY <1>2, SessionFacts, Zenon
  <2>2. Len(rest) \in Nat /\ (Len(todo) = 1 <=> Len(rest) = 0)
    BY <1>3
  <2>3. /\ session'[c].at \in {"exec", "commit"}
        /\ session'[c].at = "exec" => Len(session'[c].todo) > 0
        /\ session'[c].at = "commit" => Len(session'[c].todo) = 0
    BY <1>3, <2>2, SMTT(30)
  <2>4. fate[c] # "committed"
    BY <1>1, <2>1, Zenon DEF SessionSound
  <2>5. session'[c].op = "config"
    BY <1>1, <1>13, Zenon
  <2>6. OwnRows(c, pending'[c])
    BY <1>5, <1>8, <1>10, <2>1, ZenonT(30) DEF SessionSound, OwnRows
  <2>7. InTransaction(c, session'[c], pending'[c])
         /\ InQuery(c, session'[c], db, results[c], cache[c], began[c])
    BY <2>5, Zenon DEF InTransaction, InQuery
  <2>8. SessionSound(c, session'[c], pending'[c], fate[c], db, results[c], cache[c], began[c])
    BY <2>3, <2>4, <2>5, <2>6, <2>7, Zenon DEF SessionSound
  <2> QED BY <1>1, <2>8, Zenon DEF CallerSound
<1> QED
  BY <1>1, <1>11, <1>12, <1>14, <1>15, OneSession, Zenon

-----------------------------------------------------------------------------
(* Commit: at the end of its statements ExecuteModify has written the rows of *)
(* its request and no others, each by the last statement on it.               *)
LEMMA CommitFacts ==
  ASSUME RdsInv, NEW c \in Sessions, session[c].op = "modify", session[c].at = "commit"
  PROVE  \E reqs \in StatementLists :
           /\ \A r \in Rows : pending[c][r] # NoRow <=> Writes(reqs, r)
           /\ \A r \in Rows : pending[c][r] # NoRow => pending[c][r].no = LastNo(reqs, r)
<1>1. PICK op, todo, rows : op = session[c].op /\ todo = session[c].todo /\ rows = pending[c]
  OBVIOUS
<1>2. SessionSound(c, session[c], rows, fate[c], db, results[c], cache[c], began[c])
  BY <1>1, SessionFacts, Zenon
<1>3. PICK reqs \in StatementLists : \E s \in Orders(op, reqs), k \in Nat :
        Executed(c, s, k, todo, rows)
  BY <1>1, <1>2, Zenon DEF SessionSound, InTransaction
<1>4. PICK s \in Orders(op, reqs), k \in Nat : Executed(c, s, k, todo, rows)
  BY <1>3, Zenon
<1>5. Len(todo) = 0
  BY <1>1, <1>2, Zenon DEF SessionSound
<1>6. k = Len(s)
  BY <1>4, <1>5 DEF Executed
<1>7. \A r \in Rows : RowAfter(c, s, Len(s), rows[r], r)
  BY <1>4, <1>6, Zenon DEF Executed
<1>8. c # Nobody
  BY SessionFacts, Zenon
<1>9. ASSUME NEW r \in Rows
      PROVE  /\ rows[r] # NoRow <=> \E i \in 1 .. Len(s) : s[i].row = r
             /\ rows[r] # NoRow => \E j \in 1 .. Len(s) :
                   /\ s[j].row = r /\ rows[r].no = s[j].no
                   /\ \A i \in 1 .. Len(s) : i > j => s[i].row # r
  <2>1. CASE rows[r] = NoRow /\ \A j \in 1 .. Len(s) : s[j].row # r
    BY <2>1, Zenon
  <2>2. ASSUME NEW j \in 1 .. Len(s), s[j].row = r, rows[r] = [by |-> c, no |-> s[j].no],
               \A i \in 1 .. Len(s) : i > j => s[i].row # r
        PROVE  /\ rows[r] # NoRow <=> \E i \in 1 .. Len(s) : s[i].row = r
               /\ rows[r] # NoRow => \E i \in 1 .. Len(s) :
                     /\ s[i].row = r /\ rows[r].no = s[i].no
                     /\ \A m \in 1 .. Len(s) : m > i => s[m].row # r
    <3>1. rows[r].by = c /\ rows[r].no = s[j].no
      BY <2>2
    <3>2. rows[r] # NoRow
      BY <1>8, <3>1 DEF NoRow
    <3> QED BY <2>2, <3>1, <3>2, Zenon
  <2> QED BY <1>7, <2>1, <2>2, Zenon DEF RowAfter
<1>10. \A r \in Rows : rows[r] # NoRow <=> Writes(reqs, r)
  <2>1. \A r : Writes(reqs, r) <=> \E i \in 1 .. Len(s) : s[i].row = r
    BY OrderFacts
  <2> QED BY <1>9, <2>1, Zenon
<1>11. ASSUME NEW r \in Rows, rows[r] # NoRow PROVE rows[r].no = LastNo(reqs, r)
  <2>1. s \in Sort(reqs)
    BY <1>1, Zenon DEF Orders
  <2>2. PICK j \in 1 .. Len(s) : /\ s[j].row = r /\ rows[r].no = s[j].no
                                 /\ \A i \in 1 .. Len(s) : i > j => s[i].row # r
    BY <1>9, <1>11, Zenon
  <2>3. s[j].no = LastNo(reqs, r)
    BY <2>1, <2>2, LastIsHighest, Zenon
  <2> QED BY <2>2, <2>3, Zenon
<1> QED
  BY <1>1, <1>9, <1>10, <1>11, ZenonT(30)

(* So its commit leaves the rows that are written together to one call, and   *)
(* that of a ConfigOpContext leaves them to itself or as they were.           *)
LEMMA CommitKeeps ==
  ASSUME RdsInv, NEW c \in Sessions, ModifyCommits(c) \/ OpCommits(c)
  PROVE  RdsInv'
<1>1. /\ session[c].op \in {"modify", "config"} /\ session[c].at = "commit" /\ Reading = {}
      /\ db' = [r \in Rows |-> IF pending[c][r] = NoRow THEN db[r] ELSE pending[c][r]]
      /\ fate' = [fate EXCEPT ![c] = "committed"]
      /\ session' = [session EXCEPT ![c].at = "done"]
      /\ UNCHANGED <<pending, cache, results, began>>
  BY Zenon DEF ModifyCommits, OpCommits, At, Commit, Return, Goto, queryVars
<1>2. PICK old : old = session[c]
  OBVIOUS
<1>3. PICK new : new = [old EXCEPT !.at = "done"]
  BY Zenon
<1>4. old \in SessionState
  BY <1>2, SessionFacts, Zenon
<1>5. new \in SessionState /\ new.op = old.op /\ new.at = "done"
  BY <1>3, <1>4, Zenon DEF SessionState
<1>6. /\ session \in [Sessions -> SessionState] /\ db \in [Rows -> RowValue]
      /\ fate \in [Sessions -> {"none", "rolled back", "committed"}]
      /\ pending \in [Sessions -> [Rows -> RowValue]]
  BY Zenon DEF RdsInv, RdsTyped
<1>7. /\ session' \in [Sessions -> SessionState] /\ session'[c] = new
      /\ \A d \in Sessions \ {c} : session'[d] = session[d]
  BY <1>1, <1>2, <1>3, <1>5, <1>6, Zenon
<1>8. /\ fate' \in [Sessions -> {"none", "rolled back", "committed"}] /\ fate'[c] = "committed"
      /\ \A d \in Sessions \ {c} : fate'[d] = fate[d]
  BY <1>1, <1>6, Zenon
<1>9. /\ db' \in [Rows -> RowValue]
      /\ \A r \in Rows : db'[r] = IF pending[c][r] = NoRow THEN db[r] ELSE pending[c][r]
  BY <1>1, <1>6, Zenon
<1>10. OthersLeft(c)
  BY <1>1, <1>7, <1>8, Zenon DEF OthersLeft
<1>11. RdsTyped'
  BY <1>1, <1>7, <1>8, <1>9, Zenon DEF RdsInv, RdsTyped
<1>12. \A d \in Sessions : session'[d].op = session[d].op
  BY <1>2, <1>5, <1>7, Zenon
<1>13. \A d \in Sessions : fate[d] = "committed" => fate'[d] = "committed"
  BY <1>8, Zenon
<1>14. \A r \in Rows : pending[c][r] # NoRow => pending[c][r].by = c
  BY SessionFacts, Zenon DEF SessionSound, OwnRows
<1>15. \A r \in Rows : db'[r] = db[r] \/ (db'[r].by = c /\ pending[c][r] # NoRow /\ db'[r] = pending[c][r])
  BY <1>9, <1>14, Zenon
<1>16. \A r \in Rows : db[r].by # Nobody => db[r].by \in Sessions
  BY <1>6, Zenon DEF RowValue
<1>m. \A r \in Rows : \A op : db'[r] = db[r] => (ModifiedBy(r, op)' <=> ModifiedBy(r, op))
  BY <1>12, <1>16, Zenon DEF ModifiedBy
<1>w. WritersBegun'
  <2>1. session[c].op # "none"
    BY <1>1, Zenon
  <2> QED BY <1>12, <1>15, <1>16, <2>1, Zenon DEF RdsInv, RowsSound, WritersBegun
<1>17. FromCommitted'
  <2> SUFFICES ASSUME NEW r \in Rows, ModifiedBy(r, "modify")'
               PROVE  fate'[db'[r].by] = "committed"
    BY Zenon DEF FromCommitted
  <2>1. CASE db'[r] = db[r]
    <3>1. ModifiedBy(r, "modify")
      BY <1>m, <2>1, Zenon
    <3>2. fate[db[r].by] = "committed" /\ db[r].by \in Sessions
      BY <1>16, <3>1, Zenon DEF RdsInv, RowsSound, FromCommitted, ModifiedBy
    <3> QED BY <1>13, <2>1, <3>2, Zenon
  <2>2. CASE db'[r].by = c
    BY <1>8, <2>2, Zenon
  <2> QED BY <1>15, <2>1, <2>2, Zenon
<1>c. ASSUME NEW r \in Rows, pending[c][r] # NoRow
      PROVE  db'[r] = pending[c][r] /\ db'[r].by = c /\ \A op : ModifiedBy(r, op)' <=> session[c].op = op
  <2>1. db'[r] = pending[c][r] /\ pending[c][r].by = c /\ c # Nobody
    BY <1>9, <1>14, <1>c, SessionFacts, Zenon
  <2> QED BY <1>12, <2>1, Zenon DEF ModifiedBy
<1>18. FromOneCall'
  <2> SUFFICES ASSUME NEW r \in Rows, NEW s \in Rows, Together(r, s), ModifiedBy(r, "modify")',
                      db'[s].by # db'[r].by
               PROVE  ModifiedBy(s, "transaction")' \/ ModifiedBy(s, "config")'
    BY Zenon DEF FromOneCall, Together
  <2>1. CASE session[c].op = "modify"
    <3>1. PICK reqs \in StatementLists : \A q \in Rows : pending[c][q] # NoRow <=> Writes(reqs, q)
      BY <1>1, <2>1, CommitFacts, Zenon
    <3>2. pending[c][r] # NoRow <=> pending[c][s] # NoRow
      BY <3>1, Zenon DEF Together
    <3>3. pending[c][r] = NoRow /\ pending[c][s] = NoRow
      BY <1>c, <3>2, Zenon
    <3>4. db'[r] = db[r] /\ db'[s] = db[s]
      BY <1>9, <3>3, Zenon
    <3>5. ModifiedBy(r, "modify") /\ db[s].by # db[r].by
      BY <1>m, <3>4, Zenon
    <3>6. ModifiedBy(s, "transaction") \/ ModifiedBy(s, "config")
      BY <3>5, Zenon DEF RdsInv, RowsSound, FromOneCall
    <3> QED BY <1>m, <3>4, <3>6, Zenon
  <2>2. CASE session[c].op = "config"
    <3>1. CASE pending[c][s] # NoRow
      BY <1>c, <2>2, <3>1, Zenon
    <3>2. CASE pending[c][s] = NoRow
      <4>1. pending[c][r] = NoRow
        <5>1. "config" # "modify"
          OBVIOUS
        <5> QED BY <1>c, <2>2, <5>1, Zenon
      <4>2. db'[r] = db[r] /\ db'[s] = db[s]
        BY <1>9, <3>2, <4>1, Zenon
      <4>3. ModifiedBy(r, "modify") /\ db[s].by # db[r].by
        BY <1>m, <4>2, Zenon
      <4>4. ModifiedBy(s, "transaction") \/ ModifiedBy(s, "config")
        BY <4>3, Zenon DEF RdsInv, RowsSound, FromOneCall
      <4> QED BY <1>m, <4>2, <4>4, Zenon
    <3> QED BY <3>1, <3>2, Zenon
  <2> QED BY <1>1, <2>1, <2>2, Zenon
<1>19. HighestStands'
  <2> SUFFICES ASSUME NEW r \in Rows, ModifiedBy(r, "modify")'
               PROVE  \E q \in StatementLists : db'[r].no = LastNo(q, r)
    BY Zenon DEF HighestStands
  <2>1. CASE pending[c][r] = NoRow
    <3>1. db'[r] = db[r]
      BY <1>9, <2>1, Zenon
    <3>2. ModifiedBy(r, "modify")
      BY <1>m, <3>1, Zenon
    <3> QED BY <3>1, <3>2, Zenon DEF RdsInv, RowsSound, HighestStands
  <2>2. CASE pending[c][r] # NoRow
    <3>1. session[c].op = "modify" /\ db'[r] = pending[c][r]
      BY <1>c, <2>2, Zenon
    <3>2. \E q \in StatementLists : pending[c][r].no = LastNo(q, r)
      BY <1>1, <2>2, <3>1, CommitFacts, Zenon
    <3> QED BY <3>1, <3>2, Zenon
  <2> QED BY <2>1, <2>2, Zenon
<1>20. CallerSound(c)'
  <2>1. SessionSound(c, old, pending[c], fate[c], db, results[c], cache[c], began[c])
         /\ old.op \in {"modify", "config"}
    BY <1>1, <1>2, SessionFacts, Zenon
  <2>2. InTransaction(c, new, pending[c]) /\ InQuery(c, new, db', results[c], cache[c], began[c])
    BY <1>5, <2>1, Zenon DEF InTransaction, InQuery
  <2>3. SessionSound(c, new, pending[c], "committed", db', results[c], cache[c], began[c])
    BY <1>5, <2>1, <2>2, Zenon DEF SessionSound
  <2> QED BY <1>1, <1>7, <1>8, <2>3, Zenon DEF CallerSound
<1>21. RowsSound'
  BY <1>w, <1>17, <1>18, <1>19, Zenon DEF RowsSound
<1> QED
  BY <1>1, <1>10, <1>11, <1>20, <1>21, OneSession, Zenon

(* A statement of f, which commits for itself.                                *)
LEMMA FExecKeeps ==
  ASSUME RdsInv, NEW c \in Sessions, FExec(c)
  PROVE  RdsInv'
<1>1. /\ session[c].op = "transaction" /\ session[c].at = "exec" /\ Advance(c) /\ Reading = {}
      /\ db' = [db EXCEPT ![Statement(c).row] = Written(c)]
      /\ UNCHANGED <<pending, fate, cache, results, began>>
  BY Zenon DEF FExec, At, queryVars
<1>2. PICK todo, rest : todo = session[c].todo /\ rest = Tail(session[c].todo)
  BY Zenon
<1>3. /\ Len(todo) \in Nat /\ Len(todo) > 0 /\ Statement(c) \in StatementSet
      /\ session' \in [Sessions -> SessionState]
      /\ \A d \in Sessions \ {c} : session'[d] = session[d]
      /\ session'[c].op = session[c].op /\ session'[c].todo = rest /\ Len(rest) = Len(todo) - 1
      /\ session'[c].at = IF Len(todo) = 1 THEN "commit" ELSE "exec"
  BY <1>1, <1>2, AdvanceFacts, Zenon
<1>4. PICK row, value : row = Statement(c).row /\ value = Written(c)
  OBVIOUS
<1>5. row \in Rows /\ value \in RowValue /\ value.by = c
  BY <1>3, <1>4, Zenon DEF StatementSet, RowValue, Written
<1>6. db \in [Rows -> RowValue] /\ c # Nobody
  BY SessionFacts, Zenon DEF RdsInv, RdsTyped
<1>7. /\ db' \in [Rows -> RowValue] /\ db'[row] = value
      /\ \A r \in Rows \ {row} : db'[r] = db[r]
  BY <1>1, <1>4, <1>5, <1>6, Zenon
<1>8. OthersLeft(c)
  BY <1>1, <1>3, Zenon DEF OthersLeft
<1>9. RdsTyped'
  BY <1>1, <1>3, <1>7, Zenon DEF RdsInv, RdsTyped
<1>10. \A d \in Sessions : session'[d].op = session[d].op
  BY <1>3, Zenon
<1>11. \A r \in Rows : db[r].by # Nobody => db[r].by \in Sessions
  BY <1>6, Zenon DEF RowValue
<1>12. session'[c].op = "transaction"
  BY <1>1, <1>10, Zenon
<1>m. \A r \in Rows \ {row} : db'[r] = db[r] /\ \A op : ModifiedBy(r, op)' <=> ModifiedBy(r, op)
  BY <1>7, <1>10, <1>11, Zenon DEF ModifiedBy
<1>t. /\ ModifiedBy(row, "transaction")' /\ ~ModifiedBy(row, "modify")'
  BY <1>5, <1>6, <1>7, <1>12, Zenon DEF ModifiedBy
<1>w. WritersBegun'
  <2>1. session'[c].op # "none"
    BY <1>12, Zenon
  <2> SUFFICES ASSUME NEW r \in Rows, db'[r].by # Nobody
               PROVE  session'[db'[r].by].op # "none"
    BY Zenon DEF WritersBegun
  <2>2. CASE r = row
    BY <1>5, <1>7, <2>1, <2>2, Zenon
  <2>3. CASE r # row
    BY <1>7, <1>10, <1>11, <2>3, Zenon DEF RdsInv, RowsSound, WritersBegun
  <2> QED BY <2>2, <2>3, Zenon
<1>13. FromCommitted'
  BY <1>1, <1>m, <1>t, Zenon DEF RdsInv, RowsSound, FromCommitted
<1>14. FromOneCall'
  <2> SUFFICES ASSUME NEW r \in Rows, NEW s \in Rows, Together(r, s), ModifiedBy(r, "modify")',
                      db'[s].by # db'[r].by
               PROVE  ModifiedBy(s, "transaction")' \/ ModifiedBy(s, "config")'
    BY Zenon DEF FromOneCall, Together
  <2>1. CASE s = row
    BY <1>t, <2>1, Zenon
  <2>2. CASE s # row
    <3>1. r # row
      BY <1>t, Zenon
    <3>2. ModifiedBy(r, "modify") /\ db[s].by # db[r].by
      BY <1>m, <2>2, <3>1, Zenon
    <3>3. ModifiedBy(s, "transaction") \/ ModifiedBy(s, "config")
      BY <3>2, Zenon DEF RdsInv, RowsSound, FromOneCall
    <3> QED BY <1>m, <2>2, <3>3, Zenon
  <2> QED BY <2>1, <2>2, Zenon
<1>15. HighestStands'
  <2> SUFFICES ASSUME NEW r \in Rows, ModifiedBy(r, "modify")'
               PROVE  \E q \in StatementLists : db'[r].no = LastNo(q, r)
    BY Zenon DEF HighestStands
  <2>1. r # row
    BY <1>t, Zenon
  <2>2. db'[r] = db[r] /\ ModifiedBy(r, "modify")
    BY <1>m, <2>1, Zenon
  <2> QED BY <2>2, Zenon DEF RdsInv, RowsSound, HighestStands
<1>16. CallerSound(c)'
  <2>1. SessionSound(c, session[c], pending[c], fate[c], db, results[c], cache[c], began[c])
    BY SessionFacts, Zenon
  <2>2. Len(rest) \in Nat /\ (Len(todo) = 1 <=> Len(rest) = 0)
    BY <1>3
  <2>3. /\ session'[c].at \in {"exec", "commit"}
        /\ session'[c].at = "exec" => Len(session'[c].todo) > 0
        /\ session'[c].at = "commit" => Len(session'[c].todo) = 0
    BY <1>3, <2>2, SMTT(30)
  <2>4. fate[c] # "committed"
    BY <1>1, <2>1, Zenon DEF SessionSound
  <2>5. InTransaction(c, session'[c], pending[c])
         /\ InQuery(c, session'[c], db', results[c], cache[c], began[c])
    BY <1>12, Zenon DEF InTransaction, InQuery
  <2>6. SessionSound(c, session'[c], pending[c], fate[c], db', results[c], cache[c], began[c])
    BY <1>12, <2>1, <2>3, <2>4, <2>5, Zenon DEF SessionSound
  <2> QED BY <1>1, <2>6, Zenon DEF CallerSound
<1>17. RowsSound'
  BY <1>w, <1>13, <1>14, <1>15, Zenon DEF RowsSound
<1> QED
  BY <1>1, <1>8, <1>9, <1>16, <1>17, OneSession, Zenon

(* A query reads its next row, of the rows as they were when it began.        *)
LEMMA ScanKeeps ==
  ASSUME RdsInv, NEW c \in Sessions, Scan(c)
  PROVE  RdsInv'
<1>1. /\ session[c].op = "query" /\ session[c].at = "exec"
      /\ cache' = [cache EXCEPT ![c] = db[Statement(c).row]]
      /\ results' = [results EXCEPT ![c] = Append(@, [cache |-> c])]
      /\ UNCHANGED <<db, pending, fate, began>>
  BY Zenon DEF Scan, At, Pointer
<1>2. PICK todo, found, start, old : /\ todo = session[c].todo /\ found = results[c]
                                     /\ start = began[c] /\ old = session[c]
  OBVIOUS
<1>3. /\ old \in SessionState /\ todo \in Seq(StatementSet) /\ found \in Seq([cache : Sessions])
      /\ SessionSound(c, old, pending[c], fate[c], db, found, cache[c], start)
  BY <1>2, SessionFacts, Zenon
<1>4. /\ Len(todo) \in Nat /\ Len(todo) > 0 /\ Len(found) \in Nat
      /\ \A i \in 1 .. Len(todo) : todo[i].row = Len(found) + i
      /\ \A i \in DOMAIN found : found[i] = [cache |-> c]
      /\ db = start /\ fate[c] # "committed"
  <2>1. InQuery(c, old, db, found, cache[c], start) /\ Len(todo) > 0 /\ fate[c] # "committed"
    BY <1>1, <1>2, <1>3, Zenon DEF SessionSound
  <2>2. Len(todo) \in Nat /\ Len(found) \in Nat
    BY <1>3
  <2> QED BY <1>1, <1>2, <2>1, <2>2, Zenon DEF InQuery
<1>5. PICK row, more : row = db[Statement(c).row] /\ more = Append(found, [cache |-> c])
  BY Zenon
<1>6. todo[1] \in StatementSet /\ Statement(c) = todo[1]
  BY <1>2, <1>3, <1>4 DEF Statement
<1>7. Statement(c).row = Len(found) + 1 /\ Statement(c).row \in Rows
  BY <1>4, <1>6, SMTT(30) DEF StatementSet
<1>8. /\ more \in Seq([cache : Sessions]) /\ Len(more) = Len(found) + 1
      /\ \A i \in DOMAIN more : more[i] = [cache |-> c]
  BY <1>3, <1>4, <1>5
<1>9. row = start[Len(more)] /\ row \in RowValue
  BY <1>4, <1>5, <1>7, <1>8, Zenon DEF RdsInv, RdsTyped
<1>10. /\ cache' \in [Sessions -> RowValue] /\ cache'[c] = row
       /\ \A d \in Sessions \ {c} : cache'[d] = cache[d]
  BY <1>1, <1>5, <1>9, Zenon DEF RdsInv, RdsTyped
<1>11. /\ results' \in [Sessions -> Seq([cache : Sessions])] /\ results'[c] = more
       /\ \A d \in Sessions \ {c} : results'[d] = results[d]
  BY <1>1, <1>2, <1>5, <1>8, Zenon DEF RdsInv, RdsTyped
<1>12. /\ session' \in [Sessions -> SessionState] /\ session'[c].op = "query"
       /\ \A d \in Sessions \ {c} : session'[d] = session[d]
       /\ \/ session'[c].at = "done"
          \/ /\ session'[c].at = "exec" /\ session'[c].todo = Tail(todo)
             /\ Len(todo) > 1
  <2>1. CASE Len(todo) = 1
    <3>1. session' = [session EXCEPT ![c].at = "done"]
      BY <1>2, <2>1, Zenon DEF Scan, Return, Goto
    <3>2. PICK new : new = [old EXCEPT !.at = "done"]
      BY Zenon
    <3>3. new \in SessionState /\ new.op = old.op /\ new.at = "done"
      BY <1>3, <3>2, Zenon DEF SessionState
    <3>4. session \in [Sessions -> SessionState]
      BY Zenon DEF RdsInv, RdsTyped
    <3>5. /\ session' \in [Sessions -> SessionState] /\ session'[c] = new
          /\ \A d \in Sessions \ {c} : session'[d] = session[d]
      BY <1>2, <3>1, <3>2, <3>3, <3>4, Zenon
    <3> QED BY <1>1, <1>2, <3>3, <3>5, Zenon
  <2>2. CASE Len(todo) # 1
    <3>1. Advance(c)
      BY <1>2, <2>2, Zenon DEF Scan
    <3>2. /\ session' \in [Sessions -> SessionState]
          /\ \A d \in Sessions \ {c} : session'[d] = session[d]
          /\ session'[c].op = session[c].op /\ session'[c].todo = Tail(todo)
          /\ session'[c].at = IF Len(todo) = 1 THEN "commit" ELSE "exec"
      BY <1>1, <1>2, <3>1, AdvanceFacts, Zenon
    <3>3. Len(todo) > 1
      <4>1. PICK n : n = Len(todo)
        BY Zenon
      <4>2. n \in Nat /\ n > 0 /\ n # 1
        BY <1>4, <2>2, <4>1, Zenon
      <4>3. n > 1
        BY <4>2, SMTT(30)
      <4> QED BY <4>1, <4>3, Zenon
    <3> QED BY <1>1, <2>2, <3>2, <3>3, Zenon
  <2> QED BY <2>1, <2>2, Zenon
<1>13. OthersLeft(c)
  BY <1>1, <1>10, <1>11, <1>12, Zenon DEF OthersLeft
<1>14. RdsTyped'
  BY <1>1, <1>10, <1>11, <1>12, ZenonT(30) DEF RdsInv, RdsTyped
<1>15. RowsSound'
  BY <1>1, <1>12, RowsStaySound, Zenon
<1>16. CallerSound(c)'
  <2>1. /\ session'[c].at # "idle" /\ session'[c].at # "commit"
        /\ session'[c].at = "exec" => Len(session'[c].todo) > 0
    BY <1>3, <1>4, <1>12
  <2>2. InTransaction(c, session'[c], pending[c])
    BY <1>12, Zenon DEF InTransaction
  <2>3. ASSUME session'[c].at = "exec", NEW i \in 1 .. Len(session'[c].todo)
        PROVE  session'[c].todo[i].row = Len(more) + i
    <3>1. session'[c].todo = Tail(todo) /\ Len(todo) > 1
      BY <1>12, <2>3, Zenon
    <3>2. Len(Tail(todo)) = Len(todo) - 1 /\ i + 1 \in 1 .. Len(todo) /\ Tail(todo)[i] = todo[i + 1]
      BY <1>3, <1>4, <2>3, <3>1
    <3>3. todo[i + 1].row = Len(found) + (i + 1)
      BY <1>4, <3>2, Zenon
    <3> QED BY <1>4, <1>8, <2>3, <3>1, <3>2, <3>3, SMTT(30)
  <2>4. InQuery(c, session'[c], db, more, row, start)
    BY <1>4, <1>8, <1>9, <2>3, Zenon DEF InQuery
  <2>5. SessionSound(c, session'[c], pending[c], fate[c], db, more, row, start)
    BY <1>3, <1>4, <1>12, <2>1, <2>2, <2>4, Zenon DEF SessionSound
  <2> QED BY <1>1, <1>2, <1>10, <1>11, <2>5, ZenonT(30) DEF CallerSound
<1> QED
  BY <1>1, <1>13, <1>14, <1>15, <1>16, OneSession, Zenon

-----------------------------------------------------------------------------
(* Nothing is stored, begun or read at first.                                 *)
LEMMA RdsInvInit ==
  RdsInit => RdsInv
<1> SUFFICES ASSUME RdsInit
             PROVE  RdsInv
  OBVIOUS
<1>1. NoRow \in RowValue /\ Nothing \in [Rows -> RowValue]
  BY Zenon DEF NoRow, Nothing, RowValue
<1>2. PICK s : s = [op |-> "none", at |-> "idle", todo |-> <<>>]
  BY Zenon
<1>3. s \in SessionState /\ s.op = "none" /\ s.at = "idle"
  BY <1>2 DEF SessionState
<1>4. \A c \in Sessions : /\ session[c] = s /\ pending[c] = Nothing /\ fate[c] = "none"
                          /\ results[c] = <<>>
  BY <1>2, Zenon DEF RdsInit
<1>5. RdsTyped
  BY <1>1, <1>2, <1>3 DEF RdsInit, RdsTyped
<1>6. \A r \in Rows : db[r].by = Nobody
  BY Zenon DEF RdsInit, Nothing, NoRow
<1>7. RowsSound
  BY <1>6, Zenon DEF RowsSound, WritersBegun, FromCommitted, FromOneCall, HighestStands, ModifiedBy
<1>8. ASSUME NEW c \in Sessions PROVE CallerSound(c)
  <2>1. InTransaction(c, s, Nothing) /\ InQuery(c, s, db, <<>>, cache[c], began[c])
    BY <1>3, Zenon DEF InTransaction, InQuery
  <2>2. SessionSound(c, s, Nothing, "none", db, <<>>, cache[c], began[c])
    BY <1>3, <2>1, NothingOwned, Zenon DEF SessionSound
  <2> QED BY <1>4, <2>2, Zenon DEF CallerSound
<1> QED
  BY <1>5, <1>7, <1>8, Zenon DEF RdsInv

(* Every step of the storage, and a stutter, keep the invariant.              *)
LEMMA RdsInvNext ==
  RdsInv /\ [RdsNext]_rdsVars => RdsInv'
<1> SUFFICES ASSUME RdsInv, [RdsNext]_rdsVars
             PROVE  RdsInv'
  OBVIOUS
<1>1. ASSUME NEW c \in Sessions, NEW reqs \in StatementLists, ExecuteModify(c, reqs)
      PROVE  RdsInv'
  <2>1. PICK s \in Sort(reqs) : Enter(c, "modify", s)
    BY <1>1, Zenon DEF ExecuteModify
  <2>2. s \in Orders("modify", reqs)
    BY <2>1, Zenon DEF Orders
  <2> QED BY <1>1, <2>1, <2>2, EnterKeeps, Zenon DEF ExecuteModify, queryVars
<1>2. ASSUME NEW c \in Sessions, NEW reqs \in StatementLists, Transaction(c, reqs)
      PROVE  RdsInv'
  <2>1. reqs \in Orders("transaction", reqs)
    BY Zenon DEF Orders
  <2> QED BY <1>2, <2>1, EnterKeeps, Zenon DEF Transaction, queryVars
<1>3. ASSUME NEW c \in Sessions, NEW reqs \in StatementLists, OpBegin(c, reqs)
      PROVE  RdsInv'
  <2>1. reqs \in Orders("config", reqs)
    BY Zenon DEF Orders
  <2> QED BY <1>3, <2>1, EnterKeeps, Zenon DEF OpBegin, queryVars
<1>4. ASSUME NEW c \in Sessions, Step(c)
      PROVE  RdsInv'
  BY <1>4, EndsKeep, ExecKeeps, OpRunKeeps, CommitKeeps, FExecKeeps, ScanKeeps, Zenon DEF Step
<1>5. CASE UNCHANGED rdsVars
  <2>1. UNCHANGED <<db, session, pending, fate, cache, results, began>>
    BY <1>5, Zenon DEF rdsVars
  <2>2. RdsTyped'
    BY <2>1, ZenonT(30) DEF RdsInv, RdsTyped
  <2>3. RowsSound'
    BY <2>1, ZenonT(30) DEF RdsInv, RowsSound, WritersBegun, FromCommitted, FromOneCall, HighestStands, ModifiedBy
  <2>4. ASSUME NEW c \in Sessions PROVE CallerSound(c)'
    BY <2>1, Zenon DEF RdsInv, CallerSound
  <2> QED BY <2>2, <2>3, <2>4, Zenon DEF RdsInv
<1>6. CASE RdsNext
  <2>1. PICK c \in Sessions :
          \/ \E reqs \in StatementLists : ExecuteModify(c, reqs) \/ Transaction(c, reqs) \/ OpBegin(c, reqs)
          \/ ExecuteQuery(c) \/ ModifyBeginFails(c)
          \/ Step(c) \/ ContextEnds(c)
    BY <1>6, Zenon DEF RdsNext
  <2> QED BY <1>1, <1>2, <1>3, <1>4, <2>1, ExecuteQueryKeeps, ModifyBeginFailsKeeps, EndsKeep, ZenonT(30)
<1> QED
  BY <1>5, <1>6, Zenon

(* For any callers, rows and batches of statements: what ExecuteModify leaves *)
(* in the database (rds.go) has committed and is whole until a call of        *)
(* another kind writes a row of it, its statement with the highest No stands, *)
(* and the records of a query (ExecuteQuery) are all the last row it has read *)
(* of the state it began in.                                                  *)
THEOREM ModifiesStayWhole ==
  RdsSpec => []ModifiesAreWhole
<1>1. RdsInv => ModifiesAreWhole
  <2> SUFFICES ASSUME RdsInv
               PROVE  ModifiesAreWhole
    OBVIOUS
  <2>1. ASSUME NEW c \in Sessions, At(c, "query", "done"), NEW i \in DOMAIN results[c]
        PROVE  Deref(results[c][i]) = began[c][Len(results[c])]
    <3>1. InQuery(c, session[c], db, results[c], cache[c], began[c]) /\ session[c].op = "query"
      BY <2>1, SessionFacts, Zenon DEF SessionSound, At
    <3>2. results[c][i] = [cache |-> c]
      BY <2>1, <3>1, Zenon DEF InQuery
    <3>3. Len(results[c]) > 0
      BY <2>1, SessionFacts
    <3>4. cache[c] = began[c][Len(results[c])]
      BY <3>1, <3>3, Zenon DEF InQuery
    <3> QED BY <3>2, <3>4, SMTT(30) DEF Deref
  <2> QED BY <2>1, Zenon DEF ModifiesAreWhole, RdsInv, RowsSound, FromCommitted, FromOneCall, HighestStands
<1> QED
  BY <1>1, RdsInvInit, RdsInvNext, PTL DEF RdsSpec
=============================================================================
