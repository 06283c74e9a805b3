----------------------------- MODULE KvStorage -----------------------------
(***************************************************************************)
(* The memory store of server/storage/kv.go: a map, the hooks around a     *)
(* write, and the tree of keys that a hook of its own keeps (KeyTree).     *)
(* Every operation holds memoryKVStorage.lock, but Destroy does not.       *)
(*                                                                         *)
(* Premise: a hook can be put into a polerpc.Set (as shipped, adding a     *)
(* function to one panics).  Ranging over a set that was never made does   *)
(* panic: a Write without a hook for HookForAfterWrite ends there, after   *)
(* its effect, and releases the lock.                                      *)
(*                                                                         *)
(* DeletePrefix does nothing and is not a step.  BeforeDelete, the hook    *)
(* that would remove a key from the tree, is called by no operation: the   *)
(* tree's Delete is the tests' (user = "test").                            *)
(***************************************************************************)
EXTENDS KeyTree

CONSTANTS
  Callers,
  Batches,    \* argument lists: sequences of keys
  MaxOps      \* bound: calls

\* A call without keys takes and releases the lock and changes nothing: it is
\* not a step.
ASSUME KvAssumption ==
  /\ MaxOps \in Nat
  /\ \A b \in Batches : b \in Seq(KeySet) /\ b # <<>>
  /\ "free" \notin Callers

VARIABLES
  user,       \* who uses the tree: a "test", or the "store"
  reference,  \* of the values: the number of the call that wrote them, 0 if none
  alive,      \* reference and kh are there: Destroy clears them in that order
  hooks,      \* the types of hook that have a set
  lock,       \* who holds the lock: a caller, or "free"
  call,       \* of each caller: place, number of the call, keys still to write
  log,        \* history: the calls, their keys and how they ended
  touched,    \* history: the last call that wrote or deleted each key
  seen        \* history: touched, when each caller last read

storeVars == <<reference, alive, hooks, lock, call, log, touched, seen>>
kvVars == <<treeVars, user, storeVars>>

-----------------------------------------------------------------------------
Idle == [at |-> "idle", id |-> 0, keys |-> <<>>]
HookTypes == {"BeforeWrite", "AfterWrite", "BeforeDelete", "AfterDelete"}

KvInit ==
  /\ TreeInit
  /\ user \in {"test", "store"}
  /\ reference = [k \in KeySet |-> 0]
  /\ alive = [reference |-> TRUE, kh |-> TRUE]
  /\ hooks = {"BeforeWrite", "BeforeDelete"}
  /\ lock = "free"
  /\ call = [c \in Callers |-> Idle]
  /\ log = <<>>
  /\ touched = [k \in KeySet |-> 0]
  /\ seen = [c \in Callers |-> [k \in KeySet |-> 0]]

Elems(b) == {b[i] : i \in DOMAIN b}
NewCall(op, b, out) == Append(log, [op |-> op, keys |-> Elems(b), out |-> out])
NotAsked == TRUE
LockFree == lock = "free"

Leave(c, out) ==
  /\ call' = [call EXCEPT ![c] = Idle]
  /\ log' = [log EXCEPT ![call[c].id].out = out]
  /\ lock' = "free"

-----------------------------------------------------------------------------
\* execHook: the hooks of type t are called, or it panics on a nil set or holder.
ExecHook(t) == alive.kh /\ t \in hooks

\* RegisterHook.  RemoveHook of the store calls it too.
RegisterHook(t) ==
  /\ alive.kh
  /\ hooks' = hooks \cup {t}
  /\ UNCHANGED <<treeVars, reference, alive, lock, call, log, touched, seen>>

\* Write and WriteBatch: for each key the hook that inserts it into the tree,
\* the entry, and the hooks after it.
WriteBatch(c, b) ==
  /\ call[c] = Idle
  /\ LockFree
  /\ lock' = c
  /\ call' = [call EXCEPT ![c] = [at |-> "before", id |-> Len(log) + 1, keys |-> b]]
  /\ log' = NewCall("write", b, "open")
  /\ UNCHANGED <<treeVars, reference, alive, hooks, touched, seen>>

BeforeWriteUnhooked(c) ==
  /\ call[c].at = "before"
  /\ call' = [call EXCEPT ![c].at = "put"]
  /\ UNCHANGED <<treeVars, reference, alive, hooks, lock, log, touched, seen>>

BeforeWrite(c) ==
  /\ call[c].at = "before"
  /\ IF ExecHook("BeforeWrite")
     THEN /\ Insert(Head(call[c].keys))
          /\ call' = [call EXCEPT ![c].at = "put"]
          /\ UNCHANGED <<lock, log>>
     ELSE Leave(c, "panicked") /\ UNCHANGED treeVars
  /\ UNCHANGED <<reference, alive, hooks, touched, seen>>

Put(c) ==
  /\ call[c].at = "put"
  /\ IF alive.reference
     THEN /\ reference' = [reference EXCEPT ![Head(call[c].keys)] = call[c].id]
          /\ touched' = [touched EXCEPT ![Head(call[c].keys)] = call[c].id]
          /\ call' = [call EXCEPT ![c].at = "after"]
          /\ UNCHANGED <<lock, log>>
     ELSE Leave(c, "panicked") /\ UNCHANGED <<reference, touched>>
  /\ UNCHANGED <<treeVars, alive, hooks, seen>>

AfterWrite(c) ==
  /\ call[c].at = "after"
  /\ IF ~ExecHook("AfterWrite") THEN Leave(c, "panicked")
     ELSE IF Len(call[c].keys) = 1 THEN Leave(c, "ok")
     ELSE /\ call' = [call EXCEPT ![c].at = "before", ![c].keys = Tail(@)]
          /\ UNCHANGED <<lock, log>>
  /\ UNCHANGED <<treeVars, reference, alive, hooks, touched, seen>>

-----------------------------------------------------------------------------
\* Delete and DeleteBatch run no hook: the tree keeps the keys.
DeleteBatch(c, b) ==
  /\ call[c] = Idle
  /\ LockFree
  /\ IF alive.reference
     THEN /\ reference' = [k \in KeySet |-> IF k \in Elems(b) THEN 0 ELSE reference[k]]
          /\ touched' = [k \in KeySet |->
                           IF k \in Elems(b) THEN Len(log) + 1 ELSE touched[k]]
          /\ log' = NewCall("delete", b, "ok")
     ELSE log' = NewCall("delete", b, "panicked") /\ UNCHANGED <<reference, touched>>
  /\ UNCHANGED <<treeVars, alive, hooks, lock, call, seen>>

\* Read and ReadBatch.
ReadBatch(c) ==
  /\ call[c] = Idle
  /\ LockFree
  /\ alive.reference
  /\ seen' = [seen EXCEPT ![c] = touched]
  /\ UNCHANGED <<treeVars, reference, alive, hooks, lock, call, log, touched>>

Destroy ==
  /\ alive' = [reference |-> FALSE, kh |-> alive.reference]
  /\ alive.kh
  /\ UNCHANGED <<treeVars, reference, hooks, lock, call, log, touched, seen>>

StoreNext ==
  \/ \E t \in HookTypes : RegisterHook(t)
  \/ \E c \in Callers :
       \/ Len(log) < MaxOps /\ \E b \in Batches : WriteBatch(c, b) \/ DeleteBatch(c, b)
       \/ BeforeWrite(c) \/ Put(c) \/ AfterWrite(c)
       \/ ReadBatch(c)
  \/ Destroy

KvNext ==
  /\ \/ user = "test" /\ TreeNext /\ UNCHANGED storeVars
     \/ user = "store" /\ StoreNext
  /\ UNCHANGED user

KvSpec == KvInit /\ [][KvNext]_kvVars

-----------------------------------------------------------------------------
(* Properties *)

\* kv.go:398-419: whatever is written, deleted and destroyed, and wherever a
\* write panics, a key of the map is in the tree: the hook before the write
\* puts it there, and Delete leaves it.
TreeCoversStore == \A k \in KeySet : reference[k] # 0 => k \in Keys

\* kv.go:382-435: a reader sees all of a WriteBatch or none of it, as long as
\* the batch does not panic half way.
BatchSeenWhole ==
  \A c \in Callers, n \in DOMAIN log :
    log[n].op = "write" /\ log[n].out # "panicked" =>
      \A k, l \in log[n].keys : seen[c][k] = n => seen[c][l] >= n
=============================================================================
