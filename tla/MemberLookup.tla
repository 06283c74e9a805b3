---------------------------- MODULE MemberLookup ----------------------------
(***************************************************************************)
(* The lookups of server/cluster/member_lookup.go, which tell the member   *)
(* table (MemberChange of ServerClusterManager) who belongs to the         *)
(* cluster, and the HTTP handler of member_manager.go that switches from   *)
(* one to another without a lock.  A file lookup is a watcher of the       *)
(* centre of FileWatch, an address-server lookup a task of its own.        *)
(*                                                                         *)
(* The mode is the cluster mode: in standalone mode every switch is        *)
(* refused before it does anything.  The kubernetes lookup asks an empty   *)
(* Clientset and panics in Start, so that it is, like a name that does not *)
(* exist, a switch that fails.                                             *)
(*                                                                         *)
(* Premise CleanParse: as the code stands ReadAllLines puts ten empty      *)
(* lines first, SingParse panics on the first of them, and MultiParse      *)
(* leaves a nil for every line: no list ever arrives.                      *)
(***************************************************************************)
EXTENDS FileWatch

CONSTANTS
  Switchers,    \* requests of MemberLookupSwitchPattern
  FirstKind,    \* MemberLookupType of the configuration
  CleanParse,
  MaxLookups,   \* bound: lookups made
  MaxWrites     \* bound: changes of cluster.conf

Kinds == {"file", "address"}

ASSUME LookupAssumption ==
  /\ FirstKind \in Kinds
  /\ CleanParse \in BOOLEAN
  /\ MaxLookups \in Nat \ {0}
  /\ MaxWrites \in Nat

VARIABLES
  lookups,   \* the lookups, numbered as they are made
  lookUp,    \* ServerClusterManager.lookUp
  conf,      \* cluster.conf: its version, and whether it can be read and parsed
  pc,        \* where each request is
  old, new,  \* the lookup it shuts down, and the one it has started
  alone,     \* history: no two requests since the first of those in progress
  settled    \* history: the last request succeeded and overlapped no other

lookupVars == <<lookups, lookUp, pc, old, new, alone, settled>>
vars == <<watchVars, lookupVars, conf>>

-----------------------------------------------------------------------------
\* known: the version of cluster.conf a file lookup was started with or has
\* delivered; late: the lists that came after Shutdown had returned.
Lookup(k) ==
  [kind |-> k, isShutdown |-> FALSE, ticker |-> "on", task |-> "idle",
   known |-> conf.version, late |-> 0]

Busy == {s \in Switchers : pc[s] # "idle"}

\* NewServerClusterManager has returned, with the lookup of the configuration.
Init ==
  /\ conf = [version |-> 0, good |-> TRUE]
  /\ lookups = <<Lookup(FirstKind)>>
  /\ lookUp = 1
  /\ WatchInit(IF FirstKind = "file" THEN <<1>> ELSE <<>>)
  /\ pc = [s \in Switchers |-> "idle"]
  /\ old = [s \in Switchers |-> 0]
  /\ new = [s \in Switchers |-> 0]
  /\ alone = TRUE
  /\ settled = TRUE

-----------------------------------------------------------------------------
(* The handler and SwitchMemberLookupAndCloseOld. *)

Goto(s, where) == pc' = [pc EXCEPT ![s] = where]

Switch(s) ==
  /\ pc[s] = "idle"
  /\ Len(lookups) + Cardinality(Busy) < MaxLookups
  /\ old' = [old EXCEPT ![s] = lookUp]
  /\ Goto(s, "shutdown")
  /\ alone' = (Busy = {})
  /\ settled' = FALSE
  /\ UNCHANGED <<watchVars, conf, lookups, lookUp, new>>

\* Shutdown of a file lookup.
ShutdownFile(s) ==
  /\ pc[s] = "shutdown"
  /\ lookups[old[s]].kind = "file"
  /\ RemoveFileWatcher(old[s])
  /\ lookups' = [lookups EXCEPT ![old[s]].isShutdown = TRUE]
  /\ Goto(s, "create")
  /\ UNCHANGED <<conf, lookUp, old, new, alone, settled>>

\* Shutdown of an address-server lookup: the ticker, and then the flag.
Cancel(s) ==
  /\ pc[s] = "shutdown"
  /\ lookups[old[s]].kind = "address"
  /\ lookups' = [lookups EXCEPT ![old[s]].ticker = IF @ = "on" THEN "cancelled" ELSE @]
  /\ Goto(s, "mark")
  /\ UNCHANGED <<watchVars, conf, lookUp, old, new, alone, settled>>

MarkShutdown(s) ==
  /\ pc[s] = "mark"
  /\ lookups' = [lookups EXCEPT ![old[s]].isShutdown = TRUE]
  /\ Goto(s, "create")
  /\ UNCHANGED <<watchVars, conf, lookUp, old, new, alone, settled>>

\* createLookupByName and Start.  What was shut down stays shut down, and
\* stays in s.lookUp, when they fail.
SwitchFails(s) ==
  /\ pc[s] = "create"
  /\ Goto(s, "idle")
  /\ old' = [old EXCEPT ![s] = 0]
  /\ UNCHANGED <<conf, lookUp, new, alone, settled>>

CreateFails(s) == SwitchFails(s) /\ UNCHANGED <<watchVars, lookups>>

StartFileFails(s) ==
  /\ SwitchFails(s)
  /\ lookups' = Append(lookups, Lookup("file"))
  /\ RegisterFails(Len(lookups'))

Started(s, k) ==
  /\ pc[s] = "create"
  /\ lookups' = Append(lookups, Lookup(k))
  /\ new' = [new EXCEPT ![s] = Len(lookups')]
  /\ old' = [old EXCEPT ![s] = 0]
  /\ Goto(s, "assign")
  /\ UNCHANGED <<conf, lookUp, alone, settled>>

StartFile(s) == Started(s, "file") /\ Register(Len(lookups'))
StartAddress(s) == Started(s, "address") /\ UNCHANGED watchVars

Assign(s) ==
  /\ pc[s] = "assign"
  /\ lookUp' = new[s]
  /\ settled' = alone
  /\ new' = [new EXCEPT ![s] = 0]
  /\ Goto(s, "idle")
  /\ UNCHANGED <<watchVars, conf, lookups, old, alone>>

\* A write to watcherMap is under way while the loop may range over it.
WritesMap(s) ==
  \/ pc[s] = "create"
  \/ pc[s] = "shutdown" /\ lookups[old[s]].kind = "file"

Race(s) == WritesMap(s) /\ MapRace /\ UNCHANGED <<lookupVars, conf>>

-----------------------------------------------------------------------------
(* The file lookup. *)

\* cluster.conf is written, removed or left in a form that does not parse;
\* something else happens in the directory.
WriteConf(g) ==
  /\ conf.version < MaxWrites
  /\ conf' = [version |-> conf.version + 1, good |-> g]
  /\ Occur("conf")
  /\ UNCHANGED lookupVars

OtherEvent ==
  /\ queue = <<>>     \* bound: one such event is enough
  /\ Occur("other")
  /\ UNCHANGED <<lookupVars, conf>>

Parses(good) == CleanParse /\ good

\* OnEvent reads the file, whatever the event was, ...
ReadConf == Parses(conf.good) /\ HasRead(conf.version)
ReadPanics == ~Parses(conf.good) /\ Panics

\* ... and passes what it has read to the observer.
Deliver ==
  /\ Returned
  /\ lookups' = [lookups EXCEPT ![loop.f].known = loop.read]
  /\ UNCHANGED <<conf, lookUp, pc, old, new, alone, settled>>

LoopStep ==
  \/ (Receive \/ ReadConf \/ ReadPanics) /\ UNCHANGED <<lookupVars, conf>>
  \/ Deliver

-----------------------------------------------------------------------------
(* The task of an address-server lookup. *)

AlwaysPolls(o) == TRUE
Polls(o) == ~lookups[o].isShutdown

IsTask(o, where) == lookups[o].kind = "address" /\ lookups[o].task = where
OnlyLookups == UNCHANGED <<watchVars, conf, lookUp, pc, old, new, alone, settled>>

\* A tick that is in the channel is taken also after Cancel.
Tick(o) ==
  /\ IsTask(o, "idle")
  /\ lookups[o].ticker # "stopped"
  /\ Polls(o)
  /\ lookups' = [lookups EXCEPT ![o].task = "get"]
  /\ OnlyLookups

StopTicker(o) ==
  /\ IsTask(o, "idle")
  /\ lookups[o].ticker = "cancelled"
  /\ lookups' = [lookups EXCEPT ![o].ticker = "stopped"]
  /\ OnlyLookups

\* The answer is a list, which goes to the observer, an error, or something
\* that SingParse panics on, which ends the task.
Answer(o) ==
  /\ IsTask(o, "get")
  /\ \/ /\ CleanParse
        /\ lookups' = [lookups EXCEPT ![o].task = "idle",
                                      ![o].late = IF lookups[o].isShutdown THEN @ + 1 ELSE @]
     \/ lookups' = [lookups EXCEPT ![o].task = "idle"]
     \/ lookups' = [lookups EXCEPT ![o].task = "dead"]
  /\ OnlyLookups

-----------------------------------------------------------------------------
SwitchStep(s) ==
  \/ ShutdownFile(s) \/ Cancel(s) \/ MarkShutdown(s)
  \/ CreateFails(s) \/ StartFileFails(s) \/ StartFile(s) \/ StartAddress(s)
  \/ Assign(s)

Next ==
  /\ ~Crashed
  /\ \/ \E s \in Switchers : Switch(s) \/ SwitchStep(s) \/ Race(s)
     \/ \E g \in BOOLEAN : WriteConf(g)
     \/ OtherEvent
     \/ LoopStep
     \/ \E o \in DOMAIN lookups : Tick(o) \/ StopTicker(o) \/ Answer(o)

Spec == Init /\ [][Next]_vars

\* The goroutine of the centre goes on; a switch, and the answer of an address
\* server, for which http.Get sets no limit, may take for ever.
FairSpec == Spec /\ WF_vars(LoopStep)

-----------------------------------------------------------------------------
(* Properties *)

Live(o) ==
  /\ ~lookups[o].isShutdown
  /\ IF lookups[o].kind = "file" THEN o \in Listed /\ watched ELSE lookups[o].ticker = "on"

\* After a switch that succeeded and that no other overlapped, whatever
\* failed or overlapped before it, the lookup of the manager is at work: its
\* watcher is registered and the directory watched, or its ticker runs.
SettledIsLive == settled => Live(lookUp)

\* Once Shutdown of an address-server lookup has returned, at most one list of
\* it still reaches the table: the one whose request was under way.
LateListAtMostOne == \A o \in DOMAIN lookups : lookups[o].late <= 1

\* A change of cluster.conf reaches the table through a file lookup that stays
\* at work, also when the queue of events overflows, while other lookups come
\* and go and stale watchers are called before it; unless the file is removed
\* or broken, which may end the loop of the centre.
FileChangeDelivered ==
  \A o \in 1 .. MaxLookups, v \in 1 .. MaxWrites :
    (/\ o \in DOMAIN lookups /\ lookups[o].kind = "file" /\ Live(o)
     /\ conf.version = v /\ lookups[o].known < v)
      ~> (\/ o \in DOMAIN lookups /\ (lookups[o].known >= v \/ ~Live(o))
          \/ ~conf.good
          \/ loop.at \in {"dead", "crashed"})
=============================================================================
