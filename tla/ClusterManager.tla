---------------------------- MODULE ClusterManager ----------------------------
(***************************************************************************)
(* The member table of server/cluster/member_manager.go: MemberChange from *)
(* the lookups, UpdateMember from the task that reports to other members,  *)
(* and the MemberChangeEvent published, with ServerClusterManager.lock     *)
(* held, through the notify package (module Publisher).                    *)
(*                                                                         *)
(* Members are pointers.  <<a, g>> is the object for address a that the    *)
(* g-th list brought (0: the one made by init), and the table maps an      *)
(* address to the list its object came with.                               *)
(*                                                                         *)
(* Two premises.  The table is a zero ConcurrentMap, on which the vendored *)
(* pole-rpc panics at the first Put; ZeroMapUsable = TRUE is what the code *)
(* presupposes.  openReportSelfInfoToOtherWork, which starts the reporting *)
(* task, has no caller; Reporting = TRUE is the manager with it started.   *)
(***************************************************************************)
EXTENDS Integers, Sequences, FiniteSets, Functions, KRandom

CONSTANTS
  Addrs,            \* ip:port of members
  Self,
  NilMember,        \* the nil pointers MultiParse leaves in its result
  Lists,            \* lists a lookup may pass to MemberChange
  Changers,         \* goroutines of lookups
  K,                \* 3 in the code: members to report to
  ZeroMapUsable, Reporting,
  MaxLists,         \* bound: calls of MemberChange
  MaxProbes,        \* bound: calls of UpdateMember
  Subscribers, Faulty, RingSizes, SmallRing, DefaultRing, SeqNos, ExactLimit,
  LogInstalled, MaxSent

Topic == "MemberChangeEvent"

ASSUME ClusterAssumption ==
  /\ Self \in Addrs /\ {"free", "reporter"} \cap Changers = {}
  /\ Lists \subseteq Seq(Addrs \cup {NilMember})
  /\ K \in Nat
  /\ {ZeroMapUsable, Reporting} \subseteq BOOLEAN
  /\ MaxLists \in Nat /\ MaxProbes \in Nat
  /\ MaxSent >= MaxLists + MaxProbes

VARIABLES
  ring, queue, subscribers, lastSequence, handler, event, present, visited, cut,
  ticked, sent, done, joined, seen,
  up,         \* NewServerClusterManager has returned
  table,      \* memberList: address |-> list of its object, None if absent
  size,       \* memberList.size
  status,     \* Member.Status, per object
  lock,       \* holder of ServerClusterManager.lock
  changer,    \* what each changer is doing
  reporter,   \* where the reporting task is
  listLen,    \* the length of the slice GetMemberList made for it
  waitReport, \* the members it still has to report to
  target,     \* the one it has just had an answer from
  lists,      \* history: lists passed to MemberChange
  probes,     \* history: calls of UpdateMember
  latest,     \* history: addresses of the last list that was taken over
  published   \* history: the addresses in each event, by event number

P == INSTANCE Publisher WITH Topics <- {Topic}, ClockTopics <- {Topic}, IgnoreExpire <- {}

pubVars == <<ring, queue, subscribers, lastSequence, handler, event, present,
             visited, cut, ticked, sent, done, joined, seen>>
tableVars == <<table, size, latest>>
reportVars == <<reporter, listLen, waitReport, target, probes>>
vars == <<pubVars, up, tableVars, status, lock, changer, reportVars, lists,
          published>>

-----------------------------------------------------------------------------
None == -1
Free == "free"
Reporter == "reporter"
NoMember == <<Self, None>>

Objects == Addrs \X (0 .. MaxLists)
Keys == {a \in Addrs : table[a] # None}

Init ==
  /\ P!Init
  /\ up = FALSE
  /\ table = [a \in Addrs |-> None]
  /\ size = 0
  /\ status = [o \in Objects |-> "Health"]
  /\ lock = Free
  /\ changer = [c \in Changers |-> "idle"]
  /\ reporter = "idle"
  /\ listLen = 0
  /\ waitReport = {}
  /\ target = NoMember
  /\ lists = 0
  /\ probes = 0
  /\ latest = {}
  /\ published = <<>>

\* init: register the publisher and put this server in the table.  It runs
\* before any lookup is started.
Construct ==
  /\ ~up
  /\ \E n \in RingSizes : P!RegisterPublisher(Topic, n)
  /\ up' = ZeroMapUsable
  /\ IF ZeroMapUsable
     THEN /\ table' = [table EXCEPT ![Self] = 0]
          /\ size' = size + 1
          /\ latest' = {Self}
     ELSE UNCHANGED tableVars
  /\ UNCHANGED <<status, lock, changer, reportVars, lists, published>>

\* notifySubscriber is still to come when its caller has changed the table; it
\* publishes the members in the table, and its caller then unlocks.
notifySubscriber(p) ==
  /\ lock = p
  /\ P!Send(Topic)
  /\ published' = Append(published, Keys)
  /\ lock' = Free

\* MemberChange decides to notify when the number of members is the SAME and
\* when an address is new.
OnlySameCount(l) == Len(l) = size
HasChanged(l) == Len(l) = size \/ Range(l) \ Keys # {}

\* ServerClusterManager.lock.
LockFree == lock = Free

HasNil(l) == NilMember \in Range(l)

\* MemberChange up to the notification.  A nil member panics in GetIdentifier
\* before anything is assigned, and the deferred Unlock runs.
MemberChange(c, l) ==
  /\ up
  /\ lists < MaxLists
  /\ changer[c] = "idle"
  /\ LockFree
  /\ lists' = lists + 1
  /\ IF HasNil(l)
     THEN UNCHANGED <<tableVars, lock, changer>>
     ELSE /\ table' = [a \in Addrs |-> IF a \in Range(l) THEN lists + 1 ELSE None]
          /\ size' = Len(l)
          /\ latest' = Range(l)
          /\ IF HasChanged(l)
             THEN lock' = c /\ changer' = [changer EXCEPT ![c] = "notify"]
             ELSE UNCHANGED <<lock, changer>>
  /\ UNCHANGED <<pubVars, up, status, reportVars, published>>

NotifyChange(c) ==
  /\ changer[c] = "notify"
  /\ notifySubscriber(c)
  /\ changer' = [changer EXCEPT ![c] = "idle"]
  /\ UNCHANGED <<up, tableVars, status, reportVars, lists>>

-----------------------------------------------------------------------------
\* GetMemberList reads memberList without the lock, once for its size ...
ReadSize ==
  /\ up /\ Reporting
  /\ reporter = "idle"
  /\ probes < MaxProbes
  /\ reporter' = "sized"
  /\ listLen' = size
  /\ UNCHANGED <<pubVars, up, tableVars, status, lock, changer, waitReport,
                 target, probes, lists, published>>

\* ... and once for its members.  More of them than the slice has room for
\* panic; fewer leave nil pointers at its end.
Collected == {<<a, table[a]>> : a \in Keys}
Nils == listLen - Cardinality(Keys)

\* The filter passed to KRandomMember.
Reportable(o) == status[o] = "Health"

Fit == {o \in Collected : Reportable(o)}

Select ==
  /\ reporter = "sized"
  /\ Nils >= 0
  /\ Nils > 0 => Collected # {}
  /\ waitReport' \in KRandomMember(K, Collected, Fit)
  /\ reporter' = IF waitReport' = {} THEN "idle" ELSE "report"
  /\ listLen' = 0
  /\ UNCHANGED <<pubVars, up, tableVars, status, lock, changer, target, probes,
                 lists, published>>

\* The slice is too short, or the filter is given one of the nil pointers: the
\* panic ends the loop of DoTimerSchedule.
SelectPanics ==
  /\ reporter = "sized"
  /\ Nils # 0
  /\ reporter' = "dead"
  /\ listLen' = 0
  /\ UNCHANGED <<pubVars, up, tableVars, status, lock, changer, waitReport,
                 target, probes, lists, published>>

\* What OnSuccess and OnFail make of Member.Status.  OnFail tests whether the
\* error has ANY of the characters of "Connection refused", which every error
\* of http.Post has: it never comes to counting failures.
Answers == {"Health", "Down"}

\* One answer.  OnSuccess and OnFail write the member without the lock and then
\* call UpdateMember.
Report(o) ==
  /\ reporter = "report"
  /\ o \in waitReport
  /\ probes < MaxProbes
  /\ \E answer \in Answers : status' = [status EXCEPT ![o] = answer]
  /\ reporter' = "update"
  /\ target' = o
  /\ waitReport' = waitReport \ {o}
  /\ probes' = probes + 1
  /\ UNCHANGED <<pubVars, up, tableVars, lock, changer, listLen, lists, published>>

\* Any answer but 200 calls OnFail with a nil error, which panics after the
\* first assignment and ends the task.
ReportRejected(o) ==
  /\ reporter = "report"
  /\ o \in waitReport
  /\ status' = [status EXCEPT ![o] = "Impeach"]
  /\ reporter' = "dead"
  /\ waitReport' = {}
  /\ UNCHANGED <<pubVars, up, tableVars, lock, changer, listLen, target, probes,
                 lists, published>>

NextReport == IF waitReport = {} THEN "idle" ELSE "report"

\* UpdateMember up to the notification: an address that has left the table is
\* not put back.  Put counts a replaced entry as one more.
AlwaysKnown(a) == TRUE
Known(a) == a \in Keys
PutSize == size + 1

UpdateMember ==
  /\ reporter = "update"
  /\ LockFree
  /\ target' = NoMember
  /\ IF Known(target[1])
     THEN /\ table' = [table EXCEPT ![target[1]] = target[2]]
          /\ size' = PutSize
          /\ lock' = Reporter
          /\ reporter' = "notify"
     ELSE /\ reporter' = NextReport
          /\ UNCHANGED <<table, size, lock>>
  /\ UNCHANGED <<pubVars, up, latest, status, changer, listLen, waitReport, probes,
                 lists, published>>

NotifyUpdateOnError ==
  /\ reporter = "notify"
  /\ lock = Reporter
  /\ P!Send(Topic)
  /\ published' = Append(published, Keys)
  /\ reporter' = NextReport
  /\ UNCHANGED <<up, tableVars, status, lock, changer, listLen, waitReport, target,
                 probes, lists>>

NotifyUpdate ==
  /\ reporter = "notify"
  /\ notifySubscriber(Reporter)
  /\ reporter' = NextReport
  /\ UNCHANGED <<up, tableVars, status, changer, listLen, waitReport, target,
                 probes, lists>>

ReporterStep ==
  \/ ReadSize
  \/ Select
  \/ SelectPanics
  \/ \E o \in Objects : Report(o) \/ ReportRejected(o)
  \/ UpdateMember
  \/ NotifyUpdate

-----------------------------------------------------------------------------
Subscribe(s) ==
  /\ P!AddSubscriber(Topic, s)
  /\ UNCHANGED <<up, tableVars, status, lock, changer, reportVars, lists, published>>

Handler ==
  /\ P!HandlerStep(Topic)
  /\ UNCHANGED <<up, tableVars, status, lock, changer, reportVars, lists, published>>

Tick ==
  /\ P!Tick
  /\ UNCHANGED <<up, tableVars, status, lock, changer, reportVars, lists, published>>

Next ==
  \/ Construct
  \/ \E c \in Changers : NotifyChange(c) \/ \E l \in Lists : MemberChange(c, l)
  \/ ReporterStep
  \/ \E s \in Subscribers : Subscribe(s)
  \/ Handler
  \/ Tick

Spec == Init /\ [][Next]_vars

\* Goroutines that can run do, and the mutex is handed to a waiter in time.
FairSpec ==
  /\ Spec
  /\ WF_vars(Handler)
  /\ \A c \in Changers : WF_vars(NotifyChange(c))
  /\ SF_vars(UpdateMember)
  /\ WF_vars(NotifyUpdate)

-----------------------------------------------------------------------------

\* The report of a member that a lookup has dropped meanwhile does not bring
\* its address back.
TableIsLatestList == Keys = latest

\* The members subscribers were last told of include every member of the
\* table, unless the change is being notified.
LastTold == IF published = <<>> THEN {Self} ELSE published[Len(published)]
AdditionsTold == up /\ lock = Free => Keys \subseteq LastTold

\* A subscriber of the first hour comes to know every member of the table,
\* unless the OnEvent of another one panicked on the last event and so ended its
\* Range, and every caller of MemberChange and UpdateMember gets to release the
\* lock; both as long as the handler of the topic lives.
Told(s) ==
  LET heard == seen[Topic][s] IN
  IF heard = <<>> THEN {Self} ELSE published[heard[Len(heard)].id]
FromTheStart(s) == s \in subscribers[Topic] /\ joined[Topic][s] = 0
LastCut == Len(published) \in cut[Topic]
SubscribersConverge ==
  /\ \A s \in Subscribers :
       <>[](handler[Topic] # "dead" /\ FromTheStart(s) /\ ~LastCut => Keys \subseteq Told(s))
  /\ lock # Free ~> (lock = Free \/ handler[Topic] = "dead")
=============================================================================
