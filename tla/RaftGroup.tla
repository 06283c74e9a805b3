------------------------------ MODULE RaftGroup ------------------------------
(* wrapperRaftStateMachine of server/core/raft_protocol.go, the state machine *)
(* that raft_protocol.go gives to dragonboat, on the replicas of one group.   *)
(* dragonboat is external: it keeps the committed entries on every replica,   *)
(* calls Update in the order of the log, asks for a snapshot after            *)
(* SnapshotEntries entries, cuts the log below it except for the last         *)
(* CompactionOverhead entries, sends its snapshot to a replica that needs     *)
(* entries already cut, replays the log above the snapshot after a start, and *)
(* panics when Update returns an error. An entry counts as committed when one *)
(* replica holds it, which allows more than a quorum does.                    *)
(*                                                                            *)
(* Premise: dragonboat accepts the start of the replica. As the code stands   *)
(* it does not: init makes the directory whose absence start takes for the    *)
(* first start, so start passes join with the members, which StartCluster     *)
(* refuses (RaftProtocol). The module says what the wrapper does once that    *)
(* start is accepted; StartAccepted names the premise.                        *)
EXTENDS Integers, Sequences, Functions, FiniteSetsExt

CONSTANTS
  StartAccepted,       \* whether StartCluster accepts what start passes
  Nodes,               \* replicas of the group
  SnapshotEntries,
  CompactionOverhead,
  MaxLog,              \* entries committed
  MaxStarts            \* starts of a replica

ASSUME GroupAssumption ==
  /\ StartAccepted \in BOOLEAN
  /\ {SnapshotEntries, CompactionOverhead, MaxLog, MaxStarts} \subseteq Nat

\* An entry fails when it is not a Write, or the response of OnWrite
\* cannot be encoded.
UpdateKinds == {"write", "fails"}

VARIABLES
  log,        \* the kinds of the committed entries
  held,       \* by replica: the last entry in its log
  first,      \*   the first entry its log still has
  snapshot,   \*   the index of its snapshot, 0 for none
  wrapper,    \*   its wrapperRaftStateMachine: none, open or closed
  applied,    \*   the last entry dragonboat has applied
  given,      \*   the entries OnWrite of the processor has been given
  opened,     \*   how many of them before this wrapper
  recovered,  \*   the last snapshot this wrapper recovered from
  starts

nodeVars == <<held, first, snapshot, wrapper, applied, given, opened, recovered, starts>>
groupVars == <<log, nodeVars>>

GroupInit ==
  /\ log = <<>>
  /\ held = [n \in Nodes |-> 0]
  /\ first = [n \in Nodes |-> 1]
  /\ snapshot = [n \in Nodes |-> 0]
  /\ wrapper = [n \in Nodes |-> "none"]
  /\ applied = [n \in Nodes |-> 0]
  /\ given = [n \in Nodes |-> <<>>]
  /\ opened = [n \in Nodes |-> 0]
  /\ recovered = [n \in Nodes |-> 0]
  /\ starts = [n \in Nodes |-> 0]

IsClosed(n) == wrapper[n] # "open"

\* A replica that holds the whole log commits one more entry.
Commit(n, kind) ==
  /\ ~IsClosed(n)
  /\ held[n] = Len(log) /\ Len(log) < MaxLog
  /\ log' = Append(log, kind)
  /\ held' = [held EXCEPT ![n] = @ + 1]
  /\ UNCHANGED <<first, snapshot, wrapper, applied, given, opened, recovered, starts>>

Receive(n, from) ==
  /\ ~IsClosed(n) /\ ~IsClosed(from)
  /\ first[from] <= held[n] + 1 /\ held[n] < held[from]
  /\ held' = [held EXCEPT ![n] = @ + 1]
  /\ UNCHANGED <<log, first, snapshot, wrapper, applied, given, opened, recovered, starts>>

RecoverFromNothing(n, index) ==
  /\ applied' = [applied EXCEPT ![n] = 0]
  /\ recovered' = [recovered EXCEPT ![n] = index]

\* RecoverFromSnapshot leaves the processor as it is.
RecoverFromSnapshot(n, index) ==
  /\ applied' = [applied EXCEPT ![n] = index]
  /\ recovered' = [recovered EXCEPT ![n] = index]

ReceiveSnapshot(n, from) ==
  /\ ~IsClosed(n) /\ ~IsClosed(from)
  /\ held[n] + 1 < first[from]
  /\ held' = [held EXCEPT ![n] = snapshot[from]]
  /\ first' = [first EXCEPT ![n] = snapshot[from] + 1]
  /\ snapshot' = [snapshot EXCEPT ![n] = snapshot[from]]
  /\ RecoverFromSnapshot(n, snapshot[from])
  /\ UNCHANGED <<log, wrapper, given, opened, starts>>

\* SaveSnapshot writes nothing; dragonboat records the index and cuts the log.
SaveSnapshot(n) ==
  /\ ~IsClosed(n)
  /\ applied[n] > SnapshotEntries + snapshot[n]
  /\ snapshot' = [snapshot EXCEPT ![n] = applied[n]]
  /\ first' = [first EXCEPT ![n] = Max({@, applied[n] - CompactionOverhead + 1})]
  /\ UNCHANGED <<log, held, wrapper, applied, given, opened, recovered, starts>>

\* The next entry to apply is in the log of the replica.
HasNext(n) == ~IsClosed(n) /\ applied[n] + 1 \in first[n] .. held[n]
NextEntry(n) == log[applied[n] + 1]

UpdateRetried(n) ==
  /\ HasNext(n)
  /\ NextEntry(n) = "write" /\ Len(given[n]) < MaxLog + 1
  /\ applied' \in {applied, [applied EXCEPT ![n] = @ + 1]}
  /\ given' = [given EXCEPT ![n] = Append(@, applied[n] + 1)]
  /\ UNCHANGED <<log, held, first, snapshot, wrapper, opened, recovered, starts>>

Update(n) ==
  /\ HasNext(n)
  /\ NextEntry(n) = "write"
  /\ applied' = [applied EXCEPT ![n] = @ + 1]
  /\ given' = [given EXCEPT ![n] = Append(@, applied[n] + 1)]
  /\ UNCHANGED <<log, held, first, snapshot, wrapper, opened, recovered, starts>>

\* OnRead answers from what OnWrite was given; a closed wrapper refuses.
Lookup(n) == IF IsClosed(n) THEN <<>> ELSE given[n]

\* The processor is gone with the process.
Dies(n) ==
  /\ wrapper' = [wrapper EXCEPT ![n] = "none"]
  /\ given' = [given EXCEPT ![n] = <<>>]
  /\ opened' = [opened EXCEPT ![n] = 0]
  /\ UNCHANGED <<log, held, first, snapshot, applied, recovered, starts>>

UpdateSwallows(n) ==
  /\ HasNext(n)
  /\ NextEntry(n) = "fails"
  /\ applied' = [applied EXCEPT ![n] = @ + 1]
  /\ UNCHANGED <<log, held, first, snapshot, wrapper, given, opened, recovered, starts>>

UpdateFails(n) ==
  /\ HasNext(n)
  /\ NextEntry(n) = "fails"
  /\ Dies(n)

Crash(n) == wrapper[n] # "none" /\ Dies(n)

Close(n) ==
  /\ wrapper[n] = "open"
  /\ wrapper' = [wrapper EXCEPT ![n] = "closed"]
  /\ UNCHANGED <<log, held, first, snapshot, applied, given, opened, recovered, starts>>

\* createSM makes a new wrapper around the processor of the server: the same
\* processor when the process goes on, a new one otherwise.
NewWrapper(n) == "open"

Start(n) ==
  /\ StartAccepted
  /\ wrapper[n] # "open"
  /\ starts[n] < MaxStarts
  /\ starts' = [starts EXCEPT ![n] = @ + 1]
  /\ wrapper' = [wrapper EXCEPT ![n] = NewWrapper(n)]
  /\ opened' = [opened EXCEPT ![n] = Len(given[n])]
  /\ RecoverFromSnapshot(n, snapshot[n])
  /\ UNCHANGED <<log, held, first, snapshot, given>>

Obtain(n, from) == Receive(n, from) \/ ReceiveSnapshot(n, from)

GroupNext ==
  \E n \in Nodes :
    \/ \E kind \in UpdateKinds : Commit(n, kind)
    \/ \E from \in Nodes : Obtain(n, from)
    \/ SaveSnapshot(n) \/ Update(n) \/ UpdateFails(n)
    \/ Crash(n) \/ Close(n) \/ Start(n)

\* dragonboat goes on applying, and sending between replicas that are open.
\* Nothing in the program starts a replica again.
GroupFairness ==
  \A n \in Nodes :
    /\ WF_groupVars(Update(n))
    /\ WF_groupVars(\E from \in Nodes : Obtain(n, from))

GroupSpec == GroupInit /\ [][GroupNext]_groupVars /\ GroupFairness
-----------------------------------------------------------------------------
SinceOpened(n) == SubSeq(Lookup(n), opened[n] + 1, Len(Lookup(n)))

(* What a processor knows: an open wrapper hands its processor the entries   *)
(* in the order of the log, each once, and every entry above the snapshot it *)
(* recovered from. Only entries below that snapshot can be missing, and they *)
(* are missing whenever no earlier wrapper of the same process gave them.    *)
MissingOnlyBelowSnapshot ==
  \A n \in Nodes : wrapper[n] = "open" =>
    LET since == SinceOpened(n) IN
    /\ \A i, j \in DOMAIN since : i < j => since[i] < since[j]
    /\ recovered[n] + 1 .. applied[n] \subseteq Range(since)
    /\ Range(since) \subseteq 1 .. applied[n]

(* An entry whose Update fails stops the group: no replica applies it or     *)
(* anything behind it, through restarts and through snapshots.               *)
NothingBehindAFailure ==
  \A n \in Nodes, i \in DOMAIN log :
    log[i] # "write" => applied[n] < i /\ snapshot[n] < i

FailsWithin(i) == \E j \in 1 .. Len(log) : j <= i /\ log[j] # "write"

(* A committed entry with no failing entry before it is reached by every     *)
(* replica that stays open as long as some open replica holds it, whether it *)
(* comes as an entry or below a snapshot, through the crashes, closings and  *)
(* restarts of the others and through compaction.                            *)
Reachable(n, i) ==
  /\ ~FailsWithin(i)
  /\ wrapper[n] = "open"
  /\ \E m \in Nodes : wrapper[m] = "open" /\ held[m] >= i
CommittedIsReached ==
  \A n \in Nodes, i \in 1 .. MaxLog : Reachable(n, i) ~> (applied[n] >= i \/ ~Reachable(n, i))
=============================================================================
