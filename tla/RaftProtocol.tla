---------------------------- MODULE RaftProtocol ----------------------------
(* RaftProtocol of server/core/raft_protocol.go: the servers it opens for    *)
(* the processors of AddProcessor, and Shutdown. A server owns a NodeHost of *)
(* dragonboat, which is external: a NodeHost listens on its RaftAddress and  *)
(* locks its directory from NewNodeHost to Stop. Premise: the map of servers *)
(* has been made (no constructor in the repository makes it).                *)
EXTENDS Naturals, Sequences

CONSTANTS
  Groups,         \* names of the processors
  Callers,        \* goroutines that call AddProcessor
  Batches,        \* the sequences of processors they pass
  MaxAdds,        \* calls of AddProcessor per goroutine
  MaxShutdowns    \* calls of Shutdown

ASSUME BatchesAssumption == Batches \subseteq Seq(Groups) \ {<<>>}

VARIABLES
  hosts,          \* the NodeHosts opened, in order: group and whether it runs
  dirs,           \* the directories under protocol/raft that exist
  servers,        \* protocol.servers: by group, the NodeHost of its server, or 0
  members,        \* whether GetMemberList has any member
  adding,         \* the calls of AddProcessor under way
  adds,
  shutdown,       \* Shutdown: the servers it has still to close
  shutdowns,
  stopped         \* the runtime has stopped the process

registryVars == <<hosts, dirs, servers, members, adding, adds, shutdown, shutdowns, stopped>>

Call(where, processors, h) == [at |-> where, rest |-> processors, host |-> h]
Idle == Call("idle", <<>>, 0)
NotShutting == [at |-> "idle", rest |-> {}]

RegistryInit ==
  /\ hosts = <<>>
  /\ dirs = {}
  /\ servers = [g \in Groups |-> 0]
  /\ members \in BOOLEAN
  /\ adding = [a \in Callers |-> Idle]
  /\ adds = [a \in Callers |-> 0]
  /\ shutdown = NotShutting
  /\ shutdowns = 0
  /\ stopped = FALSE

AddAt(a, where) == ~stopped /\ adding[a].at = where
Group(a) == Head(adding[a].rest)
Return(a) == adding' = [adding EXCEPT ![a] = Idle]

\* Every processor is a RequestProcessor4CP, whose methods are those of
\* RequestProcessor: the default branch of the switch is never taken.
AddProcessor(a, processors) ==
  /\ AddAt(a, "idle")
  /\ adds[a] < MaxAdds
  /\ adds' = [adds EXCEPT ![a] = @ + 1]
  /\ adding' = [adding EXCEPT ![a] = Call("init", processors, 0)]
  /\ UNCHANGED <<hosts, dirs, servers, members, shutdown, shutdowns, stopped>>

\* All servers pass the same RaftAddress, the address of this member.
AddressPerGroup(g) == \A h \in DOMAIN hosts : hosts[h].group = g => ~hosts[h].up
AddressFree(g) == \A h \in DOMAIN hosts : ~hosts[h].up

\* NewNodeHost; it makes the directory and may fail for its own reasons.
ServerInit(a) ==
  /\ AddAt(a, "init")
  /\ AddressFree(Group(a))
  /\ hosts' = Append(hosts, [group |-> Group(a), up |-> TRUE])
  /\ dirs' = dirs \cup {Group(a)}
  /\ adding' = [adding EXCEPT ![a] = Call("start", adding[a].rest, Len(hosts) + 1)]
  /\ UNCHANGED <<servers, members, adds, shutdown, shutdowns, stopped>>

\* NewNodeHost makes the directory after it has the address.
ServerInitFails(a) ==
  /\ AddAt(a, "init")
  /\ dirs' \in {dirs, dirs \cup {Group(a)}}
  /\ Return(a)
  /\ UNCHANGED <<hosts, servers, members, adds, shutdown, shutdowns, stopped>>

IsFirstStart(g) == g \in dirs

\* StartCluster refuses to join a cluster that is given initial members.
Accepted(g) == ~(IsFirstStart(g) /\ members)

ServerStart(a) ==
  /\ AddAt(a, "start")
  /\ Accepted(Group(a))
  /\ adding' = [adding EXCEPT ![a] = Call("put", adding[a].rest, adding[a].host)]
  /\ UNCHANGED <<hosts, dirs, servers, members, adds, shutdown, shutdowns, stopped>>

\* createAndStartRaftServer drops the server, and with it the only
\* reference to the NodeHost it has opened.
ServerStartFails(a) ==
  /\ AddAt(a, "start")
  /\ ~Accepted(Group(a))
  /\ Return(a)
  /\ UNCHANGED <<hosts, dirs, servers, members, adds, shutdown, shutdowns, stopped>>

\* The write takes no lock.
PutServer(a) ==
  /\ AddAt(a, "put")
  /\ servers' = [servers EXCEPT ![Group(a)] = adding[a].host]
  /\ adding' = [adding EXCEPT ![a] =
                 IF Len(adding[a].rest) = 1 THEN Idle ELSE Call("init", Tail(adding[a].rest), 0)]
  /\ UNCHANGED <<hosts, dirs, members, adds, shutdown, shutdowns, stopped>>

\* The runtime may notice that the map is written while Shutdown ranges
\* over it, or by two goroutines at once.
MapRace(a) ==
  /\ AddAt(a, "put")
  /\ \/ shutdown.at = "range"
     \/ \E b \in Callers \ {a} : adding[b].at = "put"
  /\ stopped' = TRUE
  /\ UNCHANGED <<hosts, dirs, servers, members, adding, adds, shutdown, shutdowns>>

\* Shutdown under the read lock, which nothing else takes.
Shutdown ==
  /\ ~stopped /\ shutdown.at = "idle"
  /\ shutdowns < MaxShutdowns
  /\ shutdowns' = shutdowns + 1
  /\ shutdown' = [at |-> "range", rest |-> {g \in Groups : servers[g] # 0}]
  /\ UNCHANGED <<hosts, dirs, servers, members, adding, adds, stopped>>

CloseServer(g) ==
  /\ ~stopped /\ shutdown.at = "range" /\ g \in shutdown.rest
  /\ hosts[servers[g]].up
  /\ hosts' = [hosts EXCEPT ![servers[g]] = [group |-> @.group, up |-> FALSE]]
  /\ shutdown' = [shutdown EXCEPT !.rest = @ \ {g}]
  /\ UNCHANGED <<dirs, servers, members, adding, adds, shutdowns, stopped>>

\* Stop of a NodeHost that is stopped closes a closed channel.
CloseTwice(g) ==
  /\ ~stopped /\ shutdown.at = "range" /\ g \in shutdown.rest
  /\ ~hosts[servers[g]].up
  /\ stopped' = TRUE
  /\ UNCHANGED <<hosts, dirs, servers, members, adding, adds, shutdown, shutdowns>>

ShutdownReturns ==
  /\ ~stopped /\ shutdown.at = "range" /\ shutdown.rest = {}
  /\ shutdown' = NotShutting
  /\ UNCHANGED <<hosts, dirs, servers, members, adding, adds, shutdowns, stopped>>

MembersChange ==
  /\ ~stopped
  /\ members' \in BOOLEAN
  /\ UNCHANGED <<hosts, dirs, servers, adding, adds, shutdown, shutdowns, stopped>>

RegistryNext ==
  \/ \E a \in Callers, batch \in Batches : AddProcessor(a, batch)
  \/ \E a \in Callers :
       \/ ServerInit(a) \/ ServerInitFails(a)
       \/ ServerStart(a) \/ ServerStartFails(a)
       \/ PutServer(a) \/ MapRace(a)
  \/ Shutdown \/ ShutdownReturns
  \/ \E g \in Groups : CloseServer(g) \/ CloseTwice(g)
  \/ MembersChange

RegistrySpec == RegistryInit /\ [][RegistryNext]_registryVars
-----------------------------------------------------------------------------
RegistryTypeOK ==
  /\ hosts \in Seq([group : Groups, up : BOOLEAN])
  /\ servers \in [Groups -> 0 .. Len(hosts)]
  /\ adding \in [Callers -> [at : {"idle", "init", "start", "put"}, rest : Seq(Groups),
                        host : 0 .. Len(hosts)]]
  /\ shutdown \in [at : {"idle", "range"}, rest : SUBSET Groups]

(* A NodeHost that runs although no server of the map owns it and no call    *)
(* of AddProcessor is about to enter it.                                     *)
Orphan(h) ==
  /\ hosts[h].up
  /\ \A g \in Groups : servers[g] # h
  /\ \A a \in Callers : adding[a].at \in {"start", "put"} => adding[a].host # h

(* What a failed start leaves behind decides everything after it: a NodeHost *)
(* whose StartCluster was refused keeps running whatever is called later,    *)
(* Shutdown included, and as it holds the address of this member no later    *)
(* AddProcessor opens a NodeHost or enters a server for any group.           *)
OrphanForEver ==
  [][\A h \in DOMAIN hosts :
       Orphan(h) => /\ Orphan(h)'
                    /\ Len(hosts') = Len(hosts)
                    /\ servers' = servers]_registryVars
=============================================================================
