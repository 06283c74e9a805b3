----------------------------- MODULE Lifecycle -----------------------------
(***************************************************************************)
(* Start of pole.go, and the construction, Init and Shutdown of the        *)
(* modules in server/config/config_server.go and                           *)
(* server/discovery/discovery_server.go: which contexts they make from     *)
(* which, and what runs on them.                                           *)
(*                                                                         *)
(* Pole calls neither Init of the config module nor a Shutdown: they are   *)
(* taken by whoever has the module, at any time, Init once and with any    *)
(* context there is.  The transport servers are external: one runs until   *)
(* the context it was made with is done.                                   *)
(***************************************************************************)
EXTENDS Naturals, Sequences

MaxPoleCtx == 7        \* contexts Start makes

VARIABLES
  poleCtxs,   \* the contexts; 1 is Pole.ctx
  phase,      \* where Start is
  ctxOf,      \* of each module: the context it was given, 0 before
  console,    \* ... the context of its console
  api,        \* ... the context of its API
  server,     \* ... the context its transport server was made with, 0 if none
  storage,    \* InitDiscoveryStorage has succeeded
  shut        \* of each module: how far Shutdown has got

lifeVars == <<poleCtxs, phase, ctxOf, console, api, server, storage, shut>>

X == INSTANCE ContextPole WITH ctxs <- poleCtxs, MaxCtx <- MaxPoleCtx

Modules == {"config", "discovery"}
NoCtx == [m \in Modules |-> 0]
Background == MaxPoleCtx + 1   \* context.Background(): never done

-----------------------------------------------------------------------------
\* Start, with the cluster manager behind it: initServer makes no context.
LifeInit ==
  /\ poleCtxs = <<X!NewCtxPole>>
  /\ phase = "config"
  /\ ctxOf = NoCtx /\ console = NoCtx /\ api = NoCtx /\ server = NoCtx
  /\ storage = FALSE
  /\ shut = [m \in Modules |-> "no"]

\* A module's context below Pole.ctx, and those of its console and its API.
Adopted(n) == <<X!Context(n, FALSE), X!Context(n, FALSE)>>
ConsoleOf(n) == n + 1
ApiOf(n) == n + 2
MakeModule(m) ==
  LET n == Len(poleCtxs) + 1 IN
  /\ poleCtxs' = poleCtxs \o <<X!Context(1, X!Done(1))>> \o Adopted(n)
  /\ ctxOf' = [ctxOf EXCEPT ![m] = n]
  /\ console' = [console EXCEPT ![m] = ConsoleOf(n)]
  /\ api' = [api EXCEPT ![m] = ApiOf(n)]

InitConfig ==
  /\ phase = "config"
  /\ MakeModule("config")
  /\ phase' = "discovery"
  /\ UNCHANGED <<server, storage, shut>>

\* NewDiscoveryServer: the transport takes requests before there is a storage.
InitDiscovery ==
  /\ phase = "discovery"
  /\ MakeModule("discovery")
  /\ server' = [server EXCEPT !["discovery"] = Background]
  /\ phase' = "storage"
  /\ UNCHANGED <<storage, shut>>

InitStorage ==
  /\ phase = "storage"
  /\ storage' = TRUE
  /\ phase' = "run"
  /\ UNCHANGED <<poleCtxs, ctxOf, console, api, server, shut>>

\* The panic of Init, or of Start when the HTTP server ends, ends the process.
StartPanics ==
  /\ phase \in {"storage", "run"}
  /\ phase' = "ended"
  /\ UNCHANGED <<poleCtxs, ctxOf, console, api, server, storage, shut>>

-----------------------------------------------------------------------------
\* A module is there for others once its constructor has returned.
Built(m) == IF m = "config" THEN ctxOf[m] # 0 ELSE phase = "run"

InitConfigServer(c) ==
  /\ phase # "ended" /\ Built("config")
  /\ server["config"] = 0
  /\ server' = [server EXCEPT !["config"] = c]
  /\ UNCHANGED <<poleCtxs, phase, ctxOf, console, api, storage, shut>>

\* The transport cannot be made.
InitConfigServerPanics ==
  /\ phase # "ended" /\ Built("config")
  /\ server["config"] = 0
  /\ phase' = "ended"
  /\ UNCHANGED <<poleCtxs, ctxOf, console, api, server, storage, shut>>

ShutdownConsole(m) ==
  /\ phase # "ended" /\ Built(m)
  /\ shut[m] = "no"
  /\ X!Cancel(console[m])
  /\ shut' = [shut EXCEPT ![m] = "console"]
  /\ UNCHANGED <<phase, ctxOf, console, api, server, storage>>

ApiGiven(m) == ctxOf[m]
ApiOwn(m) == api[m]
ShutdownApi(m) ==
  /\ phase # "ended"
  /\ shut[m] = "console"
  /\ X!Cancel(ApiOwn(m))
  /\ shut' = [shut EXCEPT ![m] = "done"]
  /\ UNCHANGED <<phase, ctxOf, console, api, server, storage>>

LifeNext ==
  \/ InitConfig \/ InitDiscovery \/ InitStorage \/ StartPanics
  \/ \E c \in DOMAIN poleCtxs : InitConfigServer(c)
  \/ InitConfigServerPanics
  \/ \E m \in Modules : ShutdownConsole(m) \/ ShutdownApi(m)

LifeSpec == LifeInit /\ [][LifeNext]_lifeVars

-----------------------------------------------------------------------------
(* Properties *)

Open(c) == c = Background \/ ~X!Done(c)
Serving(m) == phase # "ended" /\ server[m] # 0 /\ Open(server[m])

\* config_server.go:50-57, discovery_server.go:58-61: in whatever order the
\* modules are initialised and shut down, Shutdown of one closes the contexts of
\* its console and its API and nothing else: not Pole.ctx, not the context of
\* the module, not one of the other module.
ShutdownReach ==
  \A c \in DOMAIN poleCtxs : ~Open(c) <=>
    \E m \in Modules : \/ c = console[m] /\ shut[m] # "no"
                       \/ c = api[m] /\ shut[m] = "done"

\* config_server.go:49, 190 (Shutdown closes the ConfigServer, and its API): once
\* Shutdown of the config module has returned, its transport takes no more
\* requests.
ShutdownCloses == shut["config"] = "done" => ~Serving("config")
=============================================================================
