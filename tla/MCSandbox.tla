----------------------------- MODULE MCSandbox -----------------------------
(***************************************************************************)
(* Sandboxes, checked side by side: the supervisor that spawns and ends    *)
(* processes, their streams, the control protocol, the handshake, the pool *)
(* of sandboxes of an agent, the provider and its NsJail launcher, and the *)
(* choice of a backend and of a launch plan.  A behaviour is of one part.  *)
(* The parts are never mixed, so instances may share variables; those of   *)
(* the other parts do not move.                                            *)
(***************************************************************************)
EXTENDS SandboxSupervisor, TLC

CONSTANTS
  Parts,          \* the parts a run explores
  x1, x2, x3,     \* interchangeable callers, launches, runs of one part
  y1, y2          \* interchangeable readers, awaiters, sessions

VARIABLES
  part,                                                                  \* what this behaviour is of
  output, stream, out, log, oldest, sub, slots, stdin, writer, reads,    \* SandboxStreams
  client, server, call, handler, ledger, binding, effects, losses,       \* SandboxRpc
  active, latest, reg, endpoint, calls, faults,                          \* HandshakeBroker
  sessions, closed, boxes, lru, runs, stops, agent, spent,               \* SandboxPool
  admitted, current, inflight, generation, rec, ended, exits,            \* SandboxProvider
  ident, gens, launch, kill, destroy,                                    \* NsjailLauncher
  selection, result, config, request, plan                               \* LaunchPlans

----------------------------------------------------------------------------
(* The inputs of the parts. *)

\* The same spawn request, another with its process ID, and one not on the allowlist
SpawnRequest(q, p, command) == [request |-> q, process |-> p, command |-> command]
SpawnRequests == {SpawnRequest("q1", "p1", "build"), SpawnRequest("q2", "p1", "build"),
                  SpawnRequest("q2", "p2", "other")}

\* One caller, whose process is cancelled, fenced, or runs into a limit
Controlling == INSTANCE SandboxSupervisor WITH
  Callers <- {x1}, Terminations <- {"", "canceled", "deadline", "output_limit"}, MaxGeneration <- 2

\* Two readers and no writer; a reader and two writers
Streams2 == INSTANCE SandboxStreams WITH
  process <- output, Readers <- {y1, y2}, Writers <- {}, OutputLimit <- 2, ReplayEvents <- 3,
  ReplayBytes <- 1, SubscriberBuffer <- 1, MaximumAttachments <- 1, ReadChunk <- 2, MaxReads <- 2
Streams1 == INSTANCE SandboxStreams WITH
  process <- output, Readers <- {x1}, Writers <- {y1, y2}, OutputLimit <- 1, ReplayEvents <- 3,
  ReplayBytes <- 2, SubscriberBuffer <- 1, MaximumAttachments <- 1, ReadChunk <- 2, MaxReads <- 1

Op(method, key, body, chunk) == [method |-> method, key |-> key, body |-> body, chunk |-> chunk]

\* One spawn and its conflicting twin, and a signal
Session == INSTANCE SandboxRpc WITH
  Clients <- {"c1", "c2"}, Calls <- {1, 2, 3}, MaximumIdempotencyKeys <- 2, MaxLosses <- 1,
  MayClose <- {"c1", "server"},
  Ops <- {Op("spawn", "k1", 1, 0), Op("spawn", "k1", 2, 0), Op("signal", "k1", 1, 0),
          Op("signal", "k2", 1, 0)}

\* The first chunk under two keys and with another body, and the second chunk
Stdin == INSTANCE SandboxRpc WITH
  Clients <- {"c1"}, Calls <- {1, 2, 3, 4}, MaximumIdempotencyKeys <- 8, MaxLosses <- 1,
  MayClose <- {},
  Ops <- {Op("spawn", "k1", 1, 0), Op("write", "k1", 1, 1), Op("write", "k2", 1, 1),
          Op("write", "k3", 2, 1), Op("write", "k4", 1, 2)}

Handshake == INSTANCE HandshakeBroker WITH
  Generations <- {1, 2}, Awaiters <- {y1, y2}, MaxReplacements <- 1, MaxFaults <- 1

\* Three runs of two sessions with room for one; two runs and faults, or a shutdown
Pool == INSTANCE SandboxPool WITH
  Runs <- {x1, x2, x3}, Sessions <- {y1, y2}, Limit <- 1, Budget <- 2, MaxChunks <- 1,
  LedgerCap <- 5, MaxFaults <- 1, MaxDeletes <- 0, MayReap <- TRUE, MayStop <- FALSE
PoolFaults == INSTANCE SandboxPool WITH
  Runs <- {x1, x2}, Sessions <- {y1}, Limit <- 1, Budget <- 2, MaxChunks <- 1,
  LedgerCap <- 5, MaxFaults <- 2, MaxDeletes <- 1, MayReap <- FALSE, MayStop <- FALSE
PoolStops == INSTANCE SandboxPool WITH
  Runs <- {x1, x2}, Sessions <- {y1}, Limit <- 1, Budget <- 2, MaxChunks <- 1,
  LedgerCap <- 5, MaxFaults <- 1, MaxDeletes <- 1, MayReap <- FALSE, MayStop <- TRUE

\* Three calls of the provider under two authorities, or with two failures
Provider == INSTANCE SandboxProvider WITH
  fence <- admitted, Calls <- {x1, x2, x3}, MaxAuthority <- 2, MaxGeneration <- 2,
  MaxFaults <- 1, MaxExits <- 1
Failing == INSTANCE SandboxProvider WITH
  fence <- admitted, Calls <- {x1, x2, x3}, MaxAuthority <- 1, MaxGeneration <- 2,
  MaxFaults <- 2, MaxExits <- 1

\* Three launches of one generation, two of two; one instance and the calls that end it
Launcher == INSTANCE NsjailLauncher WITH
  Launches <- {x1, x2, x3}, Generations <- {1}, Calls <- {y1}, MaxFaults <- 1
Launcher2 == INSTANCE NsjailLauncher WITH
  Launches <- {x1, x2}, Generations <- {1, 2}, Calls <- {y1}, MaxFaults <- 2
Instance == INSTANCE NsjailLauncher WITH
  Launches <- {y1}, Generations <- {1}, Calls <- {x1, x2, x3}, MaxFaults <- 2

\* Every list that matters for three of the backends, and lists that are refused
Cap(b, dev) == [backend |-> b, available |-> TRUE, reason |-> "", developmentOnly |-> dev]
Down(b) == [backend |-> b, available |-> FALSE, reason |-> "down", developmentOnly |-> FALSE]
all == <<"mock", "firecracker", "nsjail">>

Hosts ==
  {<<Cap("nsjail", d), Cap("firecracker", FALSE), Cap("mock", TRUE)>> : d \in BOOLEAN} \cup
  {<<Down("firecracker"), Cap("nsjail", FALSE), Cap("mock", TRUE)>>,
   <<Cap("firecracker", TRUE), Down("nsjail")>>, <<Cap("mock", TRUE), Down("firecracker")>>,
   <<Cap("mock", FALSE)>>, <<Cap("nsjail", FALSE), Down("nsjail")>>, <<>>}

Fallbacks ==
  {[mode |-> "disabled", order |-> <<>>, allowDowngrade |-> a] : a \in BOOLEAN} \cup
  {[mode |-> "explicit", order |-> o, allowDowngrade |-> a] :
     a \in BOOLEAN, o \in {<<>>, <<"nsjail">>, <<"mock">>, <<"firecracker", "nsjail">>,
                           <<"nsjail", "firecracker">>, <<"mock", "nsjail">>, <<"nsjail", "mock">>}}

Selected ==
  [mode : {"development", "production"}, minimum : {"shared-kernel", "microvm"},
   toolOrSession : {"", "nsjail", "firecracker", "mock", "other"}, workspace : {""}, user : {""},
   server : {"", "nsjail", "firecracker"},
   serverAllowed : {all, <<"nsjail", "firecracker">>, <<"mock">>, <<>>},
   registryAllowed : {all, <<"nsjail">>}, extensionSupported : {all},
   artifacts : {all, <<"firecracker">>, <<"nsjail", "nsjail">>},
   host : Hosts, fallback : Fallbacks]

\* Roots that are apart, nested or equal, identities of the shortest and the longest width,
\* limits on both sides of a mebibyte
Widths ==
  [n \in {"a", "b", "c", "long", "s1", "sandbox-long", "generation-1", "generation-2", "control",
          "rpc.sock"} |->
     CASE n \in {"a", "b", "c"} -> 1 [] n = "long" -> 6 [] n = "s1" -> 2
       [] n = "sandbox-long" -> 5 [] OTHER -> 3]
roots == {<<"a">>, <<"b">>, <<"a", "c">>, <<"long">>}

Planning == INSTANCE LaunchPlans WITH
  Selections <- Selected,
  Configs <-
    [binaryDigest : {"", "canonical"}, binaryPath : {<<"b", "c">>, <<"c">>},
     environmentRoot : roots, sandboxRoot : roots, cgroupRoot : roots \cup {<<>>},
     sandboxdPath : {<<"c">>, <<"run", "c">>}, protocolVersion : {1},
     clientUID : {"unprivileged"}, manifestOwnerUID : {"unprivileged"}],
  Requests <-
    [sandboxID : {"s1", "sandbox-long"}, generation : {0, 2}, digests : {"canonical"},
     rootfs : {"r"}, seccomp : {"p"}, hostUID : {"unprivileged"}, hostGID : {"unprivileged"},
     access : {"read-only", "read-write"}, network : {"none"},
     memory : {1, 5}, processes : {2}, addressSpace : {0, 5}, userProcesses : {0, 1, 3},
     scratch : {1}, fileBytes : {4, 6, 8}, lifetime : {1}],
  Width <- Widths, mebibyte <- 4, maximumUnixSocketPathBytes <- 22,
  maximumSandboxIdentityBytes <- 5, maximumSharedGeneration <- 2, maximumBytes <- 12,
  maximumCount <- 4

ASSUME Handshake!BrokerBounds /\ Pool!PoolBounds /\ PoolFaults!PoolBounds /\ PoolStops!PoolBounds
ASSUME Provider!ProviderBounds /\ Failing!ProviderBounds
ASSUME Launcher!LauncherBounds /\ Launcher2!LauncherBounds /\ Instance!LauncherBounds

----------------------------------------------------------------------------
streamVars == <<output, stream, out, log, oldest, sub, slots, stdin, writer, reads>>
rpcVars == <<client, server, call, handler, ledger, binding, effects, losses>>
handshakeVars == <<active, latest, reg, endpoint>>
poolVars == <<sessions, closed, boxes, lru, runs, stops, agent, spent>>
providerVars == <<admitted, current, inflight, generation, rec, ended, exits>>
launcherVars == <<ident, gens, launch, kill, destroy>>
planVars == <<selection, result, config, request, plan>>
callVars == <<calls, faults>>
sandboxVars == <<part, vars, streamVars, rpcVars, handshakeVars, poolVars, providerVars,
                 launcherVars, planVars, callVars>>

NoSupervisor ==
  sup = 0 /\ thr = 0 /\ process = 0 /\ control = 0 /\ pending = 0 /\ fence = 0 /\ failures = 0
NoStreams ==
  /\ output = 0 /\ stream = 0 /\ out = 0 /\ log = 0 /\ oldest = 0 /\ sub = 0 /\ slots = 0
  /\ stdin = 0 /\ writer = 0 /\ reads = 0
NoRpc ==
  /\ client = 0 /\ server = 0 /\ call = 0 /\ handler = 0 /\ ledger = 0 /\ binding = 0
  /\ effects = 0 /\ losses = 0
NoHandshake == active = 0 /\ latest = 0 /\ reg = 0 /\ endpoint = 0
NoPool ==
  /\ sessions = 0 /\ closed = 0 /\ boxes = 0 /\ lru = 0 /\ runs = 0 /\ stops = 0 /\ agent = 0
  /\ spent = 0
NoProvider ==
  /\ admitted = 0 /\ current = 0 /\ inflight = 0 /\ generation = 0 /\ rec = 0 /\ ended = 0
  /\ exits = 0
NoLauncher == ident = 0 /\ gens = 0 /\ launch = 0 /\ kill = 0 /\ destroy = 0
NoSelection == selection = 0 /\ result = 0
NoPlans == config = 0 /\ request = 0 /\ plan = 0
NoCalls == calls = 0 /\ faults = 0

PartInit ==
  /\ part \in Parts
  /\ CASE part = "spawning" -> Init [] part = "controlling" -> Controlling!Init
       [] OTHER -> NoSupervisor
  /\ CASE part = "streams" -> Streams2!Init [] part = "writers" -> Streams1!Init
       [] OTHER -> NoStreams
  /\ CASE part = "session" -> Session!Init [] part = "stdin" -> Stdin!Init [] OTHER -> NoRpc
  /\ CASE part = "pool" -> Pool!Init [] part = "pool faults" -> PoolFaults!Init
       [] part = "pool stops" -> PoolStops!Init [] OTHER -> NoPool
  /\ CASE part = "selection" -> Planning!SelectionInit /\ NoPlans
       [] part = "plans" -> Planning!PlanInit /\ NoSelection
       [] OTHER -> NoSelection /\ NoPlans
  /\ CASE part = "handshake" -> Handshake!Init /\ NoProvider /\ NoLauncher
       [] part = "provider" -> Provider!Init /\ NoHandshake /\ NoLauncher
       [] part = "failing" -> Failing!Init /\ NoHandshake /\ NoLauncher
       [] part = "launcher" -> Launcher!Init /\ NoHandshake /\ NoProvider
       [] part = "launcher 2" -> Launcher2!Init /\ NoHandshake /\ NoProvider
       [] part = "instance" -> Instance!Init /\ NoHandshake /\ NoProvider
       [] OTHER -> NoCalls /\ NoHandshake /\ NoProvider /\ NoLauncher

PartNext ==
  \/ /\ \/ part = "spawning" /\ Next
        \/ part = "controlling" /\ Controlling!Next
     /\ UNCHANGED <<part, streamVars, rpcVars, handshakeVars, poolVars, providerVars,
                    launcherVars, planVars, callVars>>
  \/ /\ \/ part = "streams" /\ Streams2!Next
        \/ part = "writers" /\ Streams1!Next
     /\ UNCHANGED <<part, vars, rpcVars, handshakeVars, poolVars, providerVars, launcherVars,
                    planVars, callVars>>
  \/ /\ \/ part = "session" /\ Session!Next
        \/ part = "stdin" /\ Stdin!Next
     /\ UNCHANGED <<part, vars, streamVars, handshakeVars, poolVars, providerVars, launcherVars,
                    planVars, callVars>>
  \/ /\ part = "handshake" /\ Handshake!Next
     /\ UNCHANGED <<part, vars, streamVars, rpcVars, poolVars, providerVars, launcherVars, planVars>>
  \/ /\ \/ part = "pool" /\ Pool!Next
        \/ part = "pool faults" /\ PoolFaults!Next
        \/ part = "pool stops" /\ PoolStops!Next
     /\ UNCHANGED <<part, vars, streamVars, rpcVars, handshakeVars, providerVars, launcherVars,
                    planVars, callVars>>
  \/ /\ \/ part = "provider" /\ Provider!Next
        \/ part = "failing" /\ Failing!Next
     /\ UNCHANGED <<part, vars, streamVars, rpcVars, handshakeVars, poolVars, launcherVars, planVars>>
  \/ /\ \/ part = "launcher" /\ Launcher!Next
        \/ part = "launcher 2" /\ Launcher2!Next
        \/ part = "instance" /\ Instance!Next
     /\ UNCHANGED <<part, vars, streamVars, rpcVars, handshakeVars, poolVars, providerVars, planVars>>
  \/ /\ \/ part = "selection" /\ Planning!SelectionNext /\ UNCHANGED <<config, request, plan>>
        \/ part = "plans" /\ Planning!PlanNext /\ UNCHANGED <<selection, result>>
     /\ UNCHANGED <<part, vars, streamVars, rpcVars, handshakeVars, poolVars, providerVars,
                    launcherVars, callVars>>

PartSpec == PartInit /\ [][PartNext]_sandboxVars

Symmetry == Permutations({x1, x2, x3}) \cup Permutations({y1, y2})

----------------------------------------------------------------------------


\* The backend that is resolved satisfies every constraint by itself and is never a silent
\* fallback; a plan keeps what the host trusts apart from what a sandbox can write, its control
\* socket fits, its limits are kept, and the static verifier tells it from a weakened one.
PlansSound ==
  /\ part = "selection" => Planning!ResolvedSatisfiesAll /\ Planning!NoSilentFallback
  /\ part = "plans" => /\ Planning!TrustedOutsideSandbox /\ Planning!ControlSocketFits
                       /\ Planning!LimitsKept /\ Planning!VerifierAgrees

\* The provider implements the lifecycle that every provider promises; the reason reported for a
\* process is the strongest delivered before its exit; a session that was lost is not asked for
\* again.
SandboxRules ==
  [][/\ part = "controlling" => Controlling!StrongestReason
     /\ part = "session" => Session!NoSecondHandshake
     /\ part = "failing" => Failing!LifecycleImplemented]_sandboxVars
=============================================================================
