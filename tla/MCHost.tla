------------------------------- MODULE MCHost -------------------------------
(***************************************************************************)
(* The parts of the agent host, checked side by side: the process-shard    *)
(* manager, the workerd launcher, its cgroup leaves and its process        *)
(* identities.  Each is an instance with variables of its own, and a       *)
(* behaviour is a behaviour of one of them: the others stay as they began. *)
(***************************************************************************)
EXTENDS WorkerdIdentity, TLC

CONSTANTS
  Parts,                       \* the parts a run looks at
  a1, a2, w1, w2               \* callers of the manager and of the launcher

VARIABLES
  part,                        \* the part, and instance, this behaviour is of
  shards, placements, latest, released, agentIdentity, cleanups, pendingSession, pendingScope,
  retryShard, nextShard, nextGeneration, launch, stop, process, closed, gate, call, now, calls,
  answers,
  ctl, lease, borrower, writer, path, leafProcess, leafCloses, replaced,
  start, caller, latestGenerations, retired, identities, current, launcherClosed, round,
  terminalErr, cgroupsClosed, executable, launcherCalls

(* Sessions that own their process, in two generations; and sessions that  *)
(* share processes, one of them moved once and one refused for its trust.  *)
Placement(s, generation, scope, trust, memory) ==
  [session |-> s, tenant |-> "t1", generation |-> generation, trust |-> trust,
   scope |-> scope, isolation |-> IF scope = "session" THEN "firecracker" ELSE "none",
   runtime |-> "r1", memory |-> memory]

Owning ==
  {Placement("s1", 1, "session", "unreviewed", 1), Placement("s1", 2, "session", "unreviewed", 1)}
Sharing ==
  {Placement("s1", 1, "shared", "platform", 1), Placement("s2", 1, "shared", "platform", 2),
   Placement("s1", 2, "shared", "platform", 2), Placement("s1", 1, "shared", "tenant", 1)}

Agent == INSTANCE AgentManager WITH
  identity <- agentIdentity, Callers <- {a1, a2}, Requests <- Owning, MaximumSessions <- 1,
  Watermark <- 2, MaximumLifetime <- 1, MaxGeneration <- 3, MaxEpoch <- 2, MaxSequence <- 1,
  MaxNow <- 1, MaxCalls <- 3
SharedAgent == INSTANCE AgentManager WITH
  identity <- agentIdentity, Callers <- {a1, a2}, Requests <- Sharing, MaximumSessions <- 2,
  Watermark <- 3, MaximumLifetime <- 1, MaxGeneration <- 2, MaxEpoch <- 1, MaxSequence <- 1,
  MaxNow <- 0, MaxCalls <- 3

(* Two leaves; or room for one of them only, with its directory replaced once. *)
LeafNames == ("l1" :> "n1") @@ ("l3" :> "n2")

Cgroup == INSTANCE WorkerdCgroup WITH
  process <- leafProcess, closes <- leafCloses, Leases <- {"l1", "l3"}, Borrowers <- {"b1"},
  NameOf <- LeafNames, MaximumShards <- 2, MaxReplaced <- 0, MaxDestroys <- 1, Closer <- "closer"
SerialCgroup == INSTANCE WorkerdCgroup WITH
  process <- leafProcess, closes <- leafCloses, Leases <- {"l1", "l3"}, Borrowers <- {"b1"},
  NameOf <- LeafNames, MaximumShards <- 1, MaxReplaced <- 1, MaxDestroys <- 1, Closer <- "closer"

(* Two generations of a shard; one generation and its Close; one generation *)
(* asked for with two argument vectors, and another shard.                  *)
Ensure(shard, generation, arguments) ==
  [shard |-> shard, generation |-> generation, arguments |-> arguments]

Launcher == INSTANCE WorkerdLauncher WITH
  latest <- latestGenerations, closed <- launcherClosed, calls <- launcherCalls,
  Callers <- {w1, w2}, Requests <- {Ensure("s1", 1, "x"), Ensure("s1", 2, "x")},
  HistoryCapacity <- 1, Observed <- FALSE, MaxLaunches <- 2, MaxEpochs <- 1, MaxRounds <- 0,
  MaxCalls <- 3
ClosingLauncher == INSTANCE WorkerdLauncher WITH
  latest <- latestGenerations, closed <- launcherClosed, calls <- launcherCalls,
  Callers <- {w1, w2}, Requests <- {Ensure("s1", 1, "x")},
  HistoryCapacity <- 1, Observed <- TRUE, MaxLaunches <- 1, MaxEpochs <- 2, MaxRounds <- 2,
  MaxCalls <- 3
AskedLauncher == INSTANCE WorkerdLauncher WITH
  latest <- latestGenerations, closed <- launcherClosed, calls <- launcherCalls,
  Callers <- {w1, w2},
  Requests <- {Ensure("s1", 1, "x"), Ensure("s1", 1, "y"), Ensure("s2", 1, "x")},
  HistoryCapacity <- 1, Observed <- FALSE, MaxLaunches <- 2, MaxEpochs <- 1, MaxRounds <- 0,
  MaxCalls <- 3

ASSUME Agent!RequestOK /\ Agent!BoundsOK /\ SharedAgent!RequestOK /\ SharedAgent!BoundsOK
ASSUME Cgroup!CgroupBounds /\ SerialCgroup!CgroupBounds
ASSUME Launcher!LauncherBounds /\ ClosingLauncher!LauncherBounds /\ AskedLauncher!LauncherBounds

agentVars ==
  <<shards, placements, latest, released, agentIdentity, cleanups, pendingSession, pendingScope,
    retryShard, nextShard, nextGeneration, launch, stop, process, closed, gate, call, now, calls,
    answers>>
cgroupVars == <<ctl, lease, borrower, writer, path, leafProcess, leafCloses, replaced>>
launcherVars ==
  <<start, caller, latestGenerations, retired, identities, current, launcherClosed, round,
    terminalErr, cgroupsClosed, executable, launcherCalls>>
hostVars == <<part, vars, agentVars, cgroupVars, launcherVars>>

HostInit ==
  /\ part \in Parts
  /\ Init
  /\ IF part = "shared agent" THEN SharedAgent!Init ELSE Agent!Init
  /\ Cgroup!Init
  /\ IF part = "asked launcher" THEN AskedLauncher!Init
     ELSE IF part = "launcher" THEN Launcher!Init ELSE ClosingLauncher!Init

HostNext ==
  \/ part = "identity" /\ Next /\ UNCHANGED <<part, agentVars, cgroupVars, launcherVars>>
  \/ /\ \/ part = "agent" /\ Agent!Next
        \/ part = "shared agent" /\ SharedAgent!Next
     /\ UNCHANGED <<part, vars, cgroupVars, launcherVars>>
  \/ /\ \/ part = "cgroup" /\ Cgroup!Next
        \/ part = "serial cgroup" /\ SerialCgroup!Next
     /\ UNCHANGED <<part, vars, agentVars, launcherVars>>
  \/ /\ \/ part = "launcher" /\ Launcher!Next
        \/ part = "closing launcher" /\ ClosingLauncher!Next
        \/ part = "asked launcher" /\ AskedLauncher!Next
     /\ UNCHANGED <<part, vars, agentVars, cgroupVars>>

HostSpec == HostInit /\ [][HostNext]_hostVars

Symmetry == Permutations({a1, a2}) \cup Permutations({w1, w2})

----------------------------------------------------------------------------
\* Every live workerd process has exactly one owner, whatever order launches end, waiters are
\* cancelled, sessions are released and the manager is shut down in; a session-scoped one is
\* the only one of its scope, and none is left once a Shutdown returned without error.  The
\* placement map and the shards agree on the newest generation of every session, a shard's
\* reservation is the sum of its sessions' and within the watermark while it admits more, and
\* no branch that reports an inconsistent manager is taken.
ProcessesOwned ==
  /\ part = "agent" => /\ Agent!OwnedOnce /\ Agent!SessionScopeExclusive
                       /\ Agent!ShutdownComplete /\ Agent!PlacementsCurrent
  /\ part = "shared agent" => /\ SharedAgent!OwnedOnce /\ SharedAgent!PlacementsCurrent
                              /\ SharedAgent!MemoryAccounted /\ SharedAgent!NoInternalError

\* While a leaf is removed or the root closed nobody uses a leaf descriptor and nobody else
\* writes; descriptors in use are open and none is closed twice; the controller never has more
\* than MaximumShards directories, and a close that returned without error left nothing.
LeavesGuarded ==
  /\ part = "cgroup" => Cgroup!WriteExcludesUse /\ Cgroup!RootPinned /\ Cgroup!CleanClose
  /\ part = "serial cgroup" => SerialCgroup!DescriptorsPinned /\ SerialCgroup!LeavesBounded

\* A shard never has two processes at once and a published generation is never started again;
\* a Close that succeeded left no process, lease, observer or start behind; a handle is for the
\* key and the arguments its caller asked for.
ShardsExclusive ==
  /\ part = "launcher" => /\ Launcher!OneProcessPerShard /\ Launcher!PublishedOnce
                          /\ Launcher!ReplacementDrained
  /\ part = "closing launcher" => ClosingLauncher!ClosedClean
  /\ part = "asked launcher" => AskedLauncher!HandleAsAsked
=============================================================================
