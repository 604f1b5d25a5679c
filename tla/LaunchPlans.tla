------------------------------ MODULE LaunchPlans ------------------------------
(***************************************************************************)
(* What is launched: two pure functions, each computed in one step.        *)
(*                                                                         *)
(* The choice of an execution backend (internal/executor/selection.go) is  *)
(* a function of the preferences, four allow lists, what the host offers,  *)
(* the minimum isolation and the fallback policy.                          *)
(*                                                                         *)
(* The NsJail planner (internal/executor/nsjail/plan.go) makes a plan, and *)
(* a static check finds out whether it encodes every isolation property    *)
(* (verify.go).  Paths are sequences of component names, a configuration   *)
(* is the set of its settings and of its mounts, and numbers are scaled    *)
(* down: `mebibyte' and the limits are small.                              *)
(***************************************************************************)
EXTENDS Naturals, Sequences, SequencesExt

CONSTANTS Selections,                 \* the selections that are resolved
          Configs, Requests,          \* what the planner is given
          Width,                      \* the length of each path component
          mebibyte, maximumUnixSocketPathBytes, maximumSandboxIdentityBytes,
          maximumSharedGeneration, maximumBytes, maximumCount

VARIABLES selection, result,          \* a choice of a backend
          config, request, plan       \* a plan

--------------------------------------------------------------------------------
(* The choice of a backend.                                                *)

canonicalOrder == <<"nsjail", "docker", "firecracker", "mock">>
Backends == ToSet(canonicalOrder)

NoResult == [error |-> "pending", requested |-> "", resolved |-> "", eligible |-> <<>>,
             fallbackUsed |-> FALSE, downgrade |-> FALSE]
Refused(error) == [NoResult EXCEPT !.error = error]

Distinct(list) == IsInjective(list)

--------------------------------------------------------------------------------
(* Validation: the inputs are refused before anything is decided.          *)

Preferences(s) == <<s.toolOrSession, s.workspace, s.user, s.server>>

ValidPreferences(s) == \A i \in 1..4 : Preferences(s)[i] \in Backends \cup {""}

\* The first preference that is set.
Requested(s) ==
  LET set == {i \in 1..4 : Preferences(s)[i] # ""}
  IN  IF set = {} THEN "" ELSE Preferences(s)[CHOOSE i \in set : \A j \in set : i <= j]

ValidConstraint(list) == list # <<>> /\ ToSet(list) \subseteq Backends /\ Distinct(list)

ValidCapability(c) ==
  /\ c.backend \in Backends
  /\ c.available = (c.reason = "")
  /\ c.backend = "mock" => c.developmentOnly

ValidCapabilities(list) ==
  /\ list # <<>>
  /\ \A i \in DOMAIN list : ValidCapability(list[i])
  /\ Distinct([i \in DOMAIN list |-> list[i].backend])

ValidFallback(f) ==
  \/ f.mode = "disabled" /\ f.order = <<>> /\ ~f.allowDowngrade
  \/ /\ f.mode = "explicit" /\ f.order # <<>>
     /\ ToSet(f.order) \subseteq Backends /\ Distinct(f.order)

ValidSelection(s) ==
  /\ s.mode \in {"development", "production"}
  /\ s.minimum \in {"shared-kernel", "microvm"}
  /\ ValidPreferences(s) /\ Requested(s) # ""
  /\ \A list \in {s.serverAllowed, s.registryAllowed, s.extensionSupported, s.artifacts} :
       ValidConstraint(list)
  /\ ValidCapabilities(s.host)
  /\ ValidFallback(s.fallback)

--------------------------------------------------------------------------------
(* The decision.                                                           *)

CapabilityOf(s, b) ==
  LET found == SelectSeq(s.host, LAMBDA c : c.backend = b)
  IN  IF found = <<>> THEN [backend |-> b, available |-> FALSE, reason |-> "absent", developmentOnly |-> FALSE]
                      ELSE found[1]

Allowed(s, b) ==
  /\ \A list \in {s.serverAllowed, s.registryAllowed, s.extensionSupported, s.artifacts} :
       b \in ToSet(list)
  /\ CapabilityOf(s, b).available
  /\ b = "mock" \/ CapabilityOf(s, b).developmentOnly => s.mode = "development"
  /\ s.minimum = "microvm" => b = "firecracker"

Eligible(s) == SelectSeq(canonicalOrder, LAMBDA b : Allowed(s, b))

BelowMinimum(s) == s.minimum = "microvm" /\ Requested(s) # "firecracker"
Downgrade(s, b) == Requested(s) = "firecracker" /\ b # "firecracker"

\* A fallback the loop stops at: eligible, and not a downgrade that is blocked.
Passable(s, b) ==
  /\ b \in ToSet(Eligible(s))
  /\ Downgrade(s, b) /\ ~(b = "mock" /\ Requested(s) # "mock") => s.fallback.allowDowngrade

\* The loop over the fallback order, lines 233-262.
Fallback(s) ==
  LET order == s.fallback.order
      stops == {i \in DOMAIN order : Passable(s, order[i])}
      first == order[CHOOSE i \in stops : \A j \in stops : i <= j]
      blocked == \E i \in DOMAIN order : order[i] \in ToSet(Eligible(s)) /\ Downgrade(s, order[i])
  IN  CASE stops # {} /\ first = "mock" /\ Requested(s) # "mock" -> Refused("development only")
        [] stops # {} /\ ~(first = "mock" /\ Requested(s) # "mock") ->
             [error |-> "none", requested |-> Requested(s), resolved |-> first,
              eligible |-> Eligible(s), fallbackUsed |-> TRUE, downgrade |-> Downgrade(s, first)]
        [] stops = {} /\ (blocked \/ BelowMinimum(s)) -> Refused("security downgrade")
        [] OTHER -> Refused("unavailable")

\* Lines 202-231: the order of the early returns.
Decide(s) ==
  CASE Requested(s) = "mock" /\ s.mode # "development" -> Refused("development only")
    [] ~(Requested(s) = "mock" /\ s.mode # "development")
       /\ BelowMinimum(s) /\ s.fallback.mode = "disabled" -> Refused("security downgrade")
    [] Requested(s) \in ToSet(Eligible(s)) ->
         [error |-> "none", requested |-> Requested(s), resolved |-> Requested(s),
          eligible |-> Eligible(s), fallbackUsed |-> FALSE, downgrade |-> FALSE]
    [] OTHER -> IF s.fallback.mode = "disabled" THEN Refused("unavailable") ELSE Fallback(s)

ResolveBackend(s) == IF ValidSelection(s) THEN Decide(s) ELSE Refused("invalid")

--------------------------------------------------------------------------------
SelectionInit == selection \in Selections /\ result = NoResult

Resolve ==
  /\ result.error = "pending"
  /\ result' = ResolveBackend(selection)
  /\ UNCHANGED selection

SelectionNext == Resolve

--------------------------------------------------------------------------------
Resolved == result.error = "none"

\* Whatever is resolved satisfies every independent constraint by itself: each
\* allow list names it, the host offers it, and it is as isolated as required
\* (selection.go:172-195).
ResolvedSatisfiesAll ==
  Resolved =>
    /\ \A list \in {selection.serverAllowed, selection.registryAllowed,
                    selection.extensionSupported, selection.artifacts} :
         result.resolved \in ToSet(list)
    /\ \E i \in DOMAIN selection.host :
         selection.host[i].backend = result.resolved /\ selection.host[i].available
    /\ selection.minimum = "microvm" => result.resolved = "firecracker"

\* There is no silent fallback: another backend than the requested one is taken
\* only from an explicit order in which nothing before it would do, a request
\* for a microVM leaves it only with permission and is reported, and the mock
\* never stands in for a native backend nor runs in production
\* (selection.go:7-8, types.go:63-64).
NoSilentFallback ==
  Resolved =>
    /\ result.resolved # result.requested =>
         /\ result.fallbackUsed
         /\ \E i \in DOMAIN selection.fallback.order :
              /\ selection.fallback.order[i] = result.resolved
              /\ \A j \in 1..(i - 1) :
                   selection.fallback.order[j] \in ToSet(result.eligible) =>
                     result.requested = "firecracker" /\ ~selection.fallback.allowDowngrade
    /\ result.requested = "firecracker" /\ result.resolved # "firecracker" =>
         selection.fallback.allowDowngrade /\ result.downgrade
    /\ result.resolved = "mock" =>
         result.requested = "mock" /\ selection.mode = "development"
--------------------------------------------------------------------------------
(* NewPlanner.                                                             *)

Beneath(base, target) == IsPrefix(base, target)
Overlap(a, b) == Beneath(a, b) \/ Beneath(b, a)

RECURSIVE PathBytes(_)
PathBytes(path) == IF path = <<>> THEN 0 ELSE 1 + Width[Head(path)] + PathBytes(Tail(path))

\* Canonical, absolute and not the root: a sequence of names that is not empty.
CanonicalPath(path) == path # <<>>

mutableRoots == {"workspace", "scratch", "tmp", "run", "proc", "dev", "sys"}

\* The name of a generation has one width.
generationNames == <<"generation-1", "generation-2">>

SocketBytes(root, identityBytes) ==
  PathBytes(root) + 1 + identityBytes + PathBytes(<<generationNames[1], "control", "rpc.sock">>)

SocketFits(c) == SocketBytes(c.sandboxRoot, maximumSandboxIdentityBytes) <= maximumUnixSocketPathBytes

RootsApart(c) ==
  /\ ~Overlap(c.environmentRoot, c.sandboxRoot)
  /\ ~Overlap(c.environmentRoot, c.cgroupRoot)
  /\ ~Overlap(c.sandboxRoot, c.cgroupRoot)

NewPlanner(c) ==
  /\ c.binaryDigest \in {"", "canonical"}
  /\ \A p \in {c.binaryPath, c.environmentRoot, c.sandboxRoot, c.cgroupRoot} : CanonicalPath(p)
  /\ CanonicalPath(c.sandboxdPath) /\ Head(c.sandboxdPath) \notin mutableRoots
  /\ c.protocolVersion > 0
  /\ c.clientUID = "unprivileged" /\ c.manifestOwnerUID = "unprivileged"
  /\ RootsApart(c)
  /\ ~Beneath(c.sandboxRoot, c.binaryPath)
  /\ SocketFits(c)

--------------------------------------------------------------------------------
(* Build.                                                                  *)

\* A zero ceiling follows the cgroup limit.
AddressSpace(r) == IF r.addressSpace = 0 THEN r.memory ELSE r.addressSpace
UserProcesses(r) == IF r.userProcesses = 0 THEN r.processes ELSE r.userProcesses

ValidLimits(r) ==
  /\ r.memory \in 1..maximumBytes /\ r.processes \in 1..maximumCount
  /\ AddressSpace(r) \in r.memory..maximumBytes
  /\ UserProcesses(r) \in r.processes..maximumCount
  /\ r.scratch \in 1..maximumBytes
  /\ r.fileBytes \in mebibyte..maximumBytes /\ r.fileBytes % mebibyte = 0
  /\ r.lifetime > 0

ValidRequest(r) ==
  /\ r.sandboxID # "" /\ r.generation \in 1..maximumSharedGeneration
  /\ r.digests = "canonical"
  /\ r.hostUID = "unprivileged" /\ r.hostGID = "unprivileged"
  /\ r.access \in {"read-only", "read-write"}
  /\ r.network = "none"
  /\ ValidLimits(r)

\* The derived paths.
GenerationPath(root, r) == root \o <<r.sandboxID, generationNames[r.generation]>>
RootfsPath(c, r) == c.environmentRoot \o <<r.rootfs, "nsjail", "rootfs">>
SeccompPath(c, r) == c.environmentRoot \o <<r.rootfs, "nsjail", "seccomp", r.seccomp>>

Bind(src, dst, rw) == [src |-> src, dst |-> dst, rw |-> rw]
Tmpfs(dst) == [src |-> <<"tmpfs">>, dst |-> dst, rw |-> TRUE]

Mounts(c, r) ==
  {Bind(RootfsPath(c, r), <<>>, FALSE),
   Bind(GenerationPath(c.sandboxRoot, r) \o <<"workspace">>, <<"workspace">>, r.access = "read-write"),
   Tmpfs(<<"scratch">>), Tmpfs(<<"tmp">>), Tmpfs(<<"run">>),
   Bind(GenerationPath(c.sandboxRoot, r) \o <<"control">>, <<"run", "circulusd", "control">>, TRUE)}
  \cup {Bind(<<"dev", d>>, <<"dev", d>>, TRUE) : d \in {"null", "zero", "urandom"}}

\* rlimit_as and rlimit_fsize are given in mebibytes.
RlimitAs(r) == (AddressSpace(r) + mebibyte - 1) \div mebibyte
RlimitFsize(r) == r.fileBytes \div mebibyte

\* The protobuf text: each setting that a check looks for, and the numbers.
Settings ==
  {"mode: ONCE", "time_limit", "keep_env: false", "keep_caps: false",
   "disable_no_new_privs: false", "uidmap", "gidmap", "seccomp_policy_file",
   "cgroup_mem_max", "cgroup_pids_max", "cgroup_cpu_ms_per_sec",
   "clone_newnet: true", "clone_newuser: true", "clone_newns: true", "clone_newpid: true",
   "clone_newipc: true", "clone_newuts: true", "clone_newcgroup: true"}

Configuration(c, r) ==
  [settings |-> Settings, mounts |-> Mounts(c, r), exec |-> c.sandboxdPath,
   rlimitAs |-> RlimitAs(r), rlimitFsize |-> RlimitFsize(r), rlimitNproc |-> UserProcesses(r),
   memMax |-> r.memory, pidsMax |-> r.processes, generation |-> r.generation]

NoPlan == [error |-> "pending"]

Build(c, r) ==
  IF ~NewPlanner(c) \/ ~ValidRequest(r)
    THEN [error |-> "refused"]
    ELSE [error |-> "none", executable |-> c.binaryPath, binaryDigest |-> c.binaryDigest,
          sandbox |-> GenerationPath(c.sandboxRoot, r), cgroup |-> GenerationPath(c.cgroupRoot, r),
          rootfs |-> RootfsPath(c, r), seccomp |-> SeccompPath(c, r),
          sandboxd |-> RootfsPath(c, r) \o c.sandboxdPath, configuration |-> Configuration(c, r)]

--------------------------------------------------------------------------------
(* verify.go.                                                              *)

RequiredChecks ==
  {"namespace-isolation", "uid-gid-mapping", "rootfs-read-only", "write-confinement",
   "host-path-nonexposure", "no-new-privs", "no-retained-capabilities", "seccomp-deny",
   "cgroup-limits", "network-default-deny", "timeout-cancel-teardown", "sandboxd-private-uds",
   "resource-cleanup"}

RootReadOnly(f) == \E m \in f.mounts : m.dst = <<>> /\ ~m.rw
MountedAt(f, dst) == \E m \in f.mounts : m.dst = dst

\* Variant of HasAll: one of the settings is enough.
HasAny(f, names) == names \cap f.settings # {}

HasAll(f, names) == names \subseteq f.settings

planEncodesIsolation(check, f) ==
  CASE check = "namespace-isolation" ->
         HasAll(f, {"clone_newnet: true", "clone_newuser: true", "clone_newns: true",
                    "clone_newpid: true", "clone_newipc: true", "clone_newuts: true"})
    [] check = "uid-gid-mapping" -> HasAll(f, {"uidmap", "gidmap"})
    [] check = "rootfs-read-only" -> RootReadOnly(f)
    [] check = "write-confinement" ->
         RootReadOnly(f) /\ MountedAt(f, <<"workspace">>) /\ MountedAt(f, <<"scratch">>)
    [] check = "host-path-nonexposure" ->
         \A m \in f.mounts : /\ m.dst \notin {<<"home">>, <<"root">>}
                             /\ \A p \in {m.src, m.dst} : ToSet(p) \cap {"kvm", "docker.sock"} = {}
    [] check = "no-new-privs" -> "disable_no_new_privs: false" \in f.settings
    [] check = "no-retained-capabilities" -> "keep_caps: false" \in f.settings
    [] check = "seccomp-deny" -> "seccomp_policy_file" \in f.settings
    [] check = "cgroup-limits" ->
         HasAll(f, {"cgroup_mem_max", "cgroup_pids_max", "cgroup_cpu_ms_per_sec"})
    [] check = "network-default-deny" -> "clone_newnet: true" \in f.settings
    [] check = "timeout-cancel-teardown" -> "time_limit" \in f.settings
    [] check = "sandboxd-private-uds" -> MountedAt(f, <<"run", "circulusd", "control">>)
    [] OTHER -> "mode: ONCE" \in f.settings

verifyIsolationConfiguration(f) == [check \in RequiredChecks |-> planEncodesIsolation(check, f)]

--------------------------------------------------------------------------------
PlanInit == config \in Configs /\ request \in Requests /\ plan = NoPlan

BuildPlan ==
  /\ plan = NoPlan
  /\ plan' = Build(config, request)
  /\ UNCHANGED <<config, request>>

PlanNext == BuildPlan

--------------------------------------------------------------------------------
Built == plan.error = "none"

\* What a sandbox can write lies in no trusted root, and what the host trusts -
\* the NsJail binary, the root file system, the seccomp policy, the cgroup - lies
\* in no sandbox's directory, whatever roots were configured (plan.go:223-242).
TrustedOutsideSandbox ==
  Built =>
    /\ \A p \in {plan.executable, plan.rootfs, plan.seccomp, plan.sandboxd, plan.cgroup} :
         ~Overlap(plan.sandbox, p)
    /\ \A m \in plan.configuration.mounts :
         m.rw => ~Overlap(m.src, config.environmentRoot) /\ ~Overlap(m.src, config.cgroupRoot)

\* The control socket of every plan fits in a socket address, also for the
\* longest identity, so the bound checked at bootstrap is enough
\* (plan.go:243-252).
ControlSocketFits ==
  Built => PathBytes(plan.sandbox \o <<"control", "rpc.sock">>) <= maximumUnixSocketPathBytes

\* Rounding to mebibytes never puts an rlimit below what the cgroup grants, and
\* leaves the largest file size as it was asked for (plan.go:296-320, 363-366).
LimitsKept ==
  Built =>
    LET f == plan.configuration IN
    /\ f.rlimitAs * mebibyte >= f.memMax
    /\ f.rlimitFsize * mebibyte = request.fileBytes
    /\ f.rlimitNproc >= f.pidsMax

\* A configuration with one setting dropped, or with one mount dropped or made
\* writable.
Weakened(f) ==
  {[f EXCEPT !.settings = @ \ {s}] :
     s \in f.settings \ {"keep_env: false", "clone_newcgroup: true"}} \cup
  {[f EXCEPT !.mounts = (@ \ {m}) \cup {[m EXCEPT !.rw = TRUE]}] :
     m \in {n \in f.mounts : n.dst = <<>>}}

\* The static verifier accepts what the planner builds and, for each protection
\* it names, refuses the same plan without it (verify.go:33-90).
VerifierAgrees ==
  Built =>
    /\ \A check \in RequiredChecks : verifyIsolationConfiguration(plan.configuration)[check]
    /\ \A weak \in Weakened(plan.configuration) :
         \E check \in RequiredChecks : ~verifyIsolationConfiguration(weak)[check]
================================================================================
