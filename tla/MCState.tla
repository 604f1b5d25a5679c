------------------------------ MODULE MCState ------------------------------
(***************************************************************************)
(* What the platform keeps for its tenants, checked side by side: the blob *)
(* store and its guards, the artifacts, the uses of a secret, and the      *)
(* tenants' quotas.  A behaviour is of one part; the variables of the      *)
(* others do not move.                                                     *)
(***************************************************************************)
EXTENDS BlobGuard, TLC

CONSTANTS
  Parts,                       \* the parts a run explores
  x1, x2, x3,                  \* goroutines, collectors, operations: interchangeable
  r1, r2, r3, i1, i2, k1, k2,  \* artifacts
  t, s,                        \* uses of a secret
  member, boss, chief          \* subjects of quotas

VARIABLES
  part,                        \* the part this behaviour is of
  now, invocations, artifacts, order, count, sweeps, gc, store, worker, reader, collector,
  late, answered, faults,      \* Artifacts
  record, lease, completed, revoked, use, external, audited, operator,   \* SecretUses
  tenant, reservations, operations, owner, releases                      \* TenantQuota

(* Two creations of one content, or of two under one invocation. *)
InvocationOf == (r1 :> i1) @@ (r2 :> i2) @@ (r3 :> i1)
KeyOf == (r1 :> k1) @@ (r2 :> k1) @@ (r3 :> k2) @@ (None :> None)
SizeOf == (r1 :> 1) @@ (r2 :> 1) @@ (r3 :> 2)
RetainFor == (r1 :> 0) @@ (r2 :> 1) @@ (r3 :> 1)

\* Two collectors whose leases may lapse while they work, and objects that stay long
Sweeping == INSTANCE Artifacts WITH
  Requests <- {r1, r2}, Invocations <- {i1, i2}, Keys <- {k1}, RetainFor <- [r \in {r1, r2} |-> 0],
  Quota <- 2, Workers <- {"w1"}, Readers <- {}, Collectors <- {x1, x2},
  MaximumArtifactBytes <- 1, DefaultRetention <- 3, MaximumRetention <- 3, GCGrace <- 1,
  InflightTimeout <- 1, GCLeaseDuration <- 1, GCBatchSize <- 2, Punctual <- FALSE,
  MaxTime <- 2, LastCreate <- 0, MaxFaults <- 0

\* One call of the store or one caller fails; the quota has room for one object
Failing == INSTANCE Artifacts WITH
  Requests <- {r1, r2}, Invocations <- {i1, i2}, Keys <- {k1},
  Quota <- 1, Workers <- {"w1"}, Readers <- {}, Collectors <- {x1},
  MaximumArtifactBytes <- 1, DefaultRetention <- 1, MaximumRetention <- 1, GCGrace <- 1,
  InflightTimeout <- 1, GCLeaseDuration <- 1, GCBatchSize <- 2, Punctual <- FALSE,
  MaxTime <- 2, LastCreate <- 2, MaxFaults <- 1

\* A reader between its two steps
Opening == INSTANCE Artifacts WITH
  Requests <- {r1, r2}, Invocations <- {i1, i2}, Keys <- {k1},
  Quota <- 2, Workers <- {"w1"}, Readers <- {"o1"}, Collectors <- {x1},
  MaximumArtifactBytes <- 2, DefaultRetention <- 1, MaximumRetention <- 1, GCGrace <- 1,
  InflightTimeout <- 1, GCLeaseDuration <- 1, GCBatchSize <- 2, Punctual <- FALSE,
  MaxTime <- 2, LastCreate <- 1, MaxFaults <- 0

\* Two callers with two requests under one invocation
Answering == INSTANCE Artifacts WITH
  Requests <- {r1, r2, r3}, Invocations <- {i1, i2}, Keys <- {k1, k2},
  Quota <- 2, Workers <- {"w1", "w2"}, Readers <- {}, Collectors <- {},
  MaximumArtifactBytes <- 1, DefaultRetention <- 1, MaximumRetention <- 1, GCGrace <- 1,
  InflightTimeout <- 1, GCLeaseDuration <- 1, GCBatchSize <- 2, Punctual <- FALSE,
  MaxTime <- 1, LastCreate <- 1, MaxFaults <- 1

\* A token and a sandbox use of one secret, which is rotated and revoked
Secrets == INSTANCE SecretUses WITH
  Uses <- {t, s}, KindOf <- (t :> "token") @@ (s :> "sandbox"), HandleTTL <- 2, PermitTTL <- 1,
  MaxTime <- 2, MaxVersion <- 2, MaxFaults <- 1

\* An administrator who tightens the policy, with live and consumed resources
Quota == INSTANCE TenantQuota WITH
  Ops <- {x1, x2, x3}, Subjects <- {boss}, Instances <- {i1}, RoleOf <- (boss :> "tenant-admin"),
  ActionDims <- [a \in {"sandbox.start", "model.use"} |->
                   IF a = "sandbox.start" THEN {"sandboxes"} ELSE {"tokens"}],
  Limits <- [d \in {"sandboxes", "tokens"} |-> 2], MaxAmount <- 1, MaxCalls <- 1, Profiles <- {1, 2}

\* Members and owners of a workspace, and blobs that charge two dimensions
Roles == INSTANCE TenantQuota WITH
  Ops <- {x1, x2, x3}, Subjects <- {member, chief}, Instances <- {i1, i2},
  RoleOf <- (member :> "workspace-member") @@ (chief :> "workspace-owner"),
  ActionDims <- [a \in {"blob.store"} |-> {"bytes", "blobs"}],
  Limits <- [d \in {"bytes", "blobs", "tokens"} |-> 2], MaxAmount <- 2, MaxCalls <- 1, Profiles <- {1}

ASSUME Sweeping!ConfigAccepted /\ Failing!ConfigAccepted /\ Opening!ConfigAccepted
ASSUME Answering!ConfigAccepted /\ Secrets!ConfigAccepted

artifactVars ==
  <<invocations, artifacts, order, count, sweeps, gc, store, worker, reader, collector, late,
    answered>>
secretVars == <<record, lease, completed, revoked, use, external, audited, operator>>
quotaVars == <<tenant, reservations, operations, owner, releases>>
stateVars == <<part, vars, now, faults, artifactVars, secretVars, quotaVars>>

NoBlobs ==
  /\ objects = {} /\ guards = [k \in Keys |-> NoGuard] /\ pending = [k \in Keys |-> {}]
  /\ permits = [p \in Permits |-> NoPermit] /\ lastEpoch = 0 /\ clock = 0 /\ claims = {}
  /\ gate = [k \in Keys |-> None] /\ call = 0 /\ committed = {} /\ refs = {} /\ visited = {}
  /\ marked = {}
NoClock == now = 0 /\ faults = 0
NoArtifacts ==
  /\ invocations = 0 /\ artifacts = 0 /\ order = 0 /\ count = 0 /\ sweeps = 0 /\ gc = 0
  /\ store = 0 /\ worker = 0 /\ reader = 0 /\ collector = 0 /\ late = 0 /\ answered = 0
NoSecrets ==
  /\ record = 0 /\ lease = 0 /\ completed = 0 /\ revoked = 0 /\ use = 0 /\ external = 0
  /\ audited = 0 /\ operator = 0
NoQuota == tenant = 0 /\ reservations = 0 /\ operations = 0 /\ owner = 0 /\ releases = 0

PartInit ==
  /\ part \in Parts
  /\ CASE part = "blobs"     -> Init /\ NoClock /\ NoArtifacts /\ NoSecrets /\ NoQuota
       [] part = "sweeping"  -> Sweeping!Init /\ NoSecrets /\ NoQuota /\ NoBlobs
       [] part = "failing"   -> Failing!Init /\ NoSecrets /\ NoQuota /\ NoBlobs
       [] part = "opening"   -> Opening!Init /\ NoSecrets /\ NoQuota /\ NoBlobs
       [] part = "answering" -> Answering!Init /\ NoSecrets /\ NoQuota /\ NoBlobs
       [] part = "secrets"   -> Secrets!Init /\ NoArtifacts /\ NoQuota /\ NoBlobs
       [] part = "quota"     -> Quota!Init /\ NoClock /\ NoArtifacts /\ NoSecrets /\ NoBlobs
       [] part = "roles"     -> Roles!Init /\ NoClock /\ NoArtifacts /\ NoSecrets /\ NoBlobs

PartNext ==
  \/ part = "blobs" /\ Next /\ UNCHANGED <<part, now, faults, artifactVars, secretVars, quotaVars>>
  \/ /\ \/ part = "sweeping" /\ Sweeping!Next
        \/ part = "failing" /\ Failing!Next
        \/ part = "opening" /\ Opening!Next
        \/ part = "answering" /\ Answering!Next
     /\ UNCHANGED <<part, vars, secretVars, quotaVars>>
  \/ part = "secrets" /\ Secrets!Next /\ UNCHANGED <<part, vars, artifactVars, quotaVars>>
  \/ /\ \/ part = "quota" /\ Quota!Next
        \/ part = "roles" /\ Roles!Next
     /\ UNCHANGED <<part, vars, now, faults, artifactVars, secretVars>>

PartSpec == PartInit /\ [][PartNext]_stateVars

Symmetry == Permutations({x1, x2, x3})

----------------------------------------------------------------------------
\* An active artifact has its bytes in the store, and a key under a collector's claim has no
\* creation in flight and no active artifact, whatever a sweep whose lease lapsed or a late
\* delete still does; Open finds the bytes within the grace period; an answered caller got the
\* artifact of its own request; the tenant's counters are exactly what the records say.
ArtifactsKept ==
  /\ part = "sweeping" => Sweeping!ActiveHasBytes /\ Sweeping!ClaimExcludesUse
  /\ part = "failing" => Failing!ActiveHasBytes /\ Failing!QuotaIsExact
  /\ part = "opening" => Opening!OpenWithinGrace
  /\ part = "answering" => Answering!AnswersOwnRequest

\* Material that a gateway or a sandbox may still hold is of the secret's current, active
\* version, its use has the one lease, and a durable audit event tells of it, through lost
\* answers, crashes and recoveries.
SecretsGuarded ==
  part = "secrets" =>
    Secrets!LiveIsCurrent /\ Secrets!LiveHasLease /\ Secrets!AuditedBeforeExposure

\* The counters of a tenant are exactly the sums of its reservations, a live resource is
\* charged, and an operation takes effect once however often it is sent.
QuotaExact ==
  /\ part = "quota" => Quota!ChargesAddUp /\ Quota!LiveIsCharged /\ Quota!OneEffectEach
  /\ part = "roles" => Roles!ChargesAddUp /\ Roles!LiveIsCharged

\* Steps that never happen: a late or repeated execution of an old claim takes the bytes of a
\* newer incarnation away; an artifact is purged while the object it pointed to is there;
\* material is taken later than a permit lasts after a revocation; an amount is put to use
\* beyond the policy of that moment, tokens are given back, a limit is raised.
StateRules ==
  [][/\ part = "blobs" => OldClaimsAreHarmless
     /\ part = "failing" => Failing!PurgedObjectIsGone
     /\ part = "secrets" => Secrets!RevocationIsPrompt
     /\ part = "quota" => Quota!UsedWithinPolicy /\ Quota!SpentIsSpent /\ Quota!NeverRelaxed]_stateVars
=============================================================================
