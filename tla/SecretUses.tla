---------------------------- MODULE SecretUses ----------------------------
(***************************************************************************)
(* Uses of a secret by the secret service.  A handle names one version of  *)
(* a secret.  A use admits the handle again, takes the secret's only use   *)
(* lease in the store together with a recovery binding, and hands the      *)
(* material to a gateway or to a sandbox.  The lease keeps the secret from *)
(* being rotated or used elsewhere until the material is known to be gone; *)
(* where that stays unknown the lease stays, and an operator recovers it.  *)
(***************************************************************************)
EXTENDS Naturals, FiniteSets, FiniteSetsExt

CONSTANTS
  Uses,         \* uses of the secret, each with its recovery identifier
  KindOf,       \* "gateway", "token" or "sandbox"
  HandleTTL, PermitTTL,
  MaxTime,      \* bound: the clock stops here
  MaxVersion,   \* bound: versions of the secret
  MaxFaults,    \* bound: calls that fail and processes that end
  None

\* NewService refuses durations that are not positive.
ConfigAccepted == HandleTTL \in Nat \ {0} /\ PermitTTL \in Nat \ {0}

VARIABLES
  now,
  record,     \* [version, active]: the secret
  lease,      \* [use, acquired]: the one use lease, use = None when free
  completed,  \* tombstones of recoveries that were completed
  revoked,    \* time since which policy denies the access, or MaxTime + 1
  use,        \* the calls of UseGateway and UseSandbox
  external,   \* what gateway and sandbox know of a use
  audited,    \* uses with a durable audit event
  operator,   \* the calls of RecoverGateway and RecoverSandbox
  faults

vars == <<now, record, lease, completed, revoked, use, external, audited, operator, faults>>

NoUse == [pc |-> "new", version |-> 0, expires |-> 0, issued |-> 0, permit |-> 0]

Init ==
  /\ now = 0
  /\ record = [version |-> 1, active |-> TRUE]
  /\ lease = [use |-> None, acquired |-> FALSE]
  /\ completed = {}
  /\ revoked = MaxTime + 1
  /\ use = [u \in Uses |-> NoUse]
  /\ external = [u \in Uses |-> "none"]
  /\ audited = {}
  /\ operator = [u \in Uses |-> "idle"]
  /\ faults = 0

Sandbox(u) == KindOf[u] = "sandbox"
At(u, pc) == use[u].pc = pc
Go(u, pc) == use' = [use EXCEPT ![u].pc = pc]

\* A dependency fails or answers something else.
Fault == faults < MaxFaults /\ faults' = faults + 1

---------------------------------------------------------------------------
(* The store: each operator is one transaction *)

\* Mutant of MayRotate: a version in use is replaced.
MayRotateInUse == record.version < MaxVersion
\* CompareAndSwap is refused while the secret is in use.
MayRotate == record.version < MaxVersion /\ lease.use = None

\* The secret is replaced or withdrawn.
CompareAndSwap(active) ==
  /\ MayRotate
  /\ record' = [version |-> record.version + 1, active |-> active]
  /\ UNCHANGED <<now, lease, completed, revoked, use, external, audited, operator, faults>>

\* The permit is of this use and not past its deadline.
PermitHolds(u) == now >= use[u].issued /\ now < use[u].permit

\* Begin and reserve: the permit holds, the recovery is new, the version is
\* the handle's and nobody uses the secret.
MayBegin(u) ==
  /\ PermitHolds(u) /\ u \notin completed /\ lease.use = None
  /\ record.active /\ record.version = use[u].version

\* The reserved use still has its lease and takes the material once.
MayAcquire(u) ==
  /\ PermitHolds(u) /\ lease = [use |-> u, acquired |-> FALSE]
  /\ record.active /\ record.version = use[u].version

\* EndUse and CompleteUseRecovery free the secret and leave a tombstone.
Free(u) ==
  /\ lease' = [use |-> None, acquired |-> FALSE]
  /\ completed' = completed \cup {u}

---------------------------------------------------------------------------
(* Handles and admission *)

\* A handle is issued for the version that is there.
IssueHandle(u) ==
  /\ At(u, "new") /\ record.active /\ now < revoked
  /\ use' = [use EXCEPT ![u] = [NoUse EXCEPT !.pc = "issued", !.version = record.version, !.expires = now + HandleTTL]]
  /\ UNCHANGED <<now, record, lease, completed, revoked, external, audited, operator, faults>>

Authorized(u) == now < use[u].expires /\ now < revoked

\* The handle is checked and authorized again when it is used.
AuthorizeHandle(u) ==
  /\ At(u, "issued")
  /\ Go(u, IF ~Authorized(u) THEN "failed" ELSE IF Sandbox(u) THEN "audit" ELSE "admit")
  /\ UNCHANGED <<now, record, lease, completed, revoked, external, audited, operator, faults>>

\* A fresh permit, good for a short time and never longer than the handle.
Admitted(u, next, refused) ==
  /\ use' = IF ~Authorized(u) THEN [use EXCEPT ![u].pc = refused]
            ELSE [use EXCEPT ![u].pc = next, ![u].issued = now,
                             ![u].permit = Min({now + PermitTTL, use[u].expires})]
  /\ UNCHANGED <<now, record, lease, completed, revoked, external, audited, operator, faults>>

AdmitHandleUse(u) == At(u, "admit") /\ Admitted(u, "begin", "failed")

\* The audit event is durable or the use ends.
Audited(u, next, failed) ==
  /\ \/ audited' = audited \cup {u} /\ Go(u, next) /\ UNCHANGED faults
     \/ Fault /\ Go(u, failed) /\ UNCHANGED audited
  /\ UNCHANGED <<now, record, lease, completed, revoked, external, operator>>

AppendAudit(u) ==
  \/ At(u, "audit") /\ Audited(u, "admit", "failed")
  \/ At(u, "auditUse") /\ Audited(u, IF KindOf[u] = "token" THEN "mint" ELSE "dispatch", "release")

---------------------------------------------------------------------------
(* UseGateway *)

\* The lease and the material in one transaction, whose answer may be lost.
BeginUse(u) ==
  /\ At(u, "begin") /\ ~Sandbox(u)
  /\ \/ MayBegin(u) /\ lease' = [use |-> u, acquired |-> TRUE] /\ Go(u, "auditUse") /\ UNCHANGED faults
     \/ MayBegin(u) /\ Fault /\ lease' = [use |-> u, acquired |-> TRUE] /\ Go(u, "failed")
     \/ ~MayBegin(u) /\ Go(u, "failed") /\ UNCHANGED <<lease, faults>>
  /\ UNCHANGED <<now, record, completed, revoked, external, audited, operator>>

\* A token is minted from the material; failing, the use ends.
Mint(u) ==
  /\ At(u, "mint")
  /\ \/ Go(u, "dispatch") /\ UNCHANGED faults
     \/ Fault /\ Go(u, "release")
  /\ UNCHANGED <<now, record, lease, completed, revoked, external, audited, operator>>

\* The gateway binds the recovery and takes the material, unless that
\* binding was recovered before.
Dispatch(u) ==
  /\ At(u, "dispatch") /\ Go(u, "dispatched")
  /\ external' = [external EXCEPT ![u] = IF @ = "closed" THEN @ ELSE "live"]
  /\ UNCHANGED <<now, record, lease, completed, revoked, audited, operator, faults>>

\* A durable answer: the gateway is done with the material.
DispatchAnswered(u) ==
  /\ At(u, "dispatched") /\ external[u] = "live"
  /\ external' = [external EXCEPT ![u] = "closed"] /\ Go(u, "release")
  /\ UNCHANGED <<now, record, lease, completed, revoked, audited, operator, faults>>

\* An error or another answer: the use is uncertain and its lease stays.
DispatchUncertain(u) ==
  /\ At(u, "dispatched") /\ Go(u, "failed")
  /\ \/ external[u] = "closed" /\ UNCHANGED faults
     \/ Fault
  /\ UNCHANGED <<now, record, lease, completed, revoked, external, audited, operator>>

---------------------------------------------------------------------------
(* UseSandbox *)

\* The lease alone: no material leaves the store yet.  The answer may be lost.
ReserveUse(u) ==
  /\ At(u, "begin") /\ Sandbox(u)
  /\ \/ MayBegin(u) /\ lease' = [use |-> u, acquired |-> FALSE] /\ Go(u, "prepare") /\ UNCHANGED faults
     \/ MayBegin(u) /\ Fault /\ lease' = [use |-> u, acquired |-> FALSE] /\ Go(u, "failed")
     \/ ~MayBegin(u) /\ Go(u, "failed") /\ UNCHANGED <<lease, faults>>
  /\ UNCHANGED <<now, record, completed, revoked, external, audited, operator>>

\* The sandbox binds the recovery durably, or its answer is lost.
Prepare(u) ==
  /\ At(u, "prepare")
  /\ external' = [external EXCEPT ![u] = IF @ = "closed" THEN @ ELSE "bound"]
  /\ \/ external[u] # "closed" /\ Go(u, "readmit") /\ UNCHANGED faults
     \/ external[u] = "closed" /\ Go(u, "cleanup") /\ UNCHANGED faults
     \/ Fault /\ Go(u, "cleanup")
  /\ UNCHANGED <<now, record, lease, completed, revoked, audited, operator>>

\* The handle is admitted a second time: preparing may have taken long.
Readmit(u) == At(u, "readmit") /\ Admitted(u, "acquire", "cleanup")

AcquireReservedUse(u) ==
  /\ At(u, "acquire")
  /\ \/ MayAcquire(u) /\ lease' = [use |-> u, acquired |-> TRUE] /\ Go(u, "use")
     \/ ~MayAcquire(u) /\ Go(u, "cleanup") /\ UNCHANGED lease
  /\ UNCHANGED <<now, record, completed, revoked, external, audited, operator, faults>>

\* The material enters the sandbox, unless that binding was closed.
UseMaterial(u) ==
  /\ At(u, "use") /\ Go(u, "using")
  /\ external' = [external EXCEPT ![u] = IF @ = "closed" THEN @ ELSE "live"]
  /\ UNCHANGED <<now, record, lease, completed, revoked, audited, operator, faults>>

\* A complete receipt ends the use, anything else is contained.
UseReturns(u) ==
  /\ At(u, "using")
  /\ \/ external[u] = "live" /\ external' = [external EXCEPT ![u] = "closed"] /\ Go(u, "release") /\ UNCHANGED faults
     \/ external[u] = "closed" /\ Go(u, "cleanup") /\ UNCHANGED <<external, faults>>
     \/ Fault /\ Go(u, "cleanup") /\ UNCHANGED external
  /\ UNCHANGED <<now, record, lease, completed, revoked, audited, operator>>

\* Cleanup, else quarantine.
Cleanup(u) ==
  /\ At(u, "cleanup")
  /\ \/ external' = [external EXCEPT ![u] = "closed"] /\ Go(u, "release") /\ UNCHANGED faults
     \/ Fault /\ Go(u, "quarantine") /\ UNCHANGED external
  /\ UNCHANGED <<now, record, lease, completed, revoked, audited, operator>>

\* Neither is confirmed: the lease stays for the operator.
Quarantine(u) ==
  /\ At(u, "quarantine")
  /\ \/ external' = [external EXCEPT ![u] = "closed"] /\ Go(u, "release") /\ UNCHANGED faults
     \/ Fault /\ Go(u, "failed") /\ UNCHANGED external
  /\ UNCHANGED <<now, record, lease, completed, revoked, audited, operator>>

\* EndUse: refused if the lease is not this use's any more; the call may fail
\* before or after it took effect.
ReleaseUse(u) ==
  /\ At(u, "release") /\ Go(u, "done")
  /\ \/ lease.use = u /\ Free(u)
     \/ lease.use # u /\ UNCHANGED <<lease, completed>>
  /\ UNCHANGED <<now, record, revoked, external, audited, operator, faults>>

ReleaseFails(u) ==
  /\ At(u, "release") /\ Fault /\ Go(u, "failed")
  /\ UNCHANGED <<now, record, lease, completed, revoked, external, audited, operator>>

\* The service's process ends during the use; the store and what the gateway
\* and the sandbox bound survive.
Crash(u) ==
  /\ use[u].pc \notin {"new", "done", "failed"} /\ Fault /\ Go(u, "failed")
  /\ UNCHANGED <<now, record, lease, completed, revoked, external, audited, operator>>

---------------------------------------------------------------------------
(* Recovery by an operator: the pending recoveries are those of the lease *)

\* Listed, authorized, validated against the store and audited.
StartRecovery(u) ==
  /\ operator[u] = "idle" /\ lease.use = u
  /\ operator' = [operator EXCEPT ![u] = "recover"]
  /\ UNCHANGED <<now, record, lease, completed, revoked, use, external, audited, faults>>

\* The gateway reconciles, the sandbox quarantines: either answers that the
\* material is gone and stays gone, or the recovery fails.
RecoverExternal(u) ==
  /\ operator[u] = "recover"
  /\ \/ operator' = [operator EXCEPT ![u] = "complete"] /\ external' = [external EXCEPT ![u] = "closed"] /\ UNCHANGED faults
     \/ Fault /\ operator' = [operator EXCEPT ![u] = "idle"] /\ UNCHANGED external
  /\ UNCHANGED <<now, record, lease, completed, revoked, use, audited>>

\* The lease is freed if it is still there; repeating it is harmless.
CompleteUseRecovery(u) ==
  /\ operator[u] = "complete" /\ operator' = [operator EXCEPT ![u] = "idle"]
  /\ \/ lease.use = u /\ Free(u)
     \/ lease.use # u /\ UNCHANGED <<lease, completed>>
  /\ UNCHANGED <<now, record, revoked, use, external, audited, faults>>

---------------------------------------------------------------------------
Revoke ==
  /\ revoked > MaxTime /\ revoked' = now
  /\ UNCHANGED <<now, record, lease, completed, use, external, audited, operator, faults>>

Tick ==
  /\ now < MaxTime /\ now' = now + 1
  /\ UNCHANGED <<record, lease, completed, revoked, use, external, audited, operator, faults>>

GatewayStep(u) == BeginUse(u) \/ Mint(u) \/ Dispatch(u) \/ DispatchAnswered(u) \/ DispatchUncertain(u)
SandboxStep(u) ==
  \/ ReserveUse(u) \/ Prepare(u) \/ Readmit(u) \/ AcquireReservedUse(u)
  \/ UseMaterial(u) \/ UseReturns(u) \/ Cleanup(u) \/ Quarantine(u)
UseStep(u) ==
  AuthorizeHandle(u) \/ AdmitHandleUse(u) \/ AppendAudit(u) \/ GatewayStep(u) \/ SandboxStep(u) \/ ReleaseUse(u)
RecoveryStep(u) == RecoverExternal(u) \/ CompleteUseRecovery(u)

Next ==
  \/ \E u \in Uses : \/ IssueHandle(u) \/ UseStep(u) \/ ReleaseFails(u) \/ Crash(u)
                     \/ StartRecovery(u) \/ RecoveryStep(u)
  \/ \E active \in BOOLEAN : CompareAndSwap(active)
  \/ Revoke \/ Tick

Spec == Init /\ [][Next]_vars

---------------------------------------------------------------------------
(* Properties *)

\* Material that a gateway or a sandbox may still hold is of the secret's
\* current, active version: a secret is never rotated or withdrawn while an
\* earlier use may live on, through lost answers, crashes and recoveries.
LiveIsCurrent ==
  \A u \in Uses : external[u] = "live" => record = [version |-> use[u].version, active |-> TRUE]

\* At most one use has its material outside at a time, and it has the lease.
LiveHasLease == \A u \in Uses : external[u] = "live" => lease = [use |-> u, acquired |-> TRUE]

\* No material leaves without a durable audit event of that use.
AuditedBeforeExposure == \A u \in Uses : external[u] = "live" => u \in audited

\* After a revocation no use takes material for longer than a permit lasts,
\* however long ago its sandbox was prepared.
RevocationIsPrompt ==
  lease'.acquired /\ ~lease.acquired => now < revoked + PermitTTL
=============================================================================
