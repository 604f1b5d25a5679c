---------------------------- MODULE TenantQuota ----------------------------
(***************************************************************************)
(* Quota of one tenant.  A reservation charges an amount, is consumed when *)
(* the resource is made, and is released: by a cancellation while it is    *)
(* only reserved, afterwards by the service alone, with the proof of the   *)
(* resource's owner that the very incarnation is destroyed.  Every         *)
(* mutation is a compare-and-swap on the tenant's version that writes its  *)
(* receipt in the same transaction; a repeated operation answers it.       *)
(***************************************************************************)
EXTENDS Naturals, FiniteSets, FiniteSetsExt, Functions

CONSTANTS
  Ops,         \* operation identifiers; a reservation has the one that made it
  Subjects,
  RoleOf,      \* the subject's role: "platform-admin", "tenant-admin",
               \* "workspace-owner", "workspace-member" or "user" (no grant)
  Instances,   \* incarnations of live resources
  ActionDims,  \* the dimensions an action charges
  Limits,      \* the limits of the first policy, per dimension
  MaxAmount,   \* bound: the amounts asked for
  Profiles,    \* bound: the profiles asked for
  MaxCalls,    \* bound: calls of Service.Release at a time
  None

VARIABLES
  tenant,       \* [version, limits, maximum, used, reserved]
  reservations, \* Ops -> reservation
  operations,   \* Ops -> operation: its identity and receipt
  owner,        \* the lifecycle journal of the resources' owners
  releases      \* the calls of Service.Release, by operation

vars == <<tenant, reservations, operations, owner, releases>>

Dims == DOMAIN Limits
Actions == DOMAIN ActionDims
Nothing == [d \in Dims |-> 0]

NoReservation == [state |-> "none", subject |-> None, action |-> "none", amount |-> Nothing,
                  profile |-> 0, instance |-> None, version |-> 0]
NoOperation == [kind |-> "none", reservation |-> None, state |-> "none"]
NoRelease == [pc |-> "idle", subject |-> None, reservation |-> None, version |-> 0, instance |-> None, expected |-> 0]

Init ==
  /\ tenant = [version |-> 1, limits |-> Limits, maximum |-> Max(Profiles), used |-> Nothing, reserved |-> Nothing]
  /\ reservations = [o \in Ops |-> NoReservation]
  /\ operations = [o \in Ops |-> NoOperation]
  /\ owner = [i \in Instances |-> "absent"]
  /\ releases = [o \in Ops |-> NoRelease]

---------------------------------------------------------------------------
(* Amounts and policies *)

quotaContains(total, amount) == \A d \in Dims : total[d] >= amount[d]
addQuota(a, b) == [d \in Dims |-> a[d] + b[d]]
subtractQuota(a, b) == [d \in Dims |-> a[d] - b[d]]

\* Each difference is taken only where it cannot wrap.
quotaAdmissible(limit, used, reserved, requested) ==
  \A d \in Dims : /\ used[d] <= limit[d]
                  /\ reserved[d] <= limit[d] - used[d]
                  /\ requested[d] <= limit[d] - used[d] - reserved[d]

\* An action charges its own dimensions, all by the same amount.
AmountOf(action, n) == [d \in Dims |-> IF d \in ActionDims[action] THEN n ELSE 0]

actionRequiresTeardown(action) == action # "model.use"

\* The shape of a reservation and the sandbox profile the policy allows now.
validateReserveSemantics(action, amount, profile, instance) ==
  /\ \E n \in 1..MaxAmount : amount = AmountOf(action, n) /\ (action = "sandbox.start" => n = 1)
  /\ (instance # None) <=> actionRequiresTeardown(action)
  /\ IF action = "sandbox.start" THEN profile \in 1..tenant.maximum ELSE profile = 0

policyRelaxes(limits, maximum) ==
  maximum > tenant.maximum \/ \E d \in Dims : limits[d] > tenant.limits[d]

\* Policies are combined by the tighter value in every dimension.
IntersectPolicies(policies) == [d \in Dims |-> Min({p[d] : p \in policies})]

---------------------------------------------------------------------------
(* Authorization, inside the transaction of every call *)

Administers(s) == RoleOf[s] \in {"platform-admin", "tenant-admin"}

\* A workspace action needs a grant, managing the tenant an administrator.
authorizeLocked(s, action) ==
  Administers(s) \/ (action # "tenant.manage" /\ RoleOf[s] \in {"workspace-owner", "workspace-member"})

\* A reservation is its subject's; administrators and owners may act on any.
MayTransition(s, r) == reservations[r].subject = s \/ Administers(s) \/ RoleOf[s] = "workspace-owner"

\* The operation identifier is new; a used one is answered from its record.
Fresh(o) == operations[o].kind = "none"

\* The mutation, its version and its receipt in one transaction.
Commit(o, kind, r, state, used, reserved) ==
  /\ tenant' = [tenant EXCEPT !.version = @ + 1, !.used = used, !.reserved = reserved]
  /\ operations' = [operations EXCEPT ![o] = [kind |-> kind, reservation |-> r, state |-> state]]

---------------------------------------------------------------------------
(* The repository *)

AuthorizeAndReserve(o, s, action, n, profile, instance, expected) ==
  /\ authorizeLocked(s, action) /\ Fresh(o)
  /\ validateReserveSemantics(action, AmountOf(action, n), profile, instance)
  /\ expected = tenant.version
  /\ quotaAdmissible(tenant.limits, tenant.used, tenant.reserved, AmountOf(action, n))
  /\ reservations' = [reservations EXCEPT ![o] =
       [state |-> "reserved", subject |-> s, action |-> action, amount |-> AmountOf(action, n),
        profile |-> profile, instance |-> instance, version |-> tenant.version + 1]]
  /\ Commit(o, "reserve", o, "reserved", tenant.used, addQuota(tenant.reserved, AmountOf(action, n)))
  /\ UNCHANGED <<owner, releases>>

\* What every transition checks of its reservation before it looks at it.
Transition(o, s, r, expected) ==
  /\ reservations[r].state # "none"
  /\ authorizeLocked(s, reservations[r].action) /\ Fresh(o)
  /\ expected = tenant.version /\ MayTransition(s, r)

\* The policy may have been tightened since the reservation.
ConsumeAllowed(r) ==
  LET v == reservations[r] IN
  /\ validateReserveSemantics(v.action, v.amount, v.profile, v.instance)
  /\ quotaAdmissible(tenant.limits, tenant.used, subtractQuota(tenant.reserved, v.amount), v.amount)

Consume(o, s, r, expected) ==
  /\ Transition(o, s, r, expected)
  /\ reservations[r].state = "reserved" /\ quotaContains(tenant.reserved, reservations[r].amount)
  /\ ConsumeAllowed(r)
  /\ reservations' = [reservations EXCEPT ![r].state = "consumed"]
  /\ Commit(o, "consume", r, "consumed", addQuota(tenant.used, reservations[r].amount),
            subtractQuota(tenant.reserved, reservations[r].amount))
  /\ UNCHANGED <<owner, releases>>

\* Mutant of ReleaseReserved: a cancelled amount stays reserved.
ReleaseReservedKept(o, r) ==
  /\ reservations[r].state = "reserved" /\ quotaContains(tenant.reserved, reservations[r].amount)
  /\ reservations' = [reservations EXCEPT ![r].state = "released"]
  /\ Commit(o, "release", r, "released", tenant.used, tenant.reserved)
\* A reservation that was not consumed is cancelled without a proof.
ReleaseReserved(o, r) ==
  /\ reservations[r].state = "reserved" /\ quotaContains(tenant.reserved, reservations[r].amount)
  /\ reservations' = [reservations EXCEPT ![r].state = "released"]
  /\ Commit(o, "release", r, "released", tenant.used, subtractQuota(tenant.reserved, reservations[r].amount))

\* Tokens and cost are spent for good; a live resource needs the proof of
\* this reservation's incarnation.
RefundAllowed(r, proof) ==
  /\ reservations[r].amount["tokens"] = 0 /\ actionRequiresTeardown(reservations[r].action)
  /\ proof # None /\ proof.version = reservations[r].version /\ proof.instance = reservations[r].instance

ReleaseConsumed(o, r, proof) ==
  /\ reservations[r].state = "consumed" /\ RefundAllowed(r, proof)
  /\ quotaContains(tenant.used, reservations[r].amount)
  /\ reservations' = [reservations EXCEPT ![r].state = "released"]
  /\ Commit(o, "release", r, "released", subtractQuota(tenant.used, reservations[r].amount), tenant.reserved)

\* Release called on the repository directly: no proof can be attached.
Release(o, s, r, expected) ==
  /\ Transition(o, s, r, expected)
  /\ ReleaseReserved(o, r) \/ ReleaseConsumed(o, r, None)
  /\ UNCHANGED <<owner, releases>>

TightenPolicy(o, s, limits, maximum, expected) ==
  /\ authorizeLocked(s, "tenant.manage") /\ Fresh(o) /\ expected = tenant.version
  /\ ~policyRelaxes(limits, maximum)
  /\ tenant' = [tenant EXCEPT !.version = @ + 1, !.limits = limits, !.maximum = maximum]
  /\ operations' = [operations EXCEPT ![o] = [kind |-> "policy-tighten", reservation |-> None, state |-> "none"]]
  /\ UNCHANGED <<reservations, owner, releases>>

---------------------------------------------------------------------------
(* Service.Release *)

At(o, pc) == releases[o].pc = pc
To(o, pc) == releases' = [releases EXCEPT ![o] = IF pc = "idle" THEN NoRelease ELSE [@ EXCEPT !.pc = pc]]

\* The caller names the reservation, its version and incarnation, and the
\* version of the tenant it saw.
StartRelease(o, s, r, i) ==
  /\ At(o, "idle") /\ Cardinality({p \in Ops : ~At(p, "idle")}) < MaxCalls
  /\ reservations[r].state # "none"
  /\ actionRequiresTeardown(reservations[r].action) /\ authorizeLocked(s, reservations[r].action)
  /\ releases' = [releases EXCEPT ![o] =
       [pc |-> "recover", subject |-> s, reservation |-> r, version |-> reservations[r].version,
        instance |-> i, expected |-> tenant.version]]
  /\ UNCHANGED <<tenant, reservations, operations, owner>>

\* The receipt of an earlier call of this operation answers it while the
\* owner is away; a receipt of another request is a conflict.
Recover(o) ==
  /\ At(o, "recover")
  /\ To(o, IF Fresh(o) THEN "verify" ELSE "idle")
  /\ UNCHANGED <<tenant, reservations, operations, owner>>

\* The owner's journal proves the destruction of that incarnation, or not.
VerifyTeardown(o) ==
  /\ At(o, "verify")
  /\ To(o, IF owner[releases[o].instance] = "destroyed" THEN "release" ELSE "idle")
  /\ UNCHANGED <<tenant, reservations, operations, owner>>

\* The proof goes into the transaction, which checks everything again.
ReleaseProven(o) ==
  LET call == releases[o] IN
  /\ At(o, "release") /\ Transition(o, call.subject, call.reservation, call.expected)
  /\ \/ ReleaseReserved(o, call.reservation)
     \/ ReleaseConsumed(o, call.reservation, [version |-> call.version, instance |-> call.instance])
  /\ To(o, "idle") /\ UNCHANGED owner

\* The transaction is refused: the tenant moved on, or the reservation did.
ReleaseRefused(o) ==
  LET call == releases[o] IN
  /\ At(o, "release")
  /\ \/ ~Transition(o, call.subject, call.reservation, call.expected)
     \/ reservations[call.reservation].state = "released"
     \/ reservations[call.reservation].state = "consumed" /\ reservations[call.reservation].instance # call.instance
  /\ To(o, "idle") /\ UNCHANGED <<tenant, reservations, operations, owner>>

---------------------------------------------------------------------------
(* The owners of the resources *)

\* A resource is made once its charge is consumed, and only once.
StartResource(i) ==
  /\ owner[i] = "absent" /\ \E r \in Ops : reservations[r].state = "consumed" /\ reservations[r].instance = i
  /\ owner' = [owner EXCEPT ![i] = "live"] /\ UNCHANGED <<tenant, reservations, operations, releases>>

\* Destruction is journalled; it also ends an incarnation never started.
DestroyResource(i) ==
  /\ owner[i] # "destroyed"
  /\ owner' = [owner EXCEPT ![i] = "destroyed"] /\ UNCHANGED <<tenant, reservations, operations, releases>>

---------------------------------------------------------------------------
\* Bound: a policy that lowers one limit by one is combined with the present
\* one, or the first limits are asked for again.
Tighter == {IntersectPolicies({tenant.limits, [Limits EXCEPT ![d] = @ - 1]}) : d \in Dims} \cup {Limits}

ReserveSome(o, s) ==
  \E action \in Actions, n \in 1..MaxAmount, profile \in Profiles \cup {0}, instance \in Instances \cup {None} :
    AuthorizeAndReserve(o, s, action, n, profile, instance, tenant.version)
ReleaseStep(o) == Recover(o) \/ VerifyTeardown(o) \/ ReleaseProven(o) \/ ReleaseRefused(o)

Next ==
  \/ \E o \in Ops, s \in Subjects :
       \/ ReserveSome(o, s)
       \/ \E r \in Ops : \/ Consume(o, s, r, tenant.version) \/ Release(o, s, r, tenant.version)
                         \/ \E i \in Instances : StartRelease(o, s, r, i)
       \/ \E limits \in Tighter, maximum \in Profiles : TightenPolicy(o, s, limits, maximum, tenant.version)
  \/ \E o \in Ops : ReleaseStep(o)
  \/ \E i \in Instances : StartResource(i) \/ DestroyResource(i)

Spec == Init /\ [][Next]_vars

---------------------------------------------------------------------------
(* Properties *)

InState(state) == {o \in Ops : reservations[o].state = state}
Charged(state, d) == SumFunctionOnSet([o \in Ops |-> reservations[o].amount[d]], InState(state))

\* The counters are exactly the sums of the reservations in either state: no
\* amount is charged twice, refunded twice or left behind, whatever is
\* repeated, cancelled or refused.
ChargesAddUp ==
  \A d \in Dims : tenant.reserved[d] = Charged("reserved", d) /\ tenant.used[d] = Charged("consumed", d)

\* A resource that lives is charged: its quota is not handed out again before
\* the owner has destroyed that very incarnation.
LiveIsCharged ==
  \A i \in Instances : owner[i] = "live" => \E r \in Ops : reservations[r].state = "consumed" /\ reservations[r].instance = i

\* An amount is put to use only within the limits and the profile of the
\* policy of that moment, counting everything reserved and used, although
\* the policy may be tightened between a reservation and its use.
UsedWithinPolicy ==
  \A d \in Dims : tenant'.used[d] > tenant.used[d] =>
    tenant'.used[d] + tenant'.reserved[d] <= tenant.limits[d]

\* What a model has consumed is never given back.
SpentIsSpent == tenant'.used["tokens"] >= tenant.used["tokens"]

\* No limit is ever above what any earlier policy allowed.
NeverRelaxed == \A d \in Dims : tenant'.limits[d] <= tenant.limits[d]

\* The version counts the receipts: an operation takes effect once, however
\* often it is sent, and none takes effect without its receipt.
OneEffectEach == tenant.version = 1 + Cardinality({o \in Ops : ~Fresh(o)})
=============================================================================
