----------------------------- MODULE NativeQuota -----------------------------
(***************************************************************************)
(* The native authority and quota of internal/modelgateway (native_*.go):  *)
(* fences, grants, reservations and the accounting projections of one      *)
(* user's budget, kept in one object of the native storage.  Every call is *)
(* one transaction over that state followed by a durability barrier; the   *)
(* storage may lose a commit that has not passed its barrier, and a caller *)
(* may lose the answer of one that has.  The bridge reads the Session's    *)
(* and the ledger's facts in steps of their own before it projects them.   *)
(*                                                                         *)
(* Every invocation reserves one unit and all belong to one turn, so there *)
(* is one fence.  The Session's effects are external.                      *)
(***************************************************************************)
EXTENDS Naturals, FiniteSets

CONSTANTS
    Invocations, Callers, None,
    Limit,          \* NativeQuotaLimit.MaximumTokens, in units
    MaxGen,         \* bound on generations
    MaximumRecords, \* NativeFactoryConfig.MaximumRecords
    MaxCrashes      \* bound on storage crashes

LimitAssumption == Limit \in Nat /\ Limit < Cardinality(Invocations)

VARIABLES
    state,      \* the object as transactions see it
    stable,     \* the object as of the last barrier
    epoch,      \* storage crashes so far
    caller,     \* what each caller is doing
    live,       \* the bearers whose grant has not expired
    session     \* the Session's own record of each invocation

vars == <<state, stable, epoch, caller, live, session>>

Generations == 1..MaxGen
Grants == [inv : Invocations, gen : Generations]
NoReservation == 0
NoProjection == [found |-> FALSE, disposition |-> "none"]
NewState == [fence |-> 0, grants |-> {}, reserved |-> [i \in Invocations |-> NoReservation],
             projected |-> [i \in Invocations |-> NoProjection]]
Idle == [pc |-> "idle", grant |-> [inv |-> None, gen |-> 1], epoch |-> 0,
         record |-> NoProjection]

Init ==
    /\ state = NewState /\ stable = NewState /\ epoch = 0
    /\ caller = [c \in Callers |-> Idle]
    /\ live = Grants
    /\ session = [i \in Invocations |-> "absent"]

-----------------------------------------------------------------------------
(* nativeModelOperation: the transaction commits, then the barrier is      *)
(* confirmed; an answer is published only after both.                      *)

Charge(s, i) ==
    IF s.reserved[i] = NoReservation \/ s.projected[i].disposition = "release" THEN 0 ELSE 1
Reserved(s) == Cardinality({i \in Invocations : Charge(s, i) = 1})

Records(s) ==
    (IF s.fence = 0 THEN 0 ELSE 1) + Cardinality(s.grants)
        + Cardinality({i \in Invocations : s.reserved[i] # NoReservation})
        + Cardinality({i \in Invocations : s.projected[i] # NoProjection})

\* Checked on every read and every write of the object.
ValidState(s) ==
    /\ Records(s) <= MaximumRecords
    /\ s.grants # {} => s.fence # 0
    /\ \A i \in Invocations :
        /\ s.reserved[i] # NoReservation => [inv |-> i, gen |-> s.reserved[i]] \in s.grants
        /\ s.projected[i] # NoProjection => s.reserved[i] # NoReservation
        /\ s.projected[i].disposition \in {"consume", "release"} => s.projected[i].found
    /\ Reserved(s) <= Limit

Commits(c, new, to) ==
    /\ state' = new
    /\ caller' = [caller EXCEPT ![c] = [to EXCEPT !.epoch = epoch]]
    /\ UNCHANGED <<stable, epoch, live, session>>

BarrierHolds(c) == state

\* A read is a transaction too, and its barrier confirms what it saw.
ReadsDurably(c, to) ==
    /\ stable' = state
    /\ caller' = [caller EXCEPT ![c] = to]
    /\ UNCHANGED <<state, epoch, live, session>>

\* The barrier of a commit the storage has lost is refused.
DurabilityBarrier(c) ==
    /\ caller[c].pc \in {"admitting", "projecting"}
    /\ IF caller[c].epoch = epoch
       THEN /\ stable' = BarrierHolds(c)
            /\ caller' = [caller EXCEPT ![c] = IF @.pc = "admitting" THEN [@ EXCEPT !.pc = "admitted"] ELSE Idle]
       ELSE /\ caller' = [caller EXCEPT ![c] = Idle] /\ UNCHANGED stable
    /\ UNCHANGED <<state, epoch, live, session>>

StorageCrash ==
    /\ epoch < MaxCrashes
    /\ epoch' = epoch + 1
    /\ state' = stable
    /\ UNCHANGED <<stable, caller, live, session>>

\* A caller gives up: its answer was late or its process stopped.
Abandon(c) ==
    /\ caller[c].pc # "idle"
    /\ caller' = [caller EXCEPT ![c] = Idle]
    /\ UNCHANGED <<state, stable, epoch, live, session>>

-----------------------------------------------------------------------------
(* Provisioning: trusted operations of the operator, committed and         *)
(* confirmed in one step.                                                  *)

Provision(new) == ValidState(new) /\ state' = new /\ stable' = new /\ UNCHANGED <<epoch, caller, live, session>>

FenceMayMove(g) == g >= state.fence

SetCurrentAuthority(g) == FenceMayMove(g) /\ Provision([state EXCEPT !.fence = g])

ProvisionGrant(grant) ==
    /\ grant \in live /\ grant \notin state.grants
    /\ state.fence \in {0, grant.gen}
    /\ Provision([state EXCEPT !.fence = grant.gen, !.grants = @ \cup {grant}])

Expire(grant) ==
    /\ grant \in state.grants \cap live
    /\ live' = live \ {grant}
    /\ UNCHANGED <<state, stable, epoch, caller, session>>

-----------------------------------------------------------------------------
(* Admission: the gateway validates the bearer, then asks for quota.       *)

CurrentGrant(grant) == state.fence = grant.gen /\ grant \in state.grants

ValidateAdmission(c, grant) ==
    /\ caller[c].pc = "idle"
    /\ CurrentGrant(grant) /\ grant \in live
    /\ ReadsDurably(c, [Idle EXCEPT !.pc = "validated", !.grant = grant])

RechecksGrant(grant) == CurrentGrant(grant) /\ grant \in live

Fits(s) == Reserved(s) + 1 <= Limit

\* nativeQuota.Admit: the same request finds its reservation, another request
\* of the invocation conflicts.
Admit(c) ==
    LET grant == caller[c].grant
        old == state.reserved[grant.inv]
        new == [state EXCEPT !.reserved[grant.inv] = grant.gen]
    IN /\ caller[c].pc = "validated"
       /\ IF /\ old \in {NoReservation, grant.gen} /\ RechecksGrant(grant) /\ (old # NoReservation \/ Fits(state))
             /\ ValidState(new)
          THEN Commits(c, new, [caller[c] EXCEPT !.pc = "admitting"])
          ELSE /\ caller' = [caller EXCEPT ![c] = Idle]
               /\ UNCHANGED <<state, stable, epoch, live, session>>

-----------------------------------------------------------------------------
(* The Session: an admitted invocation may be dispatched, and ends.        *)

Dispatch(c) ==
    LET i == caller[c].grant.inv
    IN /\ caller[c].pc = "admitted" /\ session[i] \in {"absent", "prepared"}
       /\ \E s \in {"prepared", "dispatched"} : session' = [session EXCEPT ![i] = s]
       /\ caller' = [caller EXCEPT ![c] = Idle]
       /\ UNCHANGED <<state, stable, epoch, live>>

\* A prepared effect recovers as failed before dispatch; a dispatched one
\* completes, fails or is left interrupted.
SessionEnds(i) ==
    /\ \/ session[i] = "prepared" /\ session' = [session EXCEPT ![i] = "never_dispatched"]
       \/ /\ session[i] = "dispatched"
          /\ \E s \in {"completed", "failed", "interrupted"} : session' = [session EXCEPT ![i] = s]
    /\ UNCHANGED <<state, stable, epoch, caller, live>>

-----------------------------------------------------------------------------
(* NativeSessionQuotaBridge.Reconcile.                                     *)

InspectReservation(c, i) ==
    /\ caller[c].pc = "idle" /\ state.reserved[i] # NoReservation
    /\ ReadsDurably(c, [Idle EXCEPT !.pc = "inspected", !.grant = [inv |-> i, gen |-> state.reserved[i]]])

Settled == {"never_dispatched", "completed", "failed", "interrupted"}

\* Only an exact committed result consumes; only a recovery that proves no
\* attempt was dispatched releases.
Disposition(s) == IF s = "completed" THEN "consume" ELSE IF s = "never_dispatched" THEN "release" ELSE "hold"

\* The Session's operation and, for a success, the ledger's terminal facts.
ReadSessionFacts(c) ==
    LET s == session[caller[c].grant.inv]
    IN /\ caller[c].pc = "inspected"
       /\ caller' = [caller EXCEPT ![c].pc = "read",
                                   ![c].record = [found |-> s \in Settled, disposition |-> Disposition(s)]]
       /\ UNCHANGED <<state, stable, epoch, live, session>>

\* A projection is repeated exactly, or resolves a hold.  One settlement has
\* one event sequence, so a hold that was found is not replaced.
MayProject(old, new) ==
    \/ old \in {NoProjection, new}
    \/ old.disposition = "hold" /\ new.disposition # "hold" /\ ~old.found

Project(c) ==
    LET i == caller[c].grant.inv
        record == caller[c].record
        new == [state EXCEPT !.projected[i] = record]
    IN /\ caller[c].pc = "read"
       /\ IF state.reserved[i] = caller[c].grant.gen /\ MayProject(state.projected[i], record) /\ ValidState(new)
          THEN Commits(c, new, [caller[c] EXCEPT !.pc = "projecting"])
          ELSE /\ caller' = [caller EXCEPT ![c] = Idle]
               /\ UNCHANGED <<state, stable, epoch, live, session>>

-----------------------------------------------------------------------------
Work(c) ==
    \/ \E grant \in Grants : ValidateAdmission(c, grant)
    \/ Admit(c) \/ DurabilityBarrier(c) \/ Dispatch(c) \/ Abandon(c)
    \/ \E i \in Invocations : InspectReservation(c, i)
    \/ ReadSessionFacts(c) \/ Project(c)

Next ==
    \/ \E c \in Callers : Work(c)
    \/ \E g \in Generations : SetCurrentAuthority(g)
    \/ \E grant \in Grants : ProvisionGrant(grant) \/ Expire(grant)
    \/ \E i \in Invocations : SessionEnds(i)
    \/ StorageCrash

Spec == Init /\ [][Next]_vars

-----------------------------------------------------------------------------
(* Properties.                                                             *)

(* The invocations the provider may have served never cost more than the   *)
(* limit: quota is reserved before a dispatch and given back only for an   *)
(* invocation that was never dispatched (native_quota.go, Admit;           *)
(* native_session_quota.go, Reconcile).                                    *)
SpendWithinLimit ==
    Cardinality({i \in Invocations : session[i] \in {"dispatched", "completed", "failed", "interrupted"}}) <= Limit

(* What was published is kept: an invocation whose admission was answered  *)
(* is reserved in the state a storage crash returns to (native_state.go,   *)
(* nativeModelOperation).                                                  *)
PublishedIsKept ==
    \A c \in Callers : caller[c].pc = "admitted" => stable.reserved[caller[c].grant.inv] = caller[c].grant.gen

(* A consumed or released reservation stays so once its barrier has passed *)
(* (native_session_quota.go, Reconcile).                                   *)
AccountingIsFinal ==
    \A i \in Invocations :
        stable.projected[i].disposition \in {"consume", "release"} => stable'.projected[i] = stable.projected[i]

(* A reservation is made only under the generation current at that moment  *)
(* and a grant that has not expired, although the bearer was validated in  *)
(* an earlier call (native_quota.go, Admit; native_authority.go,           *)
(* currentGrant).                                                          *)
ReservedUnderCurrentFence ==
    \A i \in Invocations :
        state.reserved[i] = NoReservation /\ state'.reserved[i] # NoReservation =>
            [inv |-> i, gen |-> state'.reserved[i]] \in live /\ state'.reserved[i] = state.fence

(* No transaction, provisioning or storage crash takes the fence back to   *)
(* an older generation (native_authority.go, SetCurrentAuthority).         *)
FenceNeverFallsBack == state'.fence >= state.fence
=============================================================================
