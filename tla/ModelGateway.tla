---------------------------- MODULE ModelGateway ----------------------------
(***************************************************************************)
(* The executor half of internal/modelgateway: owners of one model effect  *)
(* dispatch it, stream its answer, cancel it, retrieve it after a          *)
(* take-over and settle its quota (executor.go, gateway.go), each from a   *)
(* snapshot it read, through the compare-and-swap of the durable           *)
(* coordinator.  The coordinator, the quota service and the provider are   *)
(* external; they do what the interfaces in types.go require of them.      *)
(*                                                                         *)
(* An owner may stop at any point and lose everything but the durable      *)
(* record; a later owner has a fresh generation.                           *)
(*                                                                         *)
(* The machine comes first: the check every operation makes of a snapshot  *)
(* (gateway.go, validateEffect) and Apply (machine.go), one operator per   *)
(* event; its result is the set of snapshots it may return, empty when it  *)
(* refuses.                                                                *)
(* A snapshot keeps what the control depends on: whether the provider's    *)
(* request identity is known, whether output has been streamed, whether a  *)
(* failure reason is set, and the revision the two permits are bound to.   *)
(* EventCount is rev - 1, the outcome is the terminal state itself, and    *)
(* the scope, digest, tokens and byte counts of a snapshot never change.   *)
(***************************************************************************)
EXTENDS Naturals, FiniteSets

CONSTANTS
    MaxEvents,              \* Bounds.MaxEvents
    MaxPreDispatchRetries,  \* the grant's
    Retrieval,              \* the provider offers durable retrieval
    Owners,
    MaxTakeovers,   \* bound on generation changes
    MaxFaults       \* bound on owners that stop and on writes that fail

\* newGatewayConfiguration and Admit refuse a smaller event budget.
BudgetAssumption ==
    /\ MaxEvents \in Nat /\ MaxPreDispatchRetries \in Nat
    /\ Retrieval \in BOOLEAN
    /\ MaxEvents >= 2 * MaxPreDispatchRetries + (IF Retrieval THEN 5 ELSE 4)

Active == {"dispatching", "dispatched", "streaming"}
Terminal == {"completed", "failed", "cancelled", "uncertain"}
States == Active \cup Terminal \cup {"admitted", "retry_pending", "cancellation_pending"}

\* A permit records the revision it was claimed at; 0 is the zero value.
NoCancel == [rev |-> 0, prevented |-> FALSE]
NoResume == [rev |-> 0, gen |-> 0]

Admitted == [state |-> "admitted", rev |-> 1, attempt |-> 0, id |-> FALSE,
             partial |-> FALSE, reason |-> FALSE, cancel |-> NoCancel, recovery |-> NoResume]

-----------------------------------------------------------------------------
(* The check of a snapshot.                                                *)

\* The events that must still fit after the snapshot is stored.
MinimumTerminalEvents(e) ==
    CASE e.state = "dispatching" -> IF Retrieval THEN 4 ELSE 3
      [] e.state \in {"dispatched", "streaming"} -> IF Retrieval THEN 3 ELSE 2
      [] e.state = "cancellation_pending" -> IF Retrieval THEN 2 ELSE 1
      [] e.state \in {"admitted", "retry_pending"} -> 1
      [] OTHER -> 0

Affordable(e) == e.state \in Terminal \/ e.rev - 1 + MinimumTerminalEvents(e) <= MaxEvents

ValidCancellationPermit(e, p) ==
    \/ p.rev = e.rev
    \/ p = e.cancel /\ p.rev + 1 = e.rev

ValidResumePermit(e, p) == e.id /\ (p.rev = e.rev \/ p = e.recovery)

Clean(e) == e.cancel = NoCancel /\ e.recovery = NoResume

ValidEffect(e) ==
    /\ e.rev - 1 <= MaxEvents /\ e.attempt <= MaxPreDispatchRetries + 1
    /\ e.cancel # NoCancel => ValidCancellationPermit(e, e.cancel)
    /\ e.recovery # NoResume => ValidResumePermit(e, e.recovery)
    /\ CASE e.state = "admitted" -> e.attempt = 0 /\ e.rev = 1 /\ ~e.id /\ ~e.partial /\ ~e.reason /\ Clean(e)
         [] e.state = "dispatching" -> e.attempt > 0 /\ ~e.id /\ ~e.partial /\ ~e.reason /\ Clean(e)
         [] e.state = "retry_pending" -> e.attempt > 0 /\ ~e.id /\ ~e.partial /\ e.reason /\ Clean(e)
         [] e.state = "dispatched" -> e.attempt > 0 /\ e.id /\ ~e.partial /\ ~e.reason /\ Clean(e)
         [] e.state = "streaming" -> e.attempt > 0 /\ e.id /\ e.partial /\ ~e.reason /\ e.cancel = NoCancel
         [] e.state = "cancellation_pending" -> e.attempt > 0 /\ (e.partial => e.id) /\ Clean(e)
         [] e.state = "completed" -> e.attempt > 0 /\ e.id /\ ~e.reason /\ e.cancel = NoCancel
         [] e.state = "failed" -> e.attempt > 0 /\ ~e.partial /\ e.reason /\ e.cancel = NoCancel
         [] e.state = "cancelled" -> /\ ~e.id /\ ~e.partial /\ ~e.reason /\ e.recovery = NoResume
                                     /\ e.cancel # NoCancel => e.cancel.prevented
         [] e.state = "uncertain" -> /\ e.attempt > 0 /\ (e.partial => e.id) /\ ~e.cancel.prevented
                                     /\ e.cancel = NoCancel \/ e.recovery = NoResume
    /\ Affordable(e)

-----------------------------------------------------------------------------
(* Apply.  The guards shared by all events, and the event budget of the    *)
(* snapshot it would return.                                               *)

Room(e, n) == Affordable(n)

Apply(e, ok, change) ==
    LET n == [change EXCEPT !.rev = e.rev + 1]
    IN IF ValidEffect(e) /\ e.rev - 1 < MaxEvents /\ ok /\ Room(e, n) THEN {n} ELSE {}

\* An event carrying a resume permit must match it, and once a snapshot holds
\* one, every provider event must carry it.
Recovers(e, r) ==
    /\ r # NoResume => ValidResumePermit(e, r)
    /\ e.recovery # NoResume => r # NoResume

Streams(e, r) == e.state \in {"dispatched", "streaming"} \/ (e.state = "uncertain" /\ r # NoResume)
WithRecovery(e, r) == IF r = NoResume THEN e ELSE [e EXCEPT !.recovery = r]

BeginDispatch(e) ==
    Apply(e, e.state \in {"admitted", "retry_pending"} /\ e.attempt < MaxPreDispatchRetries + 1,
          [e EXCEPT !.state = "dispatching", !.attempt = @ + 1, !.reason = FALSE])

ProviderAccepted(e) ==
    Apply(e, e.state = "dispatching" /\ ~e.id /\ ~e.partial, [e EXCEPT !.state = "dispatched", !.id = TRUE])

Delta(e, r) ==
    Apply(e, Recovers(e, r) /\ Streams(e, r),
          [WithRecovery(e, r) EXCEPT !.state = "streaming", !.partial = TRUE,
                                     !.reason = IF r = NoResume THEN @ ELSE FALSE])

ResponseCompleted(e, r) ==
    Apply(e, Recovers(e, r) /\ Streams(e, r),
          [WithRecovery(e, r) EXCEPT !.state = "completed", !.reason = IF r = NoResume THEN @ ELSE FALSE])

Failures == {"pre_dispatch", "provider_rejected", "transport_unknown", "after_partial"}

FailureAllowed(e, f, r) ==
    LET recovered == e.state = "uncertain" /\ r # NoResume
    IN CASE f = "pre_dispatch" -> e.state = "dispatching" /\ ~e.id /\ ~e.partial
         [] f = "provider_rejected" -> (e.state \in {"dispatching", "dispatched"} \/ recovered) /\ ~e.partial
         [] f = "transport_unknown" -> e.state \in Active \/ recovered
         [] f = "after_partial" -> (e.state = "streaming" \/ recovered) /\ e.partial

\* Mutant of FailedState: an attempt whose fate is unknown is tried again.
RetriesUnknown(e, f) ==
    IF f \in {"pre_dispatch", "transport_unknown"} /\ ~e.id /\ e.attempt <= MaxPreDispatchRetries
    THEN "retry_pending" ELSE IF f \in {"pre_dispatch", "provider_rejected"} THEN "failed" ELSE "uncertain"
FailedState(e, f) ==
    IF f = "pre_dispatch" /\ e.attempt <= MaxPreDispatchRetries THEN "retry_pending"
    ELSE IF f \in {"pre_dispatch", "provider_rejected"} THEN "failed" ELSE "uncertain"

DispatchFailed(e, f, r) ==
    Apply(e, Recovers(e, r) /\ FailureAllowed(e, f, r),
          [WithRecovery(e, r) EXCEPT !.state = FailedState(e, f), !.reason = TRUE])

CancelRequested(e) ==
    Apply(e, e.state \in Active \cup {"admitted", "retry_pending"},
          IF e.state \in Active THEN [e EXCEPT !.state = "cancellation_pending"]
          ELSE [e EXCEPT !.state = "cancelled", !.reason = FALSE])

Prevented(c) == c.prevented

\* The resolution carries the coordinator's permit, or none when it was lost.
CancellationResolved(e, c) ==
    Apply(e, /\ e.state = "cancellation_pending"
             /\ c # NoCancel => ValidCancellationPermit(e, c)
             /\ c.prevented => ~e.id /\ ~e.partial,
          [e EXCEPT !.state = IF Prevented(c) THEN "cancelled" ELSE "uncertain", !.cancel = c])

-----------------------------------------------------------------------------
(* The owners, the coordinator, the quota and the provider.                *)

VARIABLES
    durable,    \* the stored snapshot
    stage,      \* the coordinator's dispatch claim of each attempt
    owner,      \* what each owner is doing, and the snapshot it holds
    quota,      \* the reservation's settlement
    decision,   \* the durable resolution of an uncertain request
    gen,        \* the current owner generation
    provider,   \* how many requests it received, and whether it rejected one
    faults

vars == <<durable, stage, owner, quota, decision, gen, provider, faults>>

Attempts == 1..(MaxPreDispatchRetries + 1)
Idle == [pc |-> "idle", e |-> Admitted, c |-> NoCancel, r |-> NoResume, resolves |-> "no"]
NoSettlement == [disposition |-> "none", e |-> Admitted, resolution |-> "no"]

Init ==
    /\ durable = Admitted
    /\ stage = [a \in Attempts |-> "free"]
    /\ owner = [o \in Owners |-> Idle]
    /\ quota = NoSettlement
    /\ decision = "no"
    /\ gen = 1
    /\ provider = [sent |-> 0, rejected |-> FALSE]
    /\ faults = 0

Becomes(o, pc, e, c, r) ==
    owner' = [owner EXCEPT ![o] = [Idle EXCEPT !.pc = pc, !.e = e, !.c = c, !.r = r]]
GoesIdle(o) == owner' = [owner EXCEPT ![o] = Idle]

-----------------------------------------------------------------------------
(* ExecuteDispatch.                                                        *)

\* CommitAndClaimDispatch: the scope of the effect is still current, the
\* revision is the one before, and nobody has claimed the attempt.
CommitAndClaimDispatch(o) ==
    /\ owner[o].pc = "idle" /\ gen = 1
    /\ \E n \in BeginDispatch(durable) :
        /\ stage[n.attempt] = "free"
        /\ durable' = n
        /\ stage' = [stage EXCEPT ![n.attempt] = "claimed"]
        /\ Becomes(o, "claimed", n, NoCancel, NoResume)
    /\ UNCHANGED <<quota, decision, gen, provider, faults>>

MayStart(a) == stage[a] = "claimed"

BeginProviderDispatch(o) ==
    LET e == owner[o].e
    IN /\ owner[o].pc = "claimed"
       /\ IF MayStart(e.attempt)
          THEN /\ stage' = [stage EXCEPT ![e.attempt] = "started"]
               /\ owner' = [owner EXCEPT ![o].pc = "calling"]
          ELSE /\ GoesIdle(o) /\ UNCHANGED stage
       /\ UNCHANGED <<durable, quota, decision, gen, provider, faults>>

\* The provider's answer: the request was sent or not, and the answer names
\* its identity, names it with an error, says it was never sent, or neither.
Answers == {[sent |-> TRUE, reply |-> "id"], [sent |-> TRUE, reply |-> "id_error"],
            [sent |-> TRUE, reply |-> "unknown"], [sent |-> FALSE, reply |-> "unknown"],
            [sent |-> FALSE, reply |-> "not_sent"]}

FailureClass(a) == IF a.reply = "not_sent" THEN "pre_dispatch" ELSE "transport_unknown"

\* An answer with an identity is recorded before anything else is done.
Dispatch(o, a) ==
    LET e == owner[o].e
    IN /\ owner[o].pc = "calling"
       /\ provider' = IF a.sent THEN [provider EXCEPT !.sent = @ + 1] ELSE provider
       /\ IF a.reply \in {"id", "id_error"}
          THEN \E n \in ProviderAccepted(e) :
                 Becomes(o, IF a.reply = "id" THEN "accepting" ELSE "accepting_error", n, NoCancel, NoResume)
          ELSE \E n \in DispatchFailed(e, FailureClass(a), NoResume) : Becomes(o, "applied", n, NoCancel, NoResume)
       /\ UNCHANGED <<durable, stage, quota, decision, gen, faults>>

\* CommitProviderAccepted.  A lost race leaves the owner without a stream; an
\* accepted request whose call failed is classified as unknown.
CommitProviderAccepted(o) ==
    LET e == owner[o].e
    IN /\ owner[o].pc \in {"accepting", "accepting_error"}
       /\ IF durable.rev + 1 = e.rev
          THEN /\ durable' = e
               /\ IF owner[o].pc = "accepting"
                  THEN Becomes(o, "streaming", e, NoCancel, NoResume)
                  ELSE \E n \in DispatchFailed(e, "transport_unknown", NoResume) :
                         Becomes(o, "applied", n, NoCancel, NoResume)
          ELSE /\ GoesIdle(o) /\ UNCHANGED durable
       /\ UNCHANGED <<stage, quota, decision, gen, provider, faults>>

-----------------------------------------------------------------------------
(* The normalized stream: each event is applied to the owner's snapshot.   *)

\* The events a provider's stream may deliver.
StreamEvent(e, r) ==
    Delta(e, r) \cup ResponseCompleted(e, r)
      \cup UNION {DispatchFailed(e, f, r) : f \in {"provider_rejected", "transport_unknown", "after_partial"}}

Stream(o) ==
    /\ owner[o].pc = "streaming"
    /\ \E n \in StreamEvent(owner[o].e, owner[o].r) :
        /\ Becomes(o, "applied", n, NoCancel, owner[o].r)
        /\ provider' = IF n.state = "failed" THEN [provider EXCEPT !.rejected = TRUE] ELSE provider
    /\ UNCHANGED <<durable, stage, quota, decision, gen, faults>>

\* The stream ends or fails, or its event is refused: the snapshot stays.
StreamEnds(o) ==
    /\ owner[o].pc = "streaming"
    /\ GoesIdle(o)
    /\ UNCHANGED <<durable, stage, quota, decision, gen, provider, faults>>

\* The caller stores the snapshot Apply returned; an older one loses.  A
\* terminal snapshot may instead be stored by its settlement.
Store(o) ==
    LET e == owner[o].e
    IN /\ owner[o].pc = "applied"
       /\ IF durable.rev + 1 = e.rev
          THEN /\ durable' = e
               /\ IF e.state \in {"dispatched", "streaming"}
                  THEN owner' = [owner EXCEPT ![o].pc = "streaming"] ELSE GoesIdle(o)
          ELSE /\ GoesIdle(o) /\ UNCHANGED durable
       /\ UNCHANGED <<stage, quota, decision, gen, provider, faults>>

-----------------------------------------------------------------------------
(* ExecuteCancel.                                                          *)

Revokes(s) == s = "claimed"

\* CommitAndClaimCancellation decides the race with BeginProviderDispatch.
ExecuteCancel(o) ==
    /\ owner[o].pc = "idle"
    /\ \E n \in CancelRequested(durable) :
        IF n.state = "cancelled"
        THEN /\ Becomes(o, "applied", n, NoCancel, NoResume) /\ UNCHANGED <<durable, stage>>
        ELSE /\ ValidEffect(n)
             /\ durable' = n
             /\ LET prevented == Revokes(stage[n.attempt])
                IN /\ stage' = IF prevented THEN [stage EXCEPT ![n.attempt] = "cancelled"] ELSE stage
                   /\ Becomes(o, "resolving", n, [rev |-> n.rev, prevented |-> prevented], NoResume)
    /\ UNCHANGED <<quota, decision, gen, provider, faults>>

\* The provider's answer to its Cancel changes nothing: only the permit does.
ResolveCancellation(o) ==
    /\ owner[o].pc = "resolving"
    /\ \E n \in CancellationResolved(owner[o].e, owner[o].c) : Becomes(o, "applied", n, NoCancel, NoResume)
    /\ UNCHANGED <<durable, stage, quota, decision, gen, provider, faults>>

\* An owner that finds a cancellation whose permit was lost resolves it
\* without one, and an abandoned dispatch is classified as unknown.
ResolveAbandoned(o) ==
    /\ owner[o].pc = "idle"
    /\ \E n \in CancellationResolved(durable, NoCancel)
                \cup DispatchFailed(durable, "transport_unknown", durable.recovery) :
        /\ durable.state # "uncertain"
        /\ Becomes(o, "applied", n, NoCancel, NoResume)
    /\ UNCHANGED <<durable, stage, quota, decision, gen, provider, faults>>

-----------------------------------------------------------------------------
(* ResumeProviderRequest: never a new dispatch.                            *)

ResumeProviderRequest(o) ==
    /\ owner[o].pc = "idle" /\ Retrieval /\ ValidEffect(durable)
    /\ durable.id /\ durable.state \in {"dispatched", "streaming", "uncertain"}
    /\ Becomes(o, "streaming", durable, NoCancel, [rev |-> durable.rev, gen |-> gen])
    /\ UNCHANGED <<durable, stage, quota, decision, gen, provider, faults>>

-----------------------------------------------------------------------------
(* AuthorizeSettlement and ResolveUncertain.                               *)

Disposition(e) ==
    CASE e.state = "completed" -> "consume" [] e.state = "uncertain" -> "hold" [] OTHER -> "release"

WinsTerminal(e) == durable = e \/ durable.rev + 1 = e.rev

\* authorizeTerminal: the exact terminal snapshot wins the compare-and-swap,
\* or is already the stored one.  A decision is asked of an uncertain effect.
AuthorizeTerminal(o, resolves) ==
    \E e \in {durable, owner[o].e} :
        /\ owner[o].pc = "idle" => e = durable
        /\ owner[o].pc \in {"idle", "applied"}
        /\ ValidEffect(e) /\ e.state \in Terminal
        /\ resolves # "no" => e.state = "uncertain"
        /\ IF WinsTerminal(e)
           THEN /\ durable' = e
                /\ owner' = [owner EXCEPT ![o] = [Idle EXCEPT !.pc = "authorized", !.e = e, !.resolves = resolves]]
           ELSE GoesIdle(o) /\ UNCHANGED durable
        /\ UNCHANGED <<stage, quota, decision, gen, provider, faults>>

OneDecision(e, d) == decision \in {"no", d}

\* CommitAndClaimUncertainResolution: one decision, of the stored effect.
CommitResolution(o) ==
    LET w == owner[o]
    IN /\ w.pc = "authorized" /\ w.resolves # "no"
       /\ IF durable = w.e /\ OneDecision(w.e, w.resolves)
          THEN decision' = w.resolves /\ owner' = [owner EXCEPT ![o].pc = "decided"]
          ELSE GoesIdle(o) /\ UNCHANGED decision
       /\ UNCHANGED <<durable, stage, quota, gen, provider, faults>>

MayReplace(old, new) ==
    \/ old.disposition = "none"
    \/ old.disposition = "hold" /\ (new.e.recovery # NoResume \/ new.resolution # "no")

\* quota.Settle: an exact replay changes nothing, a hold may be resolved.
SettleQuota(o) ==
    LET w == owner[o]
        new == [disposition |-> IF w.pc = "decided" THEN w.resolves ELSE Disposition(w.e),
                e |-> w.e, resolution |-> w.resolves]
    IN /\ w.pc = "decided" \/ (w.pc = "authorized" /\ w.resolves = "no")
       /\ quota' = IF new # quota /\ MayReplace(quota, new) THEN new ELSE quota
       /\ GoesIdle(o)
       /\ UNCHANGED <<durable, stage, decision, gen, provider, faults>>

-----------------------------------------------------------------------------
(* Faults.                                                                 *)

Crash(o) ==
    /\ faults < MaxFaults /\ owner[o].pc # "idle"
    /\ faults' = faults + 1
    /\ GoesIdle(o)
    /\ UNCHANGED <<durable, stage, quota, decision, gen, provider>>

Takeover ==
    /\ gen <= MaxTakeovers
    /\ gen' = gen + 1
    /\ UNCHANGED <<durable, stage, owner, quota, decision, provider, faults>>

Work(o) ==
    \/ CommitAndClaimDispatch(o) \/ BeginProviderDispatch(o) \/ \E a \in Answers : Dispatch(o, a)
    \/ CommitProviderAccepted(o) \/ Stream(o) \/ StreamEnds(o) \/ Store(o)
    \/ ExecuteCancel(o) \/ ResolveCancellation(o) \/ ResolveAbandoned(o)
    \/ ResumeProviderRequest(o)
    \/ \E d \in {"no", "consume", "release"} : AuthorizeTerminal(o, d)
    \/ CommitResolution(o) \/ SettleQuota(o)

Next == (\E o \in Owners : Work(o) \/ Crash(o)) \/ Takeover

Spec == Init /\ [][Next]_vars

-----------------------------------------------------------------------------
(* Properties.                                                             *)

(* At most one request ever reaches the provider, whatever is retried,      *)
(* cancelled, retrieved or taken over: only a dispatch the provider says   *)
(* was never sent is tried again (executor.go, ExecuteDispatch and         *)
(* ResumeProviderRequest; machine.go, FailurePreDispatch).                 *)
SentOnce == provider.sent <= 1

(* A stored cancellation means the provider never saw the request: the     *)
(* claim was revoked before BeginProviderDispatch could start it           *)
(* (executor.go, ExecuteCancel).                                           *)
CancelledNeverSent == durable.state = "cancelled" => provider.sent = 0

(* Without an operator's decision, quota is given back only for a request  *)
(* the provider never received or rejected (gateway.go,                    *)
(* AuthorizeSettlement).                                                   *)
ReleaseIsDeserved ==
    quota.disposition = "release" /\ quota.resolution = "no" => provider.sent = 0 \/ provider.rejected

(* Quota is consumed or released for the stored snapshot and no other      *)
(* branch of the same revision, and for good (gateway.go,                  *)
(* authorizeTerminal: the terminal snapshot wins the compare-and-swap      *)
(* before quota moves).                                                    *)
SettledIsDurable ==
    quota.disposition \in {"consume", "release"} /\ quota.resolution = "no" => durable = quota.e

(* An operator's decision is final: quota settled under a decision agrees  *)
(* with the one recorded (gateway.go, ResolveUncertain).                   *)
DecisionStands == quota.resolution # "no" => quota.resolution = decision /\ quota.disposition = decision

(* The event budget always leaves room to cancel an active request, to     *)
(* classify the cancellation and, where the provider keeps results, to     *)
(* retrieve one (gateway.go, minimumTerminalEvents and Admit).             *)
BudgetSuffices ==
    durable.state \in Active /\ durable.recovery = NoResume =>
        \E n \in CancelRequested(durable) : \E m \in CancellationResolved(n, NoCancel) :
            m.id /\ Retrieval => ResponseCompleted(m, [rev |-> m.rev, gen |-> gen]) # {}

=============================================================================
