----------------------------- MODULE McpMachine -----------------------------
(***************************************************************************)
(* The effect machine of the MCP gateway (internal/mcpgateway/machine.go): *)
(* one durable record per tool call, and Apply, the pure function from a   *)
(* record and an event to the next record.  Apply refuses an event that    *)
(* does not fit the state, and one that would leave too few events of the  *)
(* record's budget for the steps its outcome still needs                   *)
(* (minimumRemainingEvents).                                               *)
(*                                                                         *)
(* MachineSpec is the machine alone, under every sequence of events that   *)
(* the gateway's operations may send it: what the budget of the record has *)
(* to withstand, and the abstract specification that McpGateway, which     *)
(* drives it from the gateway's operations, implements.                    *)
(*                                                                         *)
(* Identifiers, outputs and reasons are abstracted to whether they are     *)
(* there: a provider has one request identifier per attempt, so two        *)
(* identifiers of one attempt never differ.                                *)
(***************************************************************************)
EXTENDS Naturals, Sequences, FiniteSets

CONSTANTS
    Policies,                \* the replay policies of the registered tools
    MaxAutomaticRetries,     \* of the tool's registration
    MaxConfirmationRetries,  \* of the tool's registration
    MaxChunks,               \* Bounds.MaxChunks
    MaxEvents                \* Bounds.MaxEvents

VARIABLE effect              \* the durable record of the call

ReplayPolicies == {"safe", "idempotency_key", "never", "confirm"}

(* What the state of a tool call may be, and what an attempt failed with.  *)
States == {"admitted", "dispatching", "dispatched", "streaming", "retry_pending",
           "cancellation_pending", "externally_committed", "completed",
           "needs_confirmation", "failed", "uncertain", "cancelled"}

Failures == {"none", "definitely_not_sent", "rejected", "ledger_absent",
             "external_failed", "unknown"}

Attempt == [negotiated: BOOLEAN,   \* Negotiation # the zero receipt
            id: BOOLEAN,           \* ProviderRequestID # ""
            output: BOOLEAN,       \* HadOutput
            failure: Failures]

NewAttempt == [negotiated |-> FALSE, id |-> FALSE, output |-> FALSE, failure |-> "none"]

(* newGateway: the events a registration needs at least.                   *)
RequiredEvents(policy) ==
    MaxChunks + CASE policy \in {"safe", "idempotency_key"} -> 4 * MaxAutomaticRetries + 10
                  [] policy = "never" -> 3 * MaxAutomaticRetries + 10
                  [] policy = "confirm" ->
                        3 * MaxAutomaticRetries + 10 * MaxConfirmationRetries + 12

RegistrationAccepted ==
    /\ Policies \subseteq ReplayPolicies
    /\ MaxAutomaticRetries \in Nat /\ MaxConfirmationRetries \in Nat
    /\ MaxChunks \in Nat \ {0} /\ MaxEvents \in Nat /\ MaxEvents >= 8
    /\ "confirm" \in Policies => MaxConfirmationRetries > 0
    /\ \A policy \in Policies : RequiredEvents(policy) <= MaxEvents

(* Gateway.Admit: the record of a new call.  An idempotency-key tool needs *)
(* a server that has the ledger and takes the key (checkAvailability).     *)
NewEffect(policy, hasLedger) ==
    [state |-> "admitted", policy |-> policy, ledger |-> hasLedger,
     automatic |-> 0, confirmed |-> 0, attempts |-> <<>>, chunks |-> 0,
     output |-> FALSE, commitID |-> FALSE, reason |-> FALSE,
     cancel |-> FALSE, events |-> 0]

Admissible(policy, hasLedger) == policy = "idempotency_key" => hasLedger

HasAttempt(e) == e.attempts # <<>>
Current(e) == e.attempts[Len(e.attempts)]

WithCurrent(e, field, value) ==
    [e EXCEPT !.attempts[Len(e.attempts)] = [@ EXCEPT ![field] = value]]

WithFailure(e, class, to) ==
    [WithCurrent(e, "failure", class) EXCEPT !.reason = TRUE, !.state = to]

FailedUnknown(e) == e.state = "failed" /\ HasAttempt(e) /\ Current(e).failure = "unknown"

Terminal(e) == e.state \in {"completed", "failed", "uncertain", "cancelled"}

-----------------------------------------------------------------------------
(* minimumRemainingEvents: what the outcome of this record may still need. *)
Larger(a, b) == IF a > b THEN a ELSE b

Envelope(e) ==
    LET automatic == MaxAutomaticRetries - e.automatic
        confirmation == MaxConfirmationRetries - e.confirmed
        known == HasAttempt(e) /\ Current(e).id
        base == 3 * automatic + 10 * confirmation
        knownRequested == IF confirmation > 0 THEN base + 3 ELSE 3
        requestedConfirmation == IF known THEN knownRequested ELSE knownRequested + 3
        requestedUnknown == IF known THEN 2
                            ELSE IF e.policy = "confirm" THEN knownRequested + 2 ELSE 4
        pending == 1 + (IF e.policy = "confirm" THEN requestedConfirmation
                                                ELSE requestedUnknown)
        dispatched == CASE e.policy = "confirm" -> knownRequested + 4
                        [] e.policy \in {"safe", "idempotency_key"} /\ automatic > 0
                                -> 4 * automatic + 7
                        [] OTHER -> 6
        late == Larger(IF known THEN 2 ELSE dispatched + 1, pending + 1)
    IN [automatic |-> automatic, base |-> base, knownRequested |-> knownRequested,
        requestedConfirmation |-> requestedConfirmation,
        requestedUnknown |-> requestedUnknown, pending |-> pending,
        dispatched |-> dispatched, late |-> late]

DispatchReserve(e, v, phase) ==
    CASE e.policy \in {"safe", "idempotency_key"} -> 4 * v.automatic + phase
      [] e.policy = "never" -> 3 * v.automatic + phase
      [] e.policy = "confirm" -> v.base + phase + 2

MinimumRemainingEvents(e) ==
    LET v == Envelope(e)
        unresolved == IF e.cancel THEN v.requestedUnknown ELSE v.late
    IN CASE e.state \in {"completed", "cancelled"} -> 0
         [] e.state = "externally_committed" -> 1
         [] e.state = "failed" -> IF FailedUnknown(e) THEN unresolved ELSE 0
         [] e.state = "uncertain" -> unresolved
         [] e.state = "cancellation_pending" -> v.pending
         [] e.state = "needs_confirmation" ->
                IF e.cancel THEN v.requestedConfirmation
                ELSE Larger(v.late + (IF Current(e).failure = "ledger_absent" THEN 0 ELSE 1),
                            v.knownRequested)
         [] e.state \in {"admitted", "retry_pending"} -> DispatchReserve(e, v, 10)
         [] e.state = "dispatching" ->
                DispatchReserve(e, v, IF Current(e).negotiated THEN 8 ELSE 9)
         [] e.state \in {"dispatched", "streaming"} -> v.dispatched

-----------------------------------------------------------------------------
(* The transitions: the set of records an event leads to, empty when the   *)
(* machine refuses it (ErrInvalidTransition, ErrLedgerMismatch,            *)
(* ErrOutputLimit).  The budget is applied by Apply below.                 *)

BeginDispatch(e) ==
    IF /\ e.state \in {"admitted", "retry_pending"} /\ ~e.cancel
       /\ Len(e.attempts) < 1 + e.automatic + e.confirmed
    THEN {[e EXCEPT !.attempts = Append(@, NewAttempt), !.state = "dispatching",
                    !.reason = FALSE]}
    ELSE {}

Unanswered(e) ==
    e.state = "dispatching" /\ Current(e).failure = "none" /\ ~Current(e).id /\ ~Current(e).output

NegotiationRecorded(e) ==
    IF Unanswered(e) /\ ~Current(e).negotiated
    THEN {WithCurrent(e, "negotiated", TRUE)} ELSE {}

ProviderAccepted(e) ==
    IF Unanswered(e) /\ Current(e).negotiated
    THEN {[WithCurrent(e, "id", TRUE) EXCEPT !.state = "dispatched"]} ELSE {}

OutputChunk(e) ==
    IF e.state \in {"dispatched", "streaming"} /\ Current(e).id /\ e.chunks < MaxChunks
    THEN {[WithCurrent(e, "output", TRUE) EXCEPT !.chunks = @ + 1, !.state = "streaming"]}
    ELSE {}

Committed(e, commitID) ==
    [e EXCEPT !.output = TRUE, !.commitID = commitID, !.reason = FALSE,
              !.state = "externally_committed"]

CallCommitted(e, commitID) ==
    IF /\ \/ e.state \in {"dispatched", "streaming", "cancellation_pending",
                          "uncertain", "needs_confirmation"}
          \/ FailedUnknown(e)
       /\ HasAttempt(e) /\ (Current(e).id \/ commitID)
    THEN {Committed(e, commitID)} ELSE {}

SettlementCompleted(e) ==
    IF e.state = "externally_committed" /\ e.output
    THEN {[e EXCEPT !.state = "completed"]} ELSE {}

(* applyCommittedRecord: a committed ledger record names the request, the  *)
(* commit or both.                                                         *)
CommittedRecords == {[id |-> TRUE, commitID |-> FALSE], [id |-> FALSE, commitID |-> TRUE],
                     [id |-> TRUE, commitID |-> TRUE]}

ApplyCommittedRecord(e, record) ==
    IF HasAttempt(e)
    THEN {Committed(IF record.id THEN WithCurrent(e, "id", TRUE) ELSE e, record.commitID)}
    ELSE {}

(* applyFailure.                                                           *)
NotSent(e) ==
    IF e.state = "dispatching" /\ ~Current(e).id /\ ~Current(e).output
    THEN {IF e.automatic < MaxAutomaticRetries
          THEN [WithFailure(e, "definitely_not_sent", "retry_pending") EXCEPT !.automatic = @ + 1]
          ELSE WithFailure(e, "definitely_not_sent", "failed")}
    ELSE {}

Rejected(e) ==
    IF e.state \in {"dispatching", "dispatched"} /\ ~Current(e).output
    THEN {WithFailure(e, "rejected", "failed")} ELSE {}

Unsure(e) == IF e.policy = "confirm" THEN "needs_confirmation" ELSE "uncertain"

(* An unknown outcome, or a ledger that has no such invocation, once       *)
(* nobody asked for a cancellation.                                        *)
Replays(e, class) ==
    CASE e.policy \in {"safe", "idempotency_key"} ->
            IF e.automatic < MaxAutomaticRetries
            THEN [WithFailure(e, class, "retry_pending") EXCEPT !.automatic = @ + 1]
            ELSE WithFailure(e, class, IF class = "ledger_absent" \/ e.policy = "safe"
                                       THEN "failed" ELSE "uncertain")
      [] e.policy = "never" ->
            WithFailure(e, class, IF class = "ledger_absent" THEN "failed" ELSE "uncertain")
      [] e.policy = "confirm" -> WithFailure(e, class, "needs_confirmation")

PartialOutputSeen(e) == Current(e).output /\ ~e.ledger

Unresolved(e, class) ==
    IF ~HasAttempt(e) \/ e.state \notin {"dispatching", "dispatched", "streaming",
                "cancellation_pending", "uncertain", "needs_confirmation", "failed"}
    THEN {}
    ELSE {IF e.cancel
          THEN IF class = "ledger_absent"
               THEN [WithFailure(e, class, "cancelled") EXCEPT !.reason = FALSE]
               ELSE WithFailure(e, class, Unsure(e))
          ELSE IF class = "ledger_absent" /\ FailedUnknown(e)
          THEN WithFailure(e, class, "failed")
          ELSE IF class = "unknown" /\ PartialOutputSeen(e)
          THEN WithFailure(e, class, Unsure(e))
          ELSE Replays(e, class)}

DispatchFailed(e, class) ==
    CASE class = "definitely_not_sent" -> NotSent(e)
      [] class = "rejected" -> Rejected(e)
      [] class \in {"ledger_absent", "unknown"} -> Unresolved(e, class)

CancelRequested(e) ==
    LET asked == [e EXCEPT !.cancel = TRUE]
        cancelled == [asked EXCEPT !.state = "cancelled", !.reason = FALSE]
        pending == [asked EXCEPT !.state = "cancellation_pending"]
    IN CASE e.state = "admitted" -> {cancelled}
         [] e.state = "retry_pending" ->
                {IF Current(e).failure \in {"definitely_not_sent", "ledger_absent"}
                 THEN cancelled ELSE pending}
         [] e.state \in {"dispatching", "dispatched", "streaming", "uncertain",
                         "needs_confirmation"} -> {pending}
         [] FailedUnknown(e) -> {pending}
         [] OTHER -> {}

CancellationResolved(e, outcome, record) ==
    LET cancelled == [e EXCEPT !.state = "cancelled", !.reason = FALSE]
    IN CASE e.state # "cancellation_pending" -> {}
         [] outcome = "prevented" ->
                IF Current(e).id \/ Current(e).output THEN {} ELSE {cancelled}
         [] outcome = "absent" -> {cancelled}
         [] outcome = "committed" -> ApplyCommittedRecord(e, record)
         [] outcome = "unknown" -> {WithFailure(e, "unknown", Unsure(e))}

Recoverable(e) ==
    \/ e.state \in {"dispatching", "dispatched", "streaming", "cancellation_pending",
                    "uncertain", "needs_confirmation"}
    \/ FailedUnknown(e)

RecoveryObserved(e, status, record) ==
    IF ~Recoverable(e) THEN {}
    ELSE CASE status = "inflight" ->
                {LET seen == WithCurrent(e, "id", TRUE)
                 IN IF e.state \in {"dispatching", "uncertain", "needs_confirmation", "failed"}
                    THEN [WithCurrent(seen, "failure", "none") EXCEPT
                            !.reason = FALSE,
                            !.state = IF e.cancel THEN "cancellation_pending"
                                      ELSE IF Current(e).output THEN "streaming"
                                      ELSE "dispatched"]
                    ELSE seen}
           [] status = "committed" -> ApplyCommittedRecord(e, record)
           [] status = "failed" ->
                {WithFailure(IF record.id THEN WithCurrent(e, "id", TRUE) ELSE e,
                             "external_failed", "failed")}
           [] status = "absent" -> Unresolved(e, "ledger_absent")
           [] status = "unknown" -> Unresolved(e, "unknown")

ConfirmationDecided(e, decision) ==
    IF e.state # "needs_confirmation" \/ e.policy # "confirm" THEN {}
    ELSE CASE decision = "retry" ->
                IF e.confirmed < MaxConfirmationRetries
                THEN {[e EXCEPT !.confirmed = @ + 1, !.cancel = FALSE,
                                !.state = "retry_pending", !.reason = TRUE]}
                ELSE {}
           [] decision = "abandon" ->
                {[e EXCEPT !.reason = TRUE, !.state = IF e.cancel THEN "uncertain" ELSE "failed"]}

(* validateEffect: the shape a stored record has in each state.            *)
ShapeHolds(e) ==
    LET a == IF HasAttempt(e) THEN Current(e) ELSE NewAttempt
        bare == ~e.output
    IN CASE e.state = "admitted" ->
                /\ ~HasAttempt(e) /\ e.events = 0 /\ e.chunks = 0 /\ bare
                /\ ~e.commitID /\ ~e.reason /\ ~e.cancel
         [] e.state = "dispatching" ->
                /\ HasAttempt(e) /\ ~a.id /\ ~a.output /\ a.failure = "none"
                /\ ~e.reason /\ bare /\ ~e.cancel
         [] e.state = "dispatched" ->
                /\ HasAttempt(e) /\ a.id /\ ~a.output /\ a.failure = "none"
                /\ a.negotiated /\ bare /\ ~e.cancel
         [] e.state = "streaming" ->
                /\ HasAttempt(e) /\ a.id /\ a.output /\ a.failure = "none"
                /\ a.negotiated /\ e.chunks > 0 /\ bare /\ ~e.cancel
         [] e.state = "retry_pending" ->
                HasAttempt(e) /\ a.failure # "none" /\ e.reason /\ bare /\ ~e.cancel
         [] e.state = "cancellation_pending" -> HasAttempt(e) /\ bare /\ e.cancel
         [] e.state \in {"externally_committed", "completed"} ->
                /\ e.output /\ ~e.reason /\ HasAttempt(e) /\ a.negotiated
                /\ a.id \/ e.commitID
         [] e.state \in {"needs_confirmation", "failed", "uncertain"} -> e.reason /\ bare
         [] e.state = "cancelled" -> bare /\ ~e.commitID /\ ~e.reason /\ e.cancel

ValidateEffect(e) ==
    /\ e.events <= MaxEvents
    /\ e.automatic <= MaxAutomaticRetries /\ e.confirmed <= MaxConfirmationRetries
    /\ Len(e.attempts) <= 1 + e.automatic + e.confirmed
    /\ e.chunks <= MaxChunks
    /\ \A i \in 1..Len(e.attempts) : e.attempts[i].output => e.attempts[i].id
    /\ ShapeHolds(e)

(* Apply: the event of a valid record in the budget, or nothing.           *)
Fits(e) == e.events + 1 + MinimumRemainingEvents(e) <= MaxEvents

Apply(e, nexts) ==
    IF ~ValidateEffect(e) \/ e.events >= MaxEvents THEN {}
    ELSE {[n EXCEPT !.events = @ + 1] : n \in {m \in nexts : Fits(m)}}

-----------------------------------------------------------------------------
(* The machine alone.  The gateway's operations send an event only in some *)
(* of the states that accept it: an outcome is learnt only of an attempt   *)
(* whose negotiation is stored (Execute claims the start after it, Recover *)
(* calls an attempt without it not sent), a cancellation of such an        *)
(* attempt is prevented without asking the provider, and Recover does not  *)
(* spend an event on what the record already says.                         *)
Negotiated == HasAttempt(effect) /\ Current(effect).negotiated

Running == effect.state \in {"dispatching", "dispatched", "streaming"}

LedgerStatuses == {"inflight", "committed", "failed", "absent", "unknown"}

Observable(status) ==
    /\ Negotiated /\ effect.state # "cancellation_pending" /\ Recoverable(effect)
    /\ status # "unknown" => effect.ledger
    /\ status = "inflight" => ~Current(effect).id
    /\ status = "unknown" => Running
    /\ status = "absent" => ~(effect.state = "needs_confirmation"
                              /\ Current(effect).failure = "ledger_absent")

Becomes(nexts) == effect' \in Apply(effect, nexts)

MachineInit == \E policy \in Policies, hasLedger \in BOOLEAN :
                   /\ Admissible(policy, hasLedger)
                   /\ effect = NewEffect(policy, hasLedger)

Begin == Becomes(BeginDispatch(effect))
RecordNegotiation == Becomes(NegotiationRecorded(effect))
Accept == Becomes(ProviderAccepted(effect))
Chunk == Becomes(OutputChunk(effect))
Commit == Negotiated /\ \E named \in BOOLEAN : Becomes(CallCommitted(effect, named))
CompleteSettlement == Becomes(SettlementCompleted(effect))
NotStarted == Becomes(DispatchFailed(effect, "definitely_not_sent"))
LoseOutcome == Negotiated /\ Running /\ Becomes(DispatchFailed(effect, "unknown"))
AskCancel == Becomes(CancelRequested(effect))
Resolve == \E outcome \in {"prevented", "absent", "committed", "unknown"},
              record \in CommittedRecords :
              /\ Negotiated \/ outcome = "prevented"
              /\ Becomes(CancellationResolved(effect, outcome, record))
Observe == \E status \in LedgerStatuses, record \in CommittedRecords :
              Observable(status) /\ Becomes(RecoveryObserved(effect, status, record))
Decide == \E decision \in {"retry", "abandon"} : Becomes(ConfirmationDecided(effect, decision))

MachineNext ==
    \/ Begin \/ RecordNegotiation \/ Accept \/ Chunk \/ Commit \/ CompleteSettlement
    \/ NotStarted \/ LoseOutcome \/ AskCancel \/ Resolve \/ Observe \/ Decide

-----------------------------------------------------------------------------
(* Every stored record passes validateEffect, so that no sequence of       *)
(* accepted events leaves a call that Apply will refuse for ever.          *)
RecordsStayValid == ValidateEffect(effect)

(* Output that the caller has seen is not produced a second time without a *)
(* confirmation, unless the provider keeps a ledger of its invocations.    *)
PartialOutputNotReplayed ==
    ~effect.ledger =>
        Cardinality({a \in 1..(Len(effect.attempts) - 1) : effect.attempts[a].output})
            <= effect.confirmed

Spends(nexts) == nexts # {} => Apply(effect, nexts) # {}

(* The budget never refuses what the outcome of a call needs: a dispatch   *)
(* that was decided, its negotiation, acceptance or failure, the first     *)
(* request to cancel it, the answer to that request, a commit that arrives *)
(* late, its settlement, what the provider's ledger knows of it and the    *)
(* user's decision (minimumRemainingEvents keeps enough events back in     *)
(* every state).  Only a further chunk of output or a repeated request to  *)
(* cancel may find the budget spent.                                       *)
ReserveSuffices ==
    /\ ~effect.cancel => Spends(CancelRequested(effect))
    /\ \A nexts \in {SettlementCompleted(effect), BeginDispatch(effect),
                     NegotiationRecorded(effect), ProviderAccepted(effect),
                     DispatchFailed(effect, "definitely_not_sent"),
                     ConfirmationDecided(effect, "retry"),
                     ConfirmationDecided(effect, "abandon"),
                     CancellationResolved(effect, "prevented", [id |-> FALSE, commitID |-> FALSE])} : Spends(nexts)
    /\ Negotiated =>
        /\ Spends(CallCommitted(effect, TRUE))
        /\ Running => Spends(DispatchFailed(effect, "unknown"))
        /\ \A outcome \in {"absent", "committed", "unknown"}, record \in CommittedRecords :
              Spends(CancellationResolved(effect, outcome, record))
        /\ \A status \in LedgerStatuses, record \in CommittedRecords :
              Observable(status) => Spends(RecoveryObserved(effect, status, record))
=============================================================================
