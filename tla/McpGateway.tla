----------------------------- MODULE McpGateway -----------------------------
(***************************************************************************)
(* The MCP gateway (internal/mcpgateway/executor.go) on its repository     *)
(* (repository.go): one tool call, driven by several workers that execute, *)
(* cancel, recover and confirm it at the same time, against a provider     *)
(* whose work goes on whatever the gateway believes.                       *)
(*                                                                         *)
(* Durable state: the effect record, the start claim and the cancellation  *)
(* claim of each attempt, the authority fence, and the slot of the turn    *)
(* (one unresolved call per turn).  A worker holds the copy of the record  *)
(* it last stored or loaded, and its commit is a compare-and-set on that   *)
(* copy and on the fence.  Loading the record and the first commit of an   *)
(* operation are one step: a commit that lost the race changes nothing and *)
(* the operation starts over.                                              *)
(*                                                                         *)
(* The provider is external.  By the contract of its interface it refuses  *)
(* a start whose permit expired, whose authority was rotated or that a     *)
(* cancellation has tombstoned; a request may stay on the wire after the   *)
(* caller gave up on its answer.                                           *)
(***************************************************************************)
EXTENDS McpMachine

CONSTANTS
    Workers,     \* goroutines of the gateway
    Answers,     \* the committed records this provider answers with
    MaxFaults    \* crashes, fence rotations, cancellation requests and leases
                 \* that run out while their owner still works

VARIABLES start, claim, slot, fence, worker, run, tomb, faults

vars == <<effect, start, claim, slot, fence, worker, run, tomb, faults>>
durable == <<effect, start, claim, slot>>
provider == <<run, tomb>>

AnswersAccepted == Answers # {} /\ Answers \subseteq CommittedRecords

Attempts == 1..(1 + MaxAutomaticRetries + MaxConfirmationRetries)

NoStart == [status |-> "none", fence |-> 0, live |-> FALSE]
NoClaim == [generation |-> 0, fence |-> 0, live |-> FALSE]

(* A worker between operations holds no record and no answer.              *)
NoRecord == [id |-> FALSE, commitID |-> FALSE]
NoAnswer == [outcome |-> "none", record |-> NoRecord]
Idle == [pc |-> "idle", held |-> NewEffect("never", FALSE), fence |-> 0,
         generation |-> 0, answer |-> NoAnswer]

Init == /\ MachineInit
        /\ start = [a \in Attempts |-> NoStart]
        /\ claim = [a \in Attempts |-> NoClaim]
        /\ slot = "this" /\ fence = 1 /\ faults = 0
        /\ worker = [w \in Workers |-> Idle]
        /\ run = [a \in Attempts |-> "none"]
        /\ tomb = [a \in Attempts |-> FALSE]

Number(e) == Len(e.attempts)

Fault == faults < MaxFaults /\ faults' = faults + 1

-----------------------------------------------------------------------------
(* Repository.Commit.                                                      *)

CancellationIntent(cur, next) ==
    /\ ~cur.cancel /\ next.cancel /\ next.state = "cancellation_pending"
    /\ cur.state \in {"dispatching", "dispatched", "streaming", "uncertain",
                      "needs_confirmation", "failed"}


RetainsLateProviderOwner(e) == e.state = "uncertain" \/ FailedUnknown(e)

(* A start claim another worker still holds under the current authority.   *)
StartActive(a, f) == start[a].status = "active" /\ start[a].live /\ start[a].fence = f

(* The permit of a commit: none, the start claim or the cancellation claim *)
(* whose answer is stored.                                                 *)
PermitHolds(kind, me) ==
    CASE kind = "none" -> TRUE
      [] kind = "start" -> /\ effect.state = "dispatching"
                           /\ start[Number(effect)].status = "active"
      [] kind = "cancellation" ->
            /\ effect.state = "cancellation_pending"
            /\ claim[Number(effect)].generation = me.generation

Conflicts(kind, me, base) == base # effect \/ (me.fence = fence /\ ~PermitHolds(kind, me))

Excluded(kind, me, next) ==
    \/ me.fence # fence
    \/ /\ HasAttempt(effect) /\ kind # "start"
       /\ StartActive(Number(effect), fence) /\ ~CancellationIntent(effect, next)
    \/ slot = "other"
    \/ slot = "none" /\ ~Terminal(effect)

CanCommit(kind, me, base, next) == ~Conflicts(kind, me, base) /\ ~Excluded(kind, me, next)

StartAfter(kind) ==
    IF ~HasAttempt(effect) \/ start[Number(effect)].status # "active" THEN start
    ELSE [start EXCEPT ![Number(effect)].status =
                            IF kind = "start" THEN "completed" ELSE "revoked"]

Releases(next) == Terminal(next) /\ ~RetainsLateProviderOwner(next) /\ slot = "this"

Store(kind, next) ==
    /\ effect' = next
    /\ start' = StartAfter(kind)
    /\ slot' = IF Releases(next) THEN "none"
               ELSE IF slot = "none" /\ ~Terminal(next) THEN "this" ELSE slot
    /\ claim' = IF Releases(next) /\ HasAttempt(next)
                THEN [claim EXCEPT ![Number(next)] = NoClaim] ELSE claim

Goes(w, me) == worker' = [worker EXCEPT ![w] = me]
Return(w) == Goes(w, Idle)

(* Where a worker goes on, by the state of the record it has stored.       *)
Always(pc) == [state \in States |-> pc]
OnlyIn(stored, pc) == [state \in States |-> IF state = stored THEN pc ELSE "idle"]

(* persistAfterExternal*: the event applied to the copy the worker holds   *)
(* (or has just loaded), and the commit of the result.  Refused: the       *)
(* machine refuses the event; conflict: the record has moved on; the       *)
(* remaining errors end the operation.  Stored: the worker goes on at      *)
(* onStored of the state that was stored.                                  *)
Persist(w, kind, base, nexts, onStored, onConflict, onRefused) ==
    LET me == worker[w]
        results == Apply(base, nexts)
    IN IF results = {} THEN onRefused /\ UNCHANGED durable
       ELSE \E next \in results :
              IF CanCommit(kind, me, base, next)
              THEN /\ Store(kind, next)
                   /\ IF onStored[next.state] = "idle" THEN Return(w)
                      ELSE Goes(w, [me EXCEPT !.pc = onStored[next.state], !.held = next])
              ELSE /\ UNCHANGED durable
                   /\ IF Conflicts(kind, me, base) THEN onConflict ELSE Return(w)

At(w, pc) == worker[w].pc = pc
Held(w) == worker[w].held

-----------------------------------------------------------------------------
(* Execute.                                                                *)

(* The dispatch claim of an attempt is made with the record that begins   *)
(* it, so one worker owns the attempt.                                     *)
CommitAndClaimDispatch(next) == slot = "this" /\ effect' = next

BeginExecute(w) ==
    /\ At(w, "idle")
    /\ \E next \in Apply(effect, BeginDispatch(effect)) :
         /\ CommitAndClaimDispatch(next)
         /\ Goes(w, [Idle EXCEPT !.pc = "negotiate", !.held = next, !.fence = fence])
    /\ UNCHANGED <<start, claim, slot, fence, provider, faults>>

Negotiate(w) ==
    /\ At(w, "negotiate")
    /\ \/ Persist(w, "none", Held(w), NegotiationRecorded(Held(w)),
                  Always("claim"), Return(w), Return(w))
       \/ Persist(w, "none", Held(w), DispatchFailed(Held(w), "definitely_not_sent"),
                  Always("idle"), Return(w), Return(w))
    /\ UNCHANGED <<fence, provider, faults>>

(* ClaimProviderStart: the last point at which a cancellation or a         *)
(* recovery keeps the call from starting.                                  *)
ClaimProviderStart(w) ==
    LET a == Number(Held(w))
    IN /\ At(w, "claim")
       /\ IF /\ Held(w) = effect /\ effect.state = "dispatching" /\ ~effect.cancel
             /\ worker[w].fence = fence /\ slot = "this" /\ start[a].status = "none"
          THEN /\ start' = [start EXCEPT ![a] =
                                [status |-> "active", fence |-> fence, live |-> TRUE]]
               /\ Goes(w, [worker[w] EXCEPT !.pc = "start"])
          ELSE start' = start /\ Return(w)
       /\ UNCHANGED <<effect, claim, slot, fence, provider, faults>>

StartProvider(w) ==
    /\ At(w, "start")
    /\ run' = [run EXCEPT ![Number(Held(w))] = IF @ = "none" THEN "sent" ELSE @]
    /\ Goes(w, [worker[w] EXCEPT !.pc = "started"])
    /\ UNCHANGED <<durable, fence, tomb, faults>>

(* What Provider.Start returns: the identifier of the request, that it was *)
(* definitely not sent, or an error that tells neither.                    *)
RecordStart(w) ==
    LET a == Number(Held(w))
    IN /\ At(w, "started")
       /\ \/ /\ run[a] \in {"running", "committed", "failed"}
             /\ Persist(w, "start", Held(w), ProviderAccepted(Held(w)),
                        Always("stream"), Return(w), Return(w))
          \/ /\ run[a] = "refused"
             /\ Persist(w, "start", Held(w), DispatchFailed(Held(w), "definitely_not_sent"),
                        Always("idle"), Return(w), Return(w))
          \/ Persist(w, "start", Held(w), DispatchFailed(Held(w), "unknown"),
                     Always("idle"), Return(w), Return(w))
       /\ UNCHANGED <<fence, provider, faults>>

StreamChunk(w) ==
    /\ At(w, "stream") /\ run[Number(Held(w))] = "running"
    /\ Persist(w, "none", Held(w), OutputChunk(Held(w)),
               Always("stream"), Return(w),
               Goes(w, [worker[w] EXCEPT !.pc = "cancel"]))
    /\ UNCHANGED <<fence, provider, faults>>

StreamFails(w) ==
    /\ At(w, "stream")
    /\ Persist(w, "none", Held(w), DispatchFailed(Held(w), "unknown"),
               Always("idle"), Return(w), Return(w))
    /\ UNCHANGED <<fence, provider, faults>>

StreamCompletes(w) ==
    /\ At(w, "stream") /\ run[Number(Held(w))] = "committed"
    /\ \E named \in {record.commitID : record \in Answers} :
         Persist(w, "none", Held(w), CallCommitted(Held(w), named),
                 Always("settle"),
                 Goes(w, [worker[w] EXCEPT !.pc = "merge",
                              !.answer = [outcome |-> "committed",
                                          record |-> [NoRecord EXCEPT !.commitID = named]]]),
                 Goes(w, [worker[w] EXCEPT !.pc = "cancel"]))
    /\ UNCHANGED <<fence, provider, faults>>

(* The completion lost a race: it is merged into the record that won.      *)
Merge(w) ==
    /\ At(w, "merge")
    /\ CASE effect.state \in {"cancellation_pending", "uncertain", "needs_confirmation", "failed"} ->
              Persist(w, "none", effect, CallCommitted(effect, worker[w].answer.record.commitID),
                      Always("settle"), Return(w), Return(w))
         [] effect.state = "externally_committed" ->
              /\ Goes(w, [worker[w] EXCEPT !.pc = "settle", !.held = effect])
              /\ UNCHANGED durable
         [] OTHER -> Return(w) /\ UNCHANGED durable
    /\ UNCHANGED <<fence, provider, faults>>

Settle(w) ==
    /\ At(w, "settle")
    /\ Persist(w, "none", Held(w), SettlementCompleted(Held(w)),
               Always("idle"), Return(w), Return(w))
    /\ UNCHANGED <<fence, provider, faults>>

(* The context of the caller is cancelled, or the output sink fails.       *)
Interrupt(w) ==
    /\ worker[w].pc \in {"negotiate", "started", "stream"} /\ Fault
    /\ Goes(w, [worker[w] EXCEPT !.pc = "cancel"])
    /\ UNCHANGED <<durable, fence, provider>>

-----------------------------------------------------------------------------
(* Cancel and dispatchCancellation.                                        *)

(* The operation of an idle worker: the record it has just loaded, under   *)
(* the current authority.                                                  *)
Loaded(pc) == [Idle EXCEPT !.pc = pc, !.held = effect, !.fence = fence]

RequestCancel(w, me) ==
    IF effect.state = "cancellation_pending"
    THEN Goes(w, [me EXCEPT !.pc = "claimcancel", !.held = effect]) /\ UNCHANGED durable
    ELSE IF effect.state = "externally_committed"
    THEN Goes(w, [me EXCEPT !.pc = "settle", !.held = effect]) /\ UNCHANGED durable
    ELSE Persist(w, "none", effect, CancelRequested(effect),
                 [Always("claimcancel") EXCEPT !["cancelled"] = "idle"],
                 Return(w), Return(w))

BeginCancel(w) ==
    /\ At(w, "idle") /\ Fault
    /\ ~(Terminal(effect) /\ ~RetainsLateProviderOwner(effect))
    /\ Goes(w, Loaded("cancel"))
    /\ UNCHANGED <<durable, fence, provider>>

Cancel(w) ==
    /\ At(w, "cancel")
    /\ IF worker[w].fence = fence THEN RequestCancel(w, worker[w])
       ELSE Return(w) /\ UNCHANGED durable
    /\ UNCHANGED <<fence, provider, faults>>

(* No permit to start this attempt was ever given out.                     *)
NeverStarted(a) == start[a].status \in {"none", "prevented"}

(* Mutant of ClaimHeld: a claim is held after its lease ran out.           *)
ClaimHeldForGood(a) == claim[a].generation > 0 /\ claim[a].fence = fence

ClaimHeld(a) == claim[a].generation > 0 /\ claim[a].live /\ claim[a].fence = fence

(* ClaimCancellation: one owner at a time asks the provider.               *)
ClaimCancellation(w) ==
    LET a == Number(Held(w))
    IN /\ At(w, "claimcancel")
       /\ IF Held(w) # effect \/ worker[w].fence # fence \/ ClaimHeld(a)
          THEN claim' = claim /\ Return(w)
          ELSE LET generation == claim[a].generation + 1
               IN /\ claim' = [claim EXCEPT ![a] = [generation |-> generation,
                                                    fence |-> fence, live |-> TRUE]]
                  /\ Goes(w, [worker[w] EXCEPT !.generation = generation,
                                !.pc = IF NeverStarted(a) THEN "resolve" ELSE "ask",
                                !.answer = [outcome |-> "prevented", record |-> NoRecord]])
       /\ UNCHANGED <<effect, start, slot, fence, provider, faults>>

(* The attempts an answer of the provider is about: the invocation when it *)
(* keeps a ledger, the request otherwise.                                  *)
Considered(e) == IF e.ledger THEN 1..Number(e) ELSE {Number(e)}

AnyRun(e, states) == \E a \in Considered(e) : run[a] \in states

(* Provider.Cancel, external: it keeps a start that has not begun from     *)
(* beginning, stops running work or not, or does not answer.               *)
AskProvider(w) ==
    LET e == Held(w)
        a == Number(e)
        answers(outcome, record) ==
            Goes(w, [worker[w] EXCEPT !.pc = "resolve",
                        !.answer = [outcome |-> outcome, record |-> record]])
    IN /\ At(w, "ask")
       /\ \/ answers("unknown", NoRecord) /\ UNCHANGED provider
          \/ /\ ~AnyRun(e, {"running", "committed"})
             /\ tomb' = [tomb EXCEPT ![a] = TRUE] /\ run' = run
             /\ answers(IF run[a] \in {"none", "sent", "refused"} /\ ~Current(e).id
                        THEN "prevented" ELSE "absent", NoRecord)
          \/ /\ run[a] = "running"
             /\ run' = [run EXCEPT ![a] = "failed"] /\ tomb' = [tomb EXCEPT ![a] = TRUE]
             /\ IF AnyRun(e, {"committed"}) THEN answers("unknown", NoRecord) ELSE answers("absent", NoRecord)
          \/ /\ AnyRun(e, {"committed"})
             /\ UNCHANGED provider
             /\ \E record \in Answers : answers("committed", record)
       /\ UNCHANGED <<durable, fence, faults>>

ResolveCancellation(w) ==
    LET answer == worker[w].answer
    IN /\ At(w, "resolve")
       /\ Persist(w, "cancellation", Held(w),
                  CancellationResolved(Held(w), answer.outcome, answer.record),
                  OnlyIn("externally_committed", "settle"),
                  IF effect.state = "externally_committed" /\ ~NeverStarted(Number(Held(w)))
                  THEN Goes(w, [worker[w] EXCEPT !.pc = "settle", !.held = effect])
                  ELSE Return(w),
                  Return(w))
       /\ UNCHANGED <<fence, provider, faults>>

-----------------------------------------------------------------------------
(* Recover and Confirm.                                                    *)

(* ResolveProviderStart: a start nobody claimed is prevented for good; one *)
(* that is claimed is waited for until its lease or its authority is gone. *)
ResolveProviderStart(w) ==
    LET a == Number(effect)
    IN CASE start[a].status = "none" /\ effect.state = "dispatching" ->
              /\ start' = [start EXCEPT ![a].status = "prevented"]
              /\ Goes(w, Loaded("notstarted"))
         [] start[a].status = "prevented" /\ effect.state = "dispatching" ->
              start' = start /\ Goes(w, Loaded("notstarted"))
         [] StartActive(a, fence) \/ start[a].status \in {"none", "prevented"} ->
              start' = start /\ Return(w)
         [] OTHER ->
              /\ start' = IF start[a].status = "active"
                          THEN [start EXCEPT ![a].status = "revoked"] ELSE start
              /\ Goes(w, Loaded("lookup"))

BeginRecover(w) ==
    /\ At(w, "idle")
    /\ CASE effect.state = "cancellation_pending" ->
              Goes(w, Loaded("claimcancel")) /\ start' = start
         [] effect.state = "externally_committed" ->
              Goes(w, Loaded("settle")) /\ start' = start
         [] effect.state = "dispatching" /\ ~Current(effect).negotiated ->
              Goes(w, Loaded("notstarted")) /\ start' = start
         [] OTHER -> Recoverable(effect) /\ ResolveProviderStart(w)
    /\ UNCHANGED <<effect, claim, slot, fence, provider, faults>>

RecordNotStarted(w) ==
    /\ At(w, "notstarted")
    /\ Persist(w, "none", Held(w), DispatchFailed(Held(w), "definitely_not_sent"),
               Always("idle"), Return(w), Return(w))
    /\ UNCHANGED <<fence, provider, faults>>

(* Provider.Lookup, external.  Without a ledger the outcome stays unknown; *)
(* an absence is authoritative, so the start it is about never begins.     *)
LedgerKnows(e) ==
    IF AnyRun(e, {"committed"}) THEN "committed"
    ELSE IF AnyRun(e, {"running"}) THEN "inflight"
    ELSE IF AnyRun(e, {"failed"}) THEN "failed" ELSE "absent"

Lookup(w) ==
    LET e == Held(w)
    IN /\ At(w, "lookup")
       /\ \E status \in {"unknown"} \cup (IF e.ledger THEN {LedgerKnows(e)} ELSE {}),
             record \in Answers :
            /\ Goes(w, [worker[w] EXCEPT !.pc = "observe",
                                !.answer = [outcome |-> status, record |-> record]])
            /\ tomb' = IF status = "absent" THEN [tomb EXCEPT ![Number(e)] = TRUE] ELSE tomb
       /\ UNCHANGED <<durable, fence, run, faults>>

(* Mutant of Known: every answer is stored.                                *)
KnowsNothing(e, status) == FALSE

(* What the record already says is not stored again.                       *)
Known(e, status) ==
    \/ status = "inflight" /\ Current(e).id /\ e.state # "dispatching"
    \/ status = "unknown" /\ e.state \in {"needs_confirmation", "uncertain", "failed"}
    \/ status = "absent" /\ e.state = "needs_confirmation" /\ Current(e).failure = "ledger_absent"

ObserveLedger(w) ==
    LET answer == worker[w].answer
    IN /\ At(w, "observe")
       /\ IF Known(Held(w), answer.outcome) THEN Return(w) /\ UNCHANGED durable
          ELSE Persist(w, "none", Held(w), RecoveryObserved(Held(w), answer.outcome, answer.record),
                  OnlyIn("externally_committed", "settle"),
                  IF answer.outcome = "committed" /\ effect.state = "externally_committed"
                  THEN Goes(w, [worker[w] EXCEPT !.pc = "settle", !.held = effect])
                  ELSE Return(w),
                  Return(w))
       /\ UNCHANGED <<fence, provider, faults>>

Confirm(w) ==
    /\ At(w, "idle")
    /\ \E decision \in {"retry", "abandon"} :
         \E next \in Apply(effect, ConfirmationDecided(effect, decision)) :
            CanCommit("none", Loaded("idle"), effect, next) /\ Store("none", next)
    /\ UNCHANGED <<worker, fence, provider, faults>>

-----------------------------------------------------------------------------
(* The provider's own steps, and what goes wrong.                          *)

Acceptable(a) == ~tomb[a] /\ start[a].live /\ start[a].fence = fence

ProviderBegins(a) ==
    /\ run[a] = "sent" /\ Acceptable(a)
    /\ run' = [run EXCEPT ![a] = "running"]
    /\ UNCHANGED <<durable, fence, worker, tomb, faults>>

ProviderRefuses(a) ==
    /\ run[a] = "sent"
    /\ run' = [run EXCEPT ![a] = "refused"]
    /\ UNCHANGED <<durable, fence, worker, tomb, faults>>

ProviderEnds(a) ==
    /\ run[a] = "running"
    /\ \E outcome \in {"committed", "failed"} : run' = [run EXCEPT ![a] = outcome]
    /\ UNCHANGED <<durable, fence, worker, tomb, faults>>

Crash(w) ==
    /\ ~At(w, "idle") /\ Fault /\ Return(w)
    /\ UNCHANGED <<durable, fence, provider>>

(* SetCurrentAuthority: another owner of the session takes over.           *)
RotateFence ==
    /\ Fault /\ fence' = fence + 1
    /\ UNCHANGED <<durable, worker, provider>>

StartOwned(a) == \E w \in Workers : /\ worker[w].pc \in {"start", "started"}
                                    /\ Number(Held(w)) = a

StartLeaseExpires(a) ==
    /\ start[a].live
    /\ IF StartOwned(a) THEN Fault ELSE faults' = faults
    /\ start' = [start EXCEPT ![a].live = FALSE]
    /\ UNCHANGED <<effect, claim, slot, fence, worker, provider>>

ClaimOwned(a) == \E w \in Workers : /\ worker[w].pc \in {"ask", "resolve"}
                                    /\ worker[w].generation = claim[a].generation

ClaimLeaseExpires(a) ==
    /\ claim[a].live
    /\ IF ClaimOwned(a) THEN Fault ELSE faults' = faults
    /\ claim' = [claim EXCEPT ![a].live = FALSE]
    /\ UNCHANGED <<effect, start, slot, fence, worker, provider>>

(* Admit of the turn's next call.                                          *)
AdmitOther ==
    /\ slot = "none" /\ slot' = "other"
    /\ UNCHANGED <<effect, start, claim, fence, worker, provider, faults>>

Execute(w) == \/ BeginExecute(w) \/ Negotiate(w) \/ ClaimProviderStart(w)
              \/ StartProvider(w) \/ RecordStart(w) \/ StreamChunk(w)
              \/ StreamFails(w) \/ StreamCompletes(w) \/ Merge(w) \/ Settle(w)

CancelSteps(w) == Cancel(w) \/ ClaimCancellation(w) \/ AskProvider(w) \/ ResolveCancellation(w)

RecoverSteps(w) == BeginRecover(w) \/ RecordNotStarted(w) \/ Lookup(w) \/ ObserveLedger(w)

ProviderSteps(a) == ProviderBegins(a) \/ ProviderRefuses(a) \/ ProviderEnds(a)

Next == \/ \E w \in Workers : \/ Execute(w) \/ CancelSteps(w) \/ RecoverSteps(w)
                              \/ Interrupt(w) \/ BeginCancel(w) \/ Confirm(w) \/ Crash(w)
        \/ \E a \in Attempts : ProviderSteps(a) \/ StartLeaseExpires(a) \/ ClaimLeaseExpires(a)
        \/ RotateFence \/ AdmitOther

Spec == Init /\ [][Next]_vars

(* The supervising loop executes and recovers a call until it rests, every *)
(* dependency call returns, leases run out, the provider ends what it      *)
(* began, and a ledger that is asked again and again answers in the end.   *)
Answered(w) == Lookup(w) /\ worker'[w].answer.outcome # "unknown"

-----------------------------------------------------------------------------
Began(a) == run[a] \in {"running", "committed", "failed"}

(* A tool that must not be replayed is started at most once, and one that  *)
(* needs a confirmation at most once more per confirmation, whatever       *)
(* workers crash, time out or race (TestAtomicDispatchClaimAllowsOne-      *)
(* ConcurrentProviderCall states the two-worker case).                     *)
StartsAreDecided ==
    effect.policy \in {"never", "confirm"} =>
        Cardinality({a \in Attempts : Began(a)}) <= 1 + effect.confirmed

Blind == effect.policy = "safe" \/ effect.confirmed > 0
MayStillRun(a) == run[a] = "running" \/ (run[a] = "sent" /\ Acceptable(a))

(* The turn goes on to its next call only when no work of this one can     *)
(* still happen (retainsLateProviderOwner keeps the slot of an unknown     *)
(* outcome), unless the tool or its user allowed a blind replay.           *)
TurnIsExclusive ==
    slot # "this" /\ ~Blind => \A a \in Attempts : ~MayStillRun(a)

(* A call that is recorded as cancelled, or as failed for good, has not    *)
(* committed at the provider.                                              *)
DefinitiveIsAbsent ==
    (effect.state = "cancelled" \/ (effect.state = "failed" /\ ~FailedUnknown(effect))) /\ ~Blind
        => \A a \in Attempts : run[a] # "committed"

(* A call comes to rest: it ends, or waits for its user.                   *)
AtRest == Terminal(effect) \/ effect.state = "needs_confirmation"

(* What the provider committed, and keeps in its ledger, is settled in the *)
(* end, whatever crashed or was cancelled on the way.                      *)
CommittedInLedger == effect.ledger /\ \E a \in Attempts : run[a] = "committed"

(* The gateway implements the machine: its workers only ever store what    *)
(* the events of the machine lead to.                                      *)
ImplementsMachine == UNCHANGED effect \/ MachineNext
=============================================================================
