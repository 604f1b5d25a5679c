---------------------------- MODULE EffectBroker ----------------------------
(***************************************************************************)
(* One effect on its way from a durable preparation to a durable           *)
(* settlement: the broker record of the Session owner                      *)
(* (session/broker.ts), the coordinators that read a snapshot of it and    *)
(* then send one compare-and-swap command (internal/broker), the consumer  *)
(* that starts the provider after a fresh start claim, and the provider's  *)
(* invocation ledger (internal/effectledger).                              *)
(*                                                                         *)
(* Every coordinator call is split at the points where it talks to the     *)
(* owner or to the ledger, so other calls, aborts, rotations, deadlines    *)
(* and crashes come in between.  A permit is named by the event sequence   *)
(* at which the owner issued it, which stands for its opaque token, and a  *)
(* deadline by the preparation that introduced it: a dispatch inherits the *)
(* deadline of its preparation, and deadlines are only compared with the   *)
(* clock and for equality.  The engine step that prepared the effect lies  *)
(* before the initial state.                                               *)
(***************************************************************************)
EXTENDS Integers, FiniteSets

CONSTANTS Coordinators,   \* processes that call the coordinator
          Keys,           \* operation keys of calls
          Policies,       \* replay policies the effect may have
          MaxOther,       \* bound on the event sequence for commands outside the broker
          MaxAttempts,    \* bound on dispatch attempts
          MaxGeneration,  \* bound on fence rotations
          None

ASSUME BoundsAssumption == {MaxAttempts, MaxGeneration} \subseteq Nat \ {0} /\ MaxOther \in Nat

VARIABLES owner,      \* the Session's turn, effect and broker record
          receipts,   \* broker receipts, by kind and operation key
          claims,     \* dispatch permits with a claim receipt
          lapsed,     \* preparations whose deadline has passed
          ledger,     \* attempt |-> state of its ledger record
          runs,       \* how often a provider call was begun
          proc        \* coordinator |-> the call it is in

vars == <<owner, receipts, claims, lapsed, ledger, runs, proc>>

Sequences == Nat \ {0}

Attempts == 1 .. MaxAttempts

Phases == {"prepared", "dispatched", "blocked", "externally_committed", "settled"}

Preparation == [sequence : Sequences, source : Sequences, attempt : Attempts,
                generation : 1 .. MaxGeneration, retry : BOOLEAN]

Dispatch == [sequence : Sequences, attempt : Attempts,
             generation : 1 .. MaxGeneration, deadline : Sequences]

Owner == [sequence : Sequences, generation : 1 .. MaxGeneration, lease : BOOLEAN,
          abort : BOOLEAN, policy : Policies, phase : Phases,
          attempt : 0 .. MaxAttempts, preparation : Preparation \cup {None},
          dispatch : Dispatch \cup {None}, started : BOOLEAN,
          settlement : {None, "success", "failed", "interrupted"}]

ReceiptKinds == {"retry", "dispatch", "confirmation", "settlement", "block", "recovery_settlement"}

Receipt == [kind : ReceiptKinds, key : Keys, preparation : Preparation \cup {None},
            permit : Dispatch \cup {None}]

\* None stands for null: it is no record and no settlement
ASSUME NoneAssumption ==
  None \notin Owner \cup Preparation \cup Dispatch \cup {"success", "failed", "interrupted"}

LedgerStates == {"absent", "prepared", "claimed", "accepted", "committed", "failed", "unknown"}

Calls == {"idle", "lookup", "confirm_lookup", "confirm", "settle", "fail", "interrupt", "block",
          "retry", "redispatch", "dispatch", "validate", "holding", "ready", "claim", "verify",
          "starting", "running"}

Proc == [pc : Calls, key : Keys \cup {None}, snapshot : Owner \cup {None},
         preparation : Preparation \cup {None}, permit : Dispatch \cup {None},
         confirmed : BOOLEAN, fresh : BOOLEAN]

Idle == [pc |-> "idle", key |-> None, snapshot |-> None, preparation |-> None, permit |-> None,
         confirmed |-> FALSE, fresh |-> FALSE]

Init ==
  /\ owner \in {[sequence |-> 1, generation |-> 1, lease |-> TRUE, abort |-> FALSE,
                 policy |-> p, phase |-> "prepared", attempt |-> 0,
                 preparation |-> [sequence |-> 1, source |-> 1, attempt |-> 1,
                                  generation |-> 1, retry |-> FALSE],
                 dispatch |-> None, started |-> FALSE, settlement |-> None] : p \in Policies}
  /\ receipts = {} /\ claims = {} /\ lapsed = {}
  /\ ledger = [a \in Attempts |-> "absent"]
  /\ runs = 0
  /\ proc = [c \in Coordinators |-> Idle]

Found(kind, key) == \E r \in receipts : r.kind = kind /\ r.key = key

ReceiptOf(kind, key) == CHOOSE r \in receipts : r.kind = kind /\ r.key = key

\* What readAndFenceEffect accepts: the effect belongs to the current generations
Fenced(o) ==
  IF o.dispatch = None THEN o.preparation # None ELSE o.dispatch.generation = o.generation

\* assertLive: a turn lease that has not expired and no abort
Live(o) == o.lease /\ ~o.abort

\* The permit is the one of the current attempt
Current(o, permit) == o.phase = "dispatched" /\ o.dispatch = permit

Return(c) == proc' = [proc EXCEPT ![c] = Idle]

Goto(c, pc) == proc' = [proc EXCEPT ![c].pc = pc]

\* From here on the call needs its permit only
Hold(c, pc, permit, fresh) ==
  proc' = [proc EXCEPT ![c] = [Idle EXCEPT !.pc = pc, !.permit = permit, !.fresh = fresh]]

\* Every owner command is a compare-and-swap on the snapshot of its caller
Unmoved(c) == proc[c].snapshot.sequence = owner.sequence

Reserved == owner.preparation # None /\ owner.preparation.retry

\* appendReceipt, with the event sequence advanced and the broker record reconciled
Committed(next, kind, key, preparation, permit) ==
  /\ owner' = [next EXCEPT !.sequence = @ + 1]
  /\ receipts' = receipts \cup {[kind |-> kind, key |-> key, preparation |-> preparation,
                                 permit |-> permit]}

Deadlines(o) == (IF o.preparation = None THEN {} ELSE {o.preparation.sequence})
                  \cup (IF o.dispatch = None THEN {} ELSE {o.dispatch.deadline})

-----------------------------------------------------------------------------
(* AdmitDispatch *)

\* A preparation the caller of AdmitDispatch may present: the first one or a renewed one
Presentable(p) ==
  /\ p.attempt = owner.attempt + 1 /\ p.generation = owner.generation
  /\ p.sequence \notin lapsed

KnownPreparations ==
  {r.preparation : r \in {r \in receipts : r.kind = "retry" /\ ~r.preparation.retry}}
    \cup {[sequence |-> 1, source |-> 1, attempt |-> 1, generation |-> 1, retry |-> FALSE]}

AdmitDispatch(c, k) ==
  /\ proc[c].pc = "idle"
  /\ Live(owner) /\ Fenced(owner)
  /\ \/ /\ Found("dispatch", k)
        /\ Current(owner, ReceiptOf("dispatch", k).permit)
        /\ ReceiptOf("dispatch", k).permit.deadline \notin lapsed
        /\ Hold(c, "holding", ReceiptOf("dispatch", k).permit, FALSE)
     \/ /\ ~Found("dispatch", k)
        /\ owner.phase = "prepared"
        /\ \E p \in KnownPreparations :
             /\ Presentable(p)
             /\ proc' = [proc EXCEPT ![c] = [Idle EXCEPT !.pc = "dispatch", !.key = k,
                                                 !.snapshot = owner, !.preparation = p]]
  /\ UNCHANGED <<owner, receipts, claims, lapsed, ledger, runs>>

\* The owner's conditions on a dispatch: the exact live preparation, and for a
\* retry the source event of the reservation with nothing in between
DispatchAllowed(c) ==
  LET p == owner.preparation IN
  /\ p # None /\ p = proc[c].preparation /\ p.sequence \notin lapsed
  /\ Live(owner)
  /\ IF p.retry
     THEN /\ owner.sequence = p.sequence
          /\ ~owner.started
          /\ owner.phase = "blocked" \/ owner.policy \in {"safe", "idempotency-key"}
     ELSE Unmoved(c) /\ owner.phase = "prepared"

NextDispatch == [sequence |-> owner.sequence + 1, attempt |-> owner.attempt + 1,
                 generation |-> owner.generation, deadline |-> owner.preparation.sequence]

\* The dispatch command; `to' is where its caller continues
MarkDispatched(c, to) ==
  \/ /\ Found("dispatch", proc[c].key)
     /\ IF ReceiptOf("dispatch", proc[c].key).preparation = proc[c].preparation
        THEN Hold(c, to, ReceiptOf("dispatch", proc[c].key).permit, FALSE)
        ELSE Return(c)
     /\ UNCHANGED <<owner, receipts>>
  \/ /\ ~Found("dispatch", proc[c].key) /\ DispatchAllowed(c)
     /\ owner.attempt < MaxAttempts
     /\ Committed([owner EXCEPT !.phase = "dispatched", !.attempt = @ + 1,
                                !.dispatch = NextDispatch, !.started = FALSE,
                                !.preparation = None],
                  "dispatch", proc[c].key, owner.preparation, NextDispatch)
     /\ Hold(c, to, NextDispatch, FALSE)
  \/ /\ ~Found("dispatch", proc[c].key) /\ ~DispatchAllowed(c)
     /\ Return(c)
     /\ UNCHANGED <<owner, receipts>>

DispatchAdmitted(c) ==
  /\ proc[c].pc = "dispatch"
  /\ MarkDispatched(c, "validate")
  /\ UNCHANGED <<claims, lapsed, ledger, runs>>

\* The permit is read back before AdmitDispatch hands it out
ValidateDispatch(c) ==
  /\ proc[c].pc = "validate"
  /\ IF Fenced(owner) /\ Current(owner, proc[c].permit) /\ ~owner.abort
     THEN Goto(c, "holding") ELSE Return(c)
  /\ UNCHANGED <<owner, receipts, claims, lapsed, ledger, runs>>

-----------------------------------------------------------------------------
(* DispatchConsumer.StartExactAttempt and the ledger *)

\* The gateway writes its command into the ledger before the start is claimed
PrepareCommand(c) ==
  /\ proc[c].pc = "holding"
  /\ LET a == proc[c].permit.attempt IN
     ledger' = [ledger EXCEPT ![a] = IF @ = "absent" THEN "prepared" ELSE @]
  /\ Goto(c, "ready")
  /\ UNCHANGED <<owner, receipts, claims, lapsed, runs>>

\* ClaimDispatchStart reads and compares before it sends the claim
ReadForClaim(c) ==
  /\ proc[c].pc = "ready"
  /\ IF /\ proc[c].permit.deadline \notin lapsed
        /\ Fenced(owner) /\ Current(owner, proc[c].permit) /\ ~owner.abort
     THEN proc' = [proc EXCEPT ![c].pc = "claim", ![c].snapshot = owner]
     ELSE Return(c)
  /\ UNCHANGED <<owner, receipts, claims, lapsed, ledger, runs>>

ClaimAllowed(c) ==
  /\ Unmoved(c) /\ Live(owner) /\ ~Reserved
  /\ Current(owner, proc[c].permit) /\ proc[c].permit.deadline \notin lapsed
  /\ proc[c].permit.generation = owner.generation
  /\ ~owner.started

Claimed(o) == [o EXCEPT !.sequence = @ + 1, !.started = TRUE]

\* Variant of ClaimStart: the provider is started on the owner's word, with no claim committed.
ClaimStartUncommitted(c) ==
  /\ proc[c].pc = "claim"
  /\ IF ClaimAllowed(c) THEN Hold(c, "starting", proc[c].permit, TRUE) ELSE Return(c)
  /\ UNCHANGED <<owner, receipts, claims, lapsed, ledger, runs>>

\* The claim command: its receipt is found by the permit itself, and only the
\* first answer is fresh
ClaimStart(c) ==
  /\ proc[c].pc = "claim"
  /\ \/ /\ proc[c].permit.sequence \in claims
        /\ Hold(c, "verify", proc[c].permit, FALSE)
        /\ UNCHANGED <<owner, claims>>
     \/ /\ proc[c].permit.sequence \notin claims /\ ClaimAllowed(c)
        /\ owner' = Claimed(owner)
        /\ claims' = claims \cup {proc[c].permit.sequence}
        /\ Hold(c, "verify", proc[c].permit, TRUE)
     \/ /\ proc[c].permit.sequence \notin claims /\ ~ClaimAllowed(c)
        /\ Return(c)
        /\ UNCHANGED <<owner, claims>>
  /\ UNCHANGED <<receipts, lapsed, ledger, runs>>

\* The persisted claim is read back; a claim that is not fresh starts nothing
VerifyStart(c) ==
  /\ proc[c].pc = "verify"
  /\ IF Fenced(owner) /\ Current(owner, proc[c].permit) /\ owner.started /\ proc[c].fresh
     THEN Goto(c, "starting") ELSE Return(c)
  /\ UNCHANGED <<owner, receipts, claims, lapsed, ledger, runs>>

\* The starter consumes the claim in the ledger and calls the provider
StartProvider(c) ==
  /\ proc[c].pc = "starting"
  /\ ledger[proc[c].permit.attempt] = "prepared"
  /\ ledger' = [ledger EXCEPT ![proc[c].permit.attempt] = "claimed"]
  /\ runs' = runs + 1
  /\ Goto(c, "running")
  /\ UNCHANGED <<owner, receipts, claims, lapsed>>

RecordAccepted(c) ==
  /\ proc[c].pc = "running"
  /\ ledger[proc[c].permit.attempt] = "claimed"
  /\ ledger' = [ledger EXCEPT ![proc[c].permit.attempt] = "accepted"]
  /\ UNCHANGED <<owner, receipts, claims, lapsed, runs, proc>>

RecordTerminal(c, status) ==
  /\ proc[c].pc = "running"
  /\ ledger[proc[c].permit.attempt] \in {"claimed", "accepted"}
  /\ status = "committed" => ledger[proc[c].permit.attempt] = "accepted"
  /\ ledger' = [ledger EXCEPT ![proc[c].permit.attempt] = status]
  /\ Return(c)
  /\ UNCHANGED <<owner, receipts, claims, lapsed, runs>>

\* What Lookup reports
LedgerStatus(state) ==
  CASE state \in {"absent", "prepared"} -> "absent"
    [] state \in {"claimed", "accepted"} -> "inflight"
    [] OTHER -> state

-----------------------------------------------------------------------------
(* RecoverEffect, ConfirmExternalCommit and SettleEffect: the reads *)

Enter(c, k, pc, confirmed) ==
  proc' = [proc EXCEPT ![c] = [Idle EXCEPT !.pc = pc, !.key = k, !.snapshot = owner,
                                           !.confirmed = confirmed]]

\* No earlier answer of RecoverEffect is retained under this key
Unanswered(k) ==
  \A kind \in {"dispatch", "recovery_settlement", "block"} : ~Found(kind, k)

\* The key already dispatched: its permit again, as long as it is current and unclaimed
RecoverReplay(c, k) ==
  /\ proc[c].pc = "idle"
  /\ Found("dispatch", k)
  /\ LET permit == ReceiptOf("dispatch", k).permit IN
     /\ Fenced(owner) /\ Current(owner, permit)
     /\ ~owner.abort /\ ~owner.started
     /\ Hold(c, "holding", permit, FALSE)
  /\ UNCHANGED <<owner, receipts, claims, lapsed, ledger, runs>>

RecoverEffect(c, k, confirmed) ==
  /\ proc[c].pc = "idle"
  /\ Unanswered(k) /\ Fenced(owner)
  /\ \/ /\ owner.phase = "dispatched"
        /\ Enter(c, k, "lookup", FALSE)
     \/ /\ owner.phase \in {"prepared", "blocked"} /\ owner.abort
        /\ Enter(c, k, "interrupt", FALSE)
     \/ /\ owner.phase = "prepared" /\ Live(owner)
        /\ owner.preparation.sequence \in lapsed
        /\ Enter(c, k, "retry", FALSE)
     \/ /\ owner.phase = "blocked" /\ Live(owner) /\ confirmed
        /\ Enter(c, k, "retry", TRUE)
  /\ UNCHANGED <<owner, receipts, claims, lapsed, ledger, runs>>

\* The decision for a dispatched effect, from the snapshot and the ledger's answer
RecoveryStep(o, status) ==
  CASE status = "committed" -> "confirm"
    [] status = "inflight" -> "idle"
    [] status = "failed" -> "fail"
    [] o.started -> "idle"
    [] o.policy = "confirm" -> "block"
    [] o.policy = "never" \/ o.abort -> "interrupt"
    [] OTHER -> IF o.lease THEN "retry" ELSE "idle"

LookupLedger(c) ==
  /\ proc[c].pc = "lookup"
  /\ LET step == RecoveryStep(proc[c].snapshot,
                              LedgerStatus(ledger[proc[c].snapshot.attempt])) IN
     IF step = "idle" THEN Return(c) ELSE Goto(c, step)
  /\ UNCHANGED <<owner, receipts, claims, lapsed, ledger, runs>>

ConfirmExternalCommit(c, k) ==
  /\ proc[c].pc = "idle"
  /\ ~Found("confirmation", k) /\ Fenced(owner)
  /\ owner.phase \in {"dispatched", "blocked"}
  /\ Enter(c, k, "confirm_lookup", FALSE)
  /\ UNCHANGED <<owner, receipts, claims, lapsed, ledger, runs>>

LookupCommit(c) ==
  /\ proc[c].pc = "confirm_lookup"
  /\ IF LedgerStatus(ledger[proc[c].snapshot.attempt]) = "committed"
     THEN Goto(c, "confirm") ELSE Return(c)
  /\ UNCHANGED <<owner, receipts, claims, lapsed, ledger, runs>>

SettleEffect(c, k) ==
  /\ proc[c].pc = "idle"
  /\ ~Found("settlement", k) /\ Fenced(owner)
  /\ owner.phase = "externally_committed"
  /\ Enter(c, k, "settle", FALSE)
  /\ UNCHANGED <<owner, receipts, claims, lapsed, ledger, runs>>

-----------------------------------------------------------------------------
(* The owner's answers to the commands of a recovery *)

NextPreparation == [sequence |-> owner.sequence + 1, source |-> owner.sequence,
                    attempt |-> owner.attempt + 1, generation |-> owner.generation,
                    retry |-> owner.phase # "prepared"]

\* An expired first preparation is renewed; a retry is reserved for an effect
\* that may be replayed, while no other reservation is live
RetryAllowed(c) ==
  /\ Unmoved(c) /\ Live(owner) /\ ~owner.started
  /\ Reserved => owner.preparation.sequence \in lapsed
  /\ \/ /\ owner.phase = "prepared"
        /\ owner.preparation # None /\ owner.preparation.sequence \in lapsed
     \/ /\ owner.phase \in {"dispatched", "blocked"}
        /\ owner.policy \in {"safe", "idempotency-key"}
     \/ owner.phase = "blocked" /\ owner.policy = "confirm" /\ proc[c].confirmed

\* What the coordinator requires of the reservation it gets back
UsableReservation(c, p) ==
  LET s == proc[c].snapshot IN
  /\ p.attempt = s.attempt + 1 /\ p.generation = s.generation
  /\ IF s.phase = "prepared" THEN p.sequence = s.sequence + 1 /\ p.sequence \notin lapsed
                             ELSE p.sequence \in {s.sequence, s.sequence + 1}

\* A renewed first preparation ends the call; a reservation is dispatched next
PrepareRetry(c) ==
  /\ proc[c].pc = "retry"
  /\ \/ /\ Found("retry", proc[c].key)
        /\ LET p == ReceiptOf("retry", proc[c].key).preparation IN
           IF UsableReservation(c, p) /\ p.retry
           THEN proc' = [proc EXCEPT ![c].pc = "redispatch", ![c].preparation = p]
           ELSE Return(c)
        /\ UNCHANGED <<owner, receipts>>
     \/ /\ ~Found("retry", proc[c].key) /\ RetryAllowed(c)
        /\ owner.attempt < MaxAttempts
        /\ Committed([owner EXCEPT !.preparation = NextPreparation],
                     "retry", proc[c].key, NextPreparation, None)
        /\ IF NextPreparation.retry
           THEN proc' = [proc EXCEPT ![c].pc = "redispatch", ![c].preparation = NextPreparation]
           ELSE Return(c)
     \/ /\ ~Found("retry", proc[c].key) /\ ~RetryAllowed(c)
        /\ Return(c)
        /\ UNCHANGED <<owner, receipts>>
  /\ UNCHANGED <<claims, lapsed, ledger, runs>>

DispatchReserved(c) ==
  /\ proc[c].pc = "redispatch"
  /\ MarkDispatched(c, "holding")
  /\ UNCHANGED <<claims, lapsed, ledger, runs>>

\* A command that ends the call: granted under `allowed', otherwise refused or replayed
Answer(c, kind, allowed, next) ==
  /\ \/ /\ ~Found(kind, proc[c].key) /\ allowed
        /\ Committed(next, kind, proc[c].key, None, None)
     \/ /\ Found(kind, proc[c].key) \/ ~allowed
        /\ UNCHANGED <<owner, receipts>>
  /\ Return(c)
  /\ UNCHANGED <<claims, lapsed, ledger, runs>>

Block(c) ==
  /\ proc[c].pc = "block"
  /\ Answer(c, "block",
            Unmoved(c) /\ ~owner.started /\ owner.phase = "dispatched" /\ owner.policy = "confirm",
            [owner EXCEPT !.phase = "blocked", !.preparation = None])

SettledBy(settlement) ==
  [owner EXCEPT !.phase = "settled", !.settlement = settlement, !.preparation = None]

SettleInterrupted(c) ==
  /\ proc[c].pc = "interrupt"
  /\ Answer(c, "recovery_settlement",
            /\ Unmoved(c) /\ ~owner.started
            /\ \/ owner.phase = "dispatched"
               \/ owner.phase \in {"prepared", "blocked"} /\ owner.abort,
            SettledBy("interrupted"))

SettleFailed(c) ==
  /\ proc[c].pc = "fail"
  /\ Answer(c, "recovery_settlement",
            Unmoved(c) /\ owner.phase \in {"prepared", "dispatched"},
            SettledBy("failed"))

MarkExternallyCommitted(c) ==
  /\ proc[c].pc = "confirm"
  /\ Answer(c, "confirmation",
            Unmoved(c) /\ owner.phase \in {"dispatched", "blocked"},
            [owner EXCEPT !.phase = "externally_committed", !.preparation = None])

SettleCommitted(c) ==
  /\ proc[c].pc = "settle"
  /\ Answer(c, "settlement",
            Unmoved(c) /\ owner.phase = "externally_committed",
            SettledBy("success"))

-----------------------------------------------------------------------------
(* Around the broker *)

RequestAbort ==
  /\ owner.phase # "settled" /\ ~owner.abort
  /\ owner' = [owner EXCEPT !.abort = TRUE, !.sequence = @ + 1]
  /\ UNCHANGED <<receipts, claims, lapsed, ledger, runs, proc>>

\* Any other session command, such as admitting a further turn
OtherCommand ==
  /\ owner.phase # "settled" /\ owner.sequence < MaxOther
  /\ owner' = [owner EXCEPT !.sequence = @ + 1]
  /\ UNCHANGED <<receipts, claims, lapsed, ledger, runs, proc>>

\* reconcileSessionBrokerState after a rotation
Reconciled(o) ==
  [o EXCEPT !.preparation =
     IF @ # None /\ @.generation # o.generation THEN None ELSE @]

\* rotate_turn_lease or rotate_generations
Rotate ==
  /\ owner.phase # "settled" /\ owner.generation < MaxGeneration
  /\ owner' = Reconciled([owner EXCEPT !.generation = @ + 1, !.lease = TRUE, !.sequence = @ + 1])
  /\ UNCHANGED <<receipts, claims, lapsed, ledger, runs, proc>>

\* The deadline of the outstanding preparation or dispatch passes
Lapse ==
  /\ \E d \in Deadlines(owner) \ lapsed : lapsed' = lapsed \cup {d}
  /\ UNCHANGED <<owner, receipts, claims, ledger, runs, proc>>

\* The turn lease expires, and no deadline reaches beyond it
LapseLease ==
  /\ owner.lease
  /\ owner' = [owner EXCEPT !.lease = FALSE]
  /\ lapsed' = lapsed \cup Deadlines(owner)
  /\ UNCHANGED <<receipts, claims, ledger, runs, proc>>

\* A coordinator process dies, or gives up on an answer that was lost
Crash(c) ==
  /\ proc[c].pc # "idle"
  /\ Return(c)
  /\ UNCHANGED <<owner, receipts, claims, lapsed, ledger, runs>>

Deliver(c) ==
  \/ DispatchAdmitted(c) \/ ValidateDispatch(c)
  \/ PrepareCommand(c) \/ ReadForClaim(c) \/ ClaimStart(c) \/ VerifyStart(c)
  \/ StartProvider(c) \/ RecordAccepted(c)
  \/ \E s \in {"committed", "failed", "unknown"} : RecordTerminal(c, s)
  \/ LookupLedger(c) \/ LookupCommit(c)
  \/ PrepareRetry(c) \/ DispatchReserved(c) \/ Block(c)
  \/ SettleInterrupted(c) \/ SettleFailed(c) \/ MarkExternallyCommitted(c) \/ SettleCommitted(c)

Next ==
  \/ \E c \in Coordinators, k \in Keys :
       \/ AdmitDispatch(c, k) \/ RecoverReplay(c, k)
       \/ \E confirmed \in BOOLEAN : RecoverEffect(c, k, confirmed)
       \/ ConfirmExternalCommit(c, k) \/ SettleEffect(c, k)
  \/ \E c \in Coordinators : Deliver(c) \/ Crash(c)
  \/ RequestAbort \/ OtherCommand \/ Rotate \/ Lapse \/ LapseLease

Spec == Init /\ [][Next]_vars

-----------------------------------------------------------------------------
(* Properties *)

\* Every variable has its type.
TypeOK ==
  /\ owner \in Owner
  /\ receipts \subseteq Receipt
  /\ claims \subseteq Sequences /\ lapsed \subseteq Sequences
  /\ ledger \in [Attempts -> LedgerStates]
  /\ runs \in Nat
  /\ proc \in [Coordinators -> Proc]

\* What assertSessionBrokerState demands of the owner's record in every state: a
\* preparation is for the next attempt under the current generations, a first
\* one only while the effect is prepared, a retry follows its source event, and
\* a start claim belongs to the current attempt.
BrokerConsistent ==
  LET p == owner.preparation IN
  /\ p # None =>
       /\ p.attempt = owner.attempt + 1 /\ p.sequence <= owner.sequence
       /\ p.generation = owner.generation
       /\ p.retry => p.sequence = p.source + 1
       /\ ~p.retry => owner.phase = "prepared"
  /\ owner.dispatch # None => owner.dispatch.attempt = owner.attempt
  /\ owner.started <=> owner.dispatch # None /\ owner.dispatch.sequence \in claims

\* A retry is reserved only while no start is claimed, and no start is claimed
\* while it is reserved: the two ways out of an uncertain dispatch exclude
\* each other in the durable record.
ReservationExcludesStart == Reserved => ~owner.started

\* Over all attempts, coordinators, crashes and repeated calls, one effect calls
\* its provider at most once (DispatchConsumer: "makes no provider retry"), and an
\* effect settled as interrupted has not called it, nor is a process left that will.
OneProviderCall ==
  /\ runs <= 1
  /\ owner.settlement = "interrupted" =>
       runs = 0 /\ \A c \in Coordinators : proc[c].pc \notin {"starting", "running"}

\* A settlement reports what the ledger holds for the effect's last attempt,
\* although snapshot, ledger answer and command are three separate steps.
SettledAsRecorded ==
  /\ owner.settlement = "success" => ledger[owner.attempt] = "committed"
  /\ owner.settlement = "failed" => ledger[owner.attempt] = "failed"

\* An effect is called once and settled as it went: what the broker promises its Session.
EffectsSound == OneProviderCall /\ SettledAsRecorded

=============================================================================
