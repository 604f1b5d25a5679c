------------------------------ MODULE Session ------------------------------
(***************************************************************************)
(* The Session durable object (workers/state-app/src/session/aggregate.ts): *)
(* the only durable program counter of a session's turns and effects.       *)
(*                                                                          *)
(* Every command is one atomic action: applySessionCoreCommand works on a   *)
(* clone of the state and the host stores the result or nothing.  A refused *)
(* command changes nothing and is not a step.  Every command but the start  *)
(* claim carries expectedEventSequence (2988-2996), so a client acts on the *)
(* state it read or is refused: the parameters of those actions are what a  *)
(* client that read the current state may send.  The start claim is exempt  *)
(* from that comparison, so it may present ANY permit issued so far.        *)
(*                                                                          *)
(* Digests, payloads and identifiers are model values.  Old records stay in *)
(* the state (the archive is not modelled), and the broker record that      *)
(* guards one effect is module EffectBroker.                                *)
(***************************************************************************)
EXTENDS Integers, Sequences, FiniteSets, Functions, FiniteSetsExt

CONSTANTS
  Turns,          \* turn identifiers
  Effects,        \* effect identifiers (each with its own invocationId)
  Revisions,      \* runtime revision digests
  FirstRevision,  \* the revision the session is created with
  Keys,           \* idempotency keys of public admissions
  Kinds,          \* fenced generations: placement, sandbox, authorization
  Policies,       \* replay policies used: "safe", "never", "confirm", ...
  Services,       \* effect services used: "model", "tool"
  MaxTime,        \* bound on the host clock, leases and deadlines
  MaxGeneration,  \* bound on the fenced generations and on lease rotations
  Capacity,       \* durable limit, in units of one command's growth
  None

ASSUME SessionAssumption ==
  /\ MaxTime \in Nat /\ MaxGeneration \in Nat /\ Capacity \in Nat
  /\ FirstRevision \in Revisions
  /\ Policies \subseteq {"safe", "idempotency-key", "never", "confirm"}
  /\ Services \subseteq {"model", "tool"}
  /\ None \notin Turns \cup Effects \cup Revisions \cup Keys

VARIABLES
  now,            \* trusted host time (context.transactionTime)
  eventSequence,
  knownTurnIds,   \* every admitted turn, in admission order
  queuedTurns,
  activeTurn,     \* the active turn's record, or None
  terminalTurns,
  effects,        \* effect records, None while the identifier is unused
  generations,
  runtimePointer,
  permits,        \* the dispatch permits in the command receipts
  admissions,     \* public admission receipts by idempotency key
  publicEvents,   \* the public event journal
  freshStarts     \* per effect, the claims answered with fresh: true

vars == <<now, eventSequence, knownTurnIds, queuedTurns, activeTurn,
          terminalTurns, effects, generations, runtimePointer, permits,
          admissions, publicEvents, freshStarts>>

----------------------------------------------------------------------------
(* The shapes of the durable records. *)

Time == 0..MaxTime

Fence == [lease : Nat, generations : [Kinds -> Nat]]

QueuedTurn == [turn : Turns, expires : Time, revision : Revisions]

ActiveTurn ==
  [turn : Turns, expires : Time, revision : Revisions, lease : Nat \ {0},
   status : {"active", "needs_confirmation"}, abort : BOOLEAN,
   checkpoint : Nat, effect : Effects \cup {None}]

TerminalTurn ==
  [turn : Turns, status : {"completed", "failed", "aborted"}, revision : Revisions]

Phases == {"prepared", "dispatched", "externally_committed", "blocked", "settled"}

\* lastDispatch; start is the claimedEventSequence of the start tombstone, 0 for null
Dispatch == [attempt : Nat, fence : Fence, deadline : Time, start : Nat]

NoDispatch == [attempt |-> 0,
               fence |-> [lease |-> 0, generations |-> [k \in Kinds |-> 0]],
               deadline |-> 0, start |-> 0]

Effect ==
  [turn : Turns, service : Services, policy : Policies, phase : Phases,
   attempt : Nat, dispatch : Dispatch,
   settlement : {"none", "success", "error", "interrupted_unknown", "abandoned"},
   consumedAt : Nat, byAbort : BOOLEAN]

\* dispatchPermitClaims, with the sequence of the receipt that carries them
Permit == [seq : Nat, effect : Effects, attempt : Nat, fence : Fence, deadline : Time]

Pointer == [active : Revisions, candidate : Revisions \cup {None},
            previous : Revisions \cup {None}, switch : Nat \ {0}]

Receipt == [turn : Turns, activated : BOOLEAN]

\* What a public event says; effect events name their effect
Event == [type : {"accepted", "prepared", "externally_committed", "settled",
                  "needs_confirmation", "completed", "failed", "aborted"},
          turn : Turns, effect : Effects \cup {None}]

\* None is no record, so a missing turn, effect or receipt is never taken for one
ASSUME NoneAssumption == None \notin ActiveTurn \cup Effect \cup Receipt

TypeOK ==
  /\ now \in Time /\ eventSequence \in Nat
  /\ knownTurnIds \in Seq(Turns)
  /\ queuedTurns \in Seq(QueuedTurn)
  /\ activeTurn \in ActiveTurn \cup {None}
  /\ terminalTurns \in Seq(TerminalTurn)
  /\ effects \in [Effects -> Effect \cup {None}]
  /\ generations \in [Kinds -> Nat]
  /\ runtimePointer \in Pointer
  /\ permits \in SUBSET Permit
  /\ admissions \in [Keys -> Receipt \cup {None}]
  /\ publicEvents \in Seq(Event)
  /\ freshStarts \in [Effects -> Nat]

Init ==
  /\ now = 0 /\ eventSequence = 0
  /\ knownTurnIds = << >> /\ queuedTurns = << >> /\ terminalTurns = << >>
  /\ activeTurn = None
  /\ effects = [e \in Effects |-> None]
  /\ generations = [k \in Kinds |-> 0]
  /\ runtimePointer = [active |-> FirstRevision, candidate |-> None,
                       previous |-> None, switch |-> 1]
  /\ permits = {} /\ publicEvents = << >>
  /\ admissions = [k \in Keys |-> None]
  /\ freshStarts = [e \in Effects |-> 0]

----------------------------------------------------------------------------
(* Capacity.  A command is refused unless the state it leaves still has room *)
(* for everything that is needed to finish the outstanding work.             *)

EffectUnits(effect) ==
  CASE effect = None -> 0
    [] effect # None /\ effect.phase = "prepared" -> 4
    [] effect # None /\ effect.phase = "dispatched" ->
         IF effect.dispatch.start = 0 THEN 3 ELSE 2
    [] effect # None /\ effect.phase = "externally_committed" -> 1
    [] effect # None /\ effect.phase = "blocked" -> 2
    [] effect # None /\ effect.phase = "settled" -> 0

TurnUnits(active) ==
  IF active = None THEN 0 ELSE IF active.abort THEN 1 ELSE 2

ReservedUnits(queue, active, effs) ==
  2 * Len(queue) + TurnUnits(active)
    + MapThenSumSet(LAMBDA e : EffectUnits(effs[e]), Effects)

assertSessionCapacity ==
  eventSequence' + ReservedUnits(queuedTurns', activeTurn', effects') <= Capacity

----------------------------------------------------------------------------
(* The tail every command shares: public events, sequence, capacity. *)

PublicTurns == {admissions'[k].turn : k \in {i \in Keys : admissions'[i] # None}}

\* The public event of one effect's transition, if it has one
EffectEvents(e) ==
  LET event(type) == <<[type |-> type, turn |-> effects'[e].turn, effect |-> e]>>
  IN  IF effects'[e] = None \/ effects'[e].turn \notin PublicTurns THEN << >>
      ELSE IF effects[e] = None THEN event("prepared")
      ELSE IF effects[e].phase = effects'[e].phase THEN << >>
      ELSE IF effects'[e].phase = "externally_committed" /\ effects'[e].service # "model"
           THEN event("externally_committed")
      ELSE IF effects'[e].phase = "settled" THEN event("settled")
      ELSE << >>

\* A command moves at most one effect
EffectTail ==
  LET moved == {e \in Effects : EffectEvents(e) # << >>}
  IN  IF moved = {} THEN << >> ELSE EffectEvents(CHOOSE e \in moved : TRUE)

ConfirmationTail ==
  IF /\ activeTurn' # None /\ activeTurn'.status = "needs_confirmation"
     /\ activeTurn'.turn \in PublicTurns
     /\ activeTurn # None => activeTurn.status # "needs_confirmation"
  THEN <<[type |-> "needs_confirmation", turn |-> activeTurn'.turn,
          effect |-> activeTurn'.effect]>>
  ELSE << >>

TerminalTail ==
  LET new == SelectSeq(SubSeq(terminalTurns', Len(terminalTurns) + 1, Len(terminalTurns')),
                       LAMBDA t : t.turn \in PublicTurns)
  IN  [i \in 1..Len(new) |-> [type |-> new[i].status, turn |-> new[i].turn, effect |-> None]]

Commit(accepted) ==
  /\ publicEvents' = publicEvents \o accepted \o EffectTail
                       \o ConfirmationTail \o TerminalTail
  /\ eventSequence' = eventSequence + 1
  /\ assertSessionCapacity
  /\ UNCHANGED now

----------------------------------------------------------------------------
(* Turns: admission, lease rotation, and FIFO promotion when one ends. *)

Activated(turn, expires, revision) ==
  [turn |-> turn, expires |-> expires, revision |-> revision, lease |-> 1,
   status |-> "active", abort |-> FALSE, checkpoint |-> 0, effect |-> None]

\* How many heads of the queue have a lapsed lease
LapsedHeads(queue) ==
  CHOOSE n \in 0..Len(queue) :
    /\ \A i \in 1..n : queue[i].expires <= now
    /\ n < Len(queue) => now < queue[n + 1].expires

Terminal(turn, outcome) ==
  [turn |-> turn.turn, status |-> outcome, revision |-> turn.revision]


\* The active turn ends; lapsed heads are aborted and the next live one activates
EndTurn(outcome) ==
  LET n == LapsedHeads(queuedTurns)
      lapsed == [i \in 1..n |-> Terminal(queuedTurns[i], "aborted")]
  IN  /\ terminalTurns' = Append(terminalTurns, Terminal(activeTurn, outcome)) \o lapsed
      /\ activeTurn' = IF n = Len(queuedTurns) THEN None
                       ELSE Activated(queuedTurns[n + 1].turn, queuedTurns[n + 1].expires,
                                      queuedTurns[n + 1].revision)
      /\ queuedTurns' = SubSeq(queuedTurns, n + 2, Len(queuedTurns))

EnqueueTurn(t, expires, k) ==
  /\ runtimePointer.candidate = None
  /\ activeTurn # None => activeTurn.status # "needs_confirmation"
  /\ t \notin Range(knownTurnIds)
  /\ now < expires
  /\ k # None => admissions[k] = None
  /\ knownTurnIds' = Append(knownTurnIds, t)
  /\ IF activeTurn = None
     THEN /\ activeTurn' = Activated(t, expires, runtimePointer.active)
          /\ UNCHANGED queuedTurns
     ELSE /\ queuedTurns' = Append(queuedTurns, [turn |-> t, expires |-> expires,
                                                 revision |-> runtimePointer.active])
          /\ UNCHANGED activeTurn
  /\ admissions' = IF k = None THEN admissions
                   ELSE [admissions EXCEPT ![k] = [turn |-> t, activated |-> activeTurn = None]]
  /\ UNCHANGED <<terminalTurns, effects, generations, runtimePointer, permits, freshStarts>>
  /\ Commit(IF k = None THEN << >>
            ELSE <<[type |-> "accepted", turn |-> t, effect |-> None]>>)

RotateTurnLease(expires) ==
  /\ activeTurn # None
  /\ activeTurn.lease <= MaxGeneration
  /\ now < expires
  /\ activeTurn' = [activeTurn EXCEPT !.lease = @ + 1, !.expires = expires]
  /\ UNCHANGED <<knownTurnIds, queuedTurns, terminalTurns, effects, generations,
                 runtimePointer, permits, admissions, freshStarts>>
  /\ Commit(<< >>)

RequestAbort ==
  /\ activeTurn # None
  /\ IF activeTurn.effect = None
     THEN EndTurn("aborted")
     ELSE /\ activeTurn' = [activeTurn EXCEPT !.abort = TRUE]
          /\ UNCHANGED <<queuedTurns, terminalTurns>>
  /\ UNCHANGED <<knownTurnIds, effects, generations, runtimePointer, permits,
                 admissions, freshStarts>>
  /\ Commit(<< >>)

\* The commands that a turn awaiting confirmation refuses (3036-3043)
NotAwaiting == activeTurn # None /\ activeTurn.status # "needs_confirmation"

Unconsumed(e) == effects[e].consumedAt = 0 /\ ~effects[e].byAbort

\* Variant of FinalizeAbort: an interrupted settlement does not count as settled.
FinalizeAbortUnlessInterrupted ==
  /\ NotAwaiting /\ activeTurn.abort
  /\ IF activeTurn.effect = None
     THEN UNCHANGED effects
     ELSE /\ effects[activeTurn.effect].settlement \in {"success", "error"}
          /\ Unconsumed(activeTurn.effect)
          /\ effects' = [effects EXCEPT ![activeTurn.effect].byAbort = TRUE]
  /\ EndTurn("aborted")
  /\ UNCHANGED <<knownTurnIds, generations, runtimePointer, permits, admissions, freshStarts>>
  /\ Commit(<< >>)

FinalizeAbort ==
  /\ NotAwaiting /\ activeTurn.abort
  /\ IF activeTurn.effect = None
     THEN UNCHANGED effects
     ELSE /\ effects[activeTurn.effect].phase = "settled"
          /\ Unconsumed(activeTurn.effect)
          /\ effects' = [effects EXCEPT ![activeTurn.effect].byAbort = TRUE]
  /\ EndTurn("aborted")
  /\ UNCHANGED <<knownTurnIds, generations, runtimePointer, permits, admissions, freshStarts>>
  /\ Commit(<< >>)

----------------------------------------------------------------------------
(* Engine steps: each advances the checkpoint by one and consumes the        *)
(* settlement of the previous effect, if there is one.                       *)

StepAllowed ==
  /\ NotAwaiting /\ ~activeTurn.abort
  /\ now < activeTurn.expires
  /\ activeTurn.effect # None =>
       effects[activeTurn.effect].phase = "settled" /\ Unconsumed(activeTurn.effect)

\* Variant of Consumed: the step moves on without marking the settlement.
ConsumedUnmarked == effects

Consumed ==
  IF activeTurn.effect = None THEN effects
  ELSE [effects EXCEPT ![activeTurn.effect].consumedAt = activeTurn.checkpoint + 1]

CommitCheckpoint ==
  /\ StepAllowed
  /\ effects' = Consumed
  /\ activeTurn' = [activeTurn EXCEPT !.checkpoint = @ + 1, !.effect = None]
  /\ UNCHANGED <<knownTurnIds, queuedTurns, terminalTurns, generations,
                 runtimePointer, permits, admissions, freshStarts>>
  /\ Commit(<< >>)

CommitEffectRequest(e, service, policy) ==
  /\ StepAllowed
  /\ effects[e] = None
  /\ effects' = [Consumed EXCEPT ![e] =
                   [turn |-> activeTurn.turn, service |-> service, policy |-> policy,
                    phase |-> "prepared", attempt |-> 0, dispatch |-> NoDispatch,
                    settlement |-> "none", consumedAt |-> 0, byAbort |-> FALSE]]
  /\ activeTurn' = [activeTurn EXCEPT !.checkpoint = @ + 1, !.effect = e]
  /\ UNCHANGED <<knownTurnIds, queuedTurns, terminalTurns, generations,
                 runtimePointer, permits, admissions, freshStarts>>
  /\ Commit(<< >>)

CommitTurnEnd(outcome) ==
  /\ StepAllowed
  /\ effects' = Consumed
  /\ EndTurn(outcome)
  /\ UNCHANGED <<knownTurnIds, generations, runtimePointer, permits, admissions, freshStarts>>
  /\ Commit(<< >>)

----------------------------------------------------------------------------
(* Effects: dispatch, start claim, external commit, settlement, recovery.    *)

CurrentFence == [lease |-> activeTurn.lease, generations |-> generations]

ActiveEffect(e) == activeTurn # None /\ activeTurn.effect = e

\* A fresh attempt: the next number, the current fence, no start tombstone
Redispatched(effect, deadline) ==
  [effect EXCEPT
     !.phase = "dispatched",
     !.attempt = @ + 1,
     !.dispatch = [attempt |-> effect.attempt + 1, fence |-> CurrentFence,
                   deadline |-> deadline, start |-> 0]]

\* The permit the receipt of that attempt carries
IssuePermit(e, deadline) ==
  permits' = permits \cup {[seq |-> eventSequence + 1, effect |-> e,
                            attempt |-> effects[e].attempt + 1,
                            fence |-> CurrentFence, deadline |-> deadline]}

DispatchEffect(e, deadline) ==
  /\ NotAwaiting /\ ActiveEffect(e) /\ ~activeTurn.abort
  /\ effects[e].phase = "prepared"
  /\ now < deadline /\ deadline <= activeTurn.expires
  /\ effects' = [effects EXCEPT ![e] = Redispatched(@, deadline)]
  /\ IssuePermit(e, deadline)
  /\ UNCHANGED <<knownTurnIds, queuedTurns, activeTurn, terminalTurns, generations,
                 runtimePointer, admissions, freshStarts>>
  /\ Commit(<< >>)

\* The permit is the one durably issued for the effect's current attempt
MatchesDispatch(p) ==
  LET d == effects[p.effect].dispatch
  IN  /\ p.attempt = effects[p.effect].attempt /\ p.attempt = d.attempt
      /\ p.fence = d.fence /\ p.deadline = d.deadline

\* Any permit issued so far may be presented, under the fence it names; only
\* the one that passes this is granted the right to start provider I/O
Claimable(p) ==
  /\ NotAwaiting /\ ActiveEffect(p.effect) /\ ~activeTurn.abort
  /\ p.fence = CurrentFence
  /\ effects[p.effect].phase = "dispatched"
  /\ effects[p.effect].dispatch.start = 0
  /\ now < effects[p.effect].dispatch.deadline
  /\ MatchesDispatch(p)

\* A repeated commandId is answered with the permit of its receipt only if this
\* holds; any other repeat of a command returns its receipt and changes nothing
Replayable(p) ==
  /\ activeTurn # None /\ p.fence = CurrentFence /\ ~activeTurn.abort
  /\ ActiveEffect(p.effect) /\ effects[p.effect].phase = "dispatched"
  /\ MatchesDispatch(p)

ClaimDispatchStart(p) ==
  /\ Claimable(p)
  /\ effects' = [effects EXCEPT ![p.effect].dispatch.start = eventSequence + 1]
  /\ freshStarts' = [freshStarts EXCEPT ![p.effect] = @ + 1]
  /\ UNCHANGED <<knownTurnIds, queuedTurns, activeTurn, terminalTurns, generations,
                 runtimePointer, permits, admissions>>
  /\ Commit(<< >>)

\* Only a report for the current attempt is accepted
RecordExternalCommit(e) ==
  /\ ActiveEffect(e)
  /\ effects[e].phase \in {"dispatched", "blocked"}
  /\ effects' = [effects EXCEPT ![e].phase = "externally_committed"]
  /\ activeTurn' = [activeTurn EXCEPT !.status = "active"]
  /\ UNCHANGED <<knownTurnIds, queuedTurns, terminalTurns, generations, runtimePointer,
                 permits, admissions, freshStarts>>
  /\ Commit(<< >>)

Settled(effect, kind) == [effect EXCEPT !.phase = "settled", !.settlement = kind]

SettleEffect(e, kind) ==
  /\ NotAwaiting /\ ActiveEffect(e)
  /\ effects[e].phase \notin {"settled", "blocked"}
  /\ effects[e].phase = "prepared" => kind # "success"
  /\ effects' = [effects EXCEPT ![e] = Settled(@, kind)]
  /\ UNCHANGED <<knownTurnIds, queuedTurns, activeTurn, terminalTurns, generations,
                 runtimePointer, permits, admissions, freshStarts>>
  /\ Commit(<< >>)

\* Variant of Recoverable: a claimed start does not stand in recovery's way.
RecoverableThoughStarted(e) ==
  /\ NotAwaiting /\ ActiveEffect(e)
  /\ effects[e].phase = "dispatched"

\* An uncertain, unstarted dispatch.  Recovery trusts the command's own time
\* (clientTime), which may lag the host clock.
Recoverable(e) ==
  /\ NotAwaiting /\ ActiveEffect(e)
  /\ effects[e].phase = "dispatched"
  /\ effects[e].dispatch.start = 0

RecoveryWindow(clientTime, deadline) ==
  \/ activeTurn.abort
  \/ clientTime < deadline /\ deadline <= activeTurn.expires

RecoverRetry(e, clientTime, deadline) ==
  /\ Recoverable(e) /\ ~activeTurn.abort
  /\ RecoveryWindow(clientTime, deadline)
  /\ effects[e].policy \in {"safe", "idempotency-key"}
  /\ effects' = [effects EXCEPT ![e] = Redispatched(@, deadline)]
  /\ IssuePermit(e, deadline)
  /\ UNCHANGED <<knownTurnIds, queuedTurns, activeTurn, terminalTurns, generations,
                 runtimePointer, admissions, freshStarts>>
  /\ Commit(<< >>)

RecoverInterrupt(e, clientTime, deadline) ==
  /\ Recoverable(e)
  /\ RecoveryWindow(clientTime, deadline)
  /\ \/ activeTurn.abort /\ effects[e].policy # "confirm"
     \/ effects[e].policy = "never"
  /\ effects' = [effects EXCEPT ![e] = Settled(@, "interrupted_unknown")]
  /\ UNCHANGED <<knownTurnIds, queuedTurns, activeTurn, terminalTurns, generations,
                 runtimePointer, permits, admissions, freshStarts>>
  /\ Commit(<< >>)

RecoverBlock(e, clientTime, deadline) ==
  /\ Recoverable(e)
  /\ RecoveryWindow(clientTime, deadline)
  /\ effects[e].policy = "confirm"
  /\ effects' = [effects EXCEPT ![e].phase = "blocked"]
  /\ activeTurn' = [activeTurn EXCEPT !.status = "needs_confirmation"]
  /\ UNCHANGED <<knownTurnIds, queuedTurns, terminalTurns, generations, runtimePointer,
                 permits, admissions, freshStarts>>
  /\ Commit(<< >>)

ConfirmRetry(e, clientTime, deadline) ==
  /\ ActiveEffect(e) /\ ~activeTurn.abort
  /\ effects[e].phase = "blocked"
  /\ clientTime < deadline /\ deadline <= activeTurn.expires
  /\ effects[e].dispatch.start = 0
  /\ effects' = [effects EXCEPT ![e] = Redispatched(@, deadline)]
  /\ activeTurn' = [activeTurn EXCEPT !.status = "active"]
  /\ IssuePermit(e, deadline)
  /\ UNCHANGED <<knownTurnIds, queuedTurns, terminalTurns, generations, runtimePointer,
                 admissions, freshStarts>>
  /\ Commit(<< >>)

ConfirmAbandon(e) ==
  /\ ActiveEffect(e)
  /\ effects[e].phase = "blocked"
  /\ effects' = [effects EXCEPT ![e] = Settled(@, "abandoned")]
  /\ activeTurn' = [activeTurn EXCEPT !.status = "active"]
  /\ UNCHANGED <<knownTurnIds, queuedTurns, terminalTurns, generations, runtimePointer,
                 permits, admissions, freshStarts>>
  /\ Commit(<< >>)

----------------------------------------------------------------------------
(* The runtime pointer and the fenced generations. *)

SwitchPointer(pointer) ==
  /\ runtimePointer' = pointer
  /\ UNCHANGED <<knownTurnIds, queuedTurns, activeTurn, terminalTurns, effects,
                 generations, permits, admissions, freshStarts>>
  /\ Commit(<< >>)

Drained == activeTurn = None /\ queuedTurns = << >>

\* Variant of StageRevision: the previous revision may be staged again.
StagePrevious(r) ==
  /\ runtimePointer.candidate = None
  /\ r # runtimePointer.active
  /\ SwitchPointer([runtimePointer EXCEPT !.candidate = r])

StageRevision(r) ==
  /\ runtimePointer.candidate = None
  /\ r \notin {runtimePointer.active, runtimePointer.previous}
  /\ SwitchPointer([runtimePointer EXCEPT !.candidate = r])

DiscardCandidate ==
  /\ runtimePointer.candidate # None
  /\ SwitchPointer([runtimePointer EXCEPT !.candidate = None])

ActivateRevision ==
  /\ runtimePointer.candidate # None
  /\ Drained
  /\ SwitchPointer([active |-> runtimePointer.candidate, candidate |-> None,
                    previous |-> runtimePointer.active,
                    switch |-> runtimePointer.switch + 1])

RollbackRevision ==
  /\ runtimePointer.candidate = None /\ runtimePointer.previous # None
  /\ Drained
  /\ SwitchPointer([active |-> runtimePointer.previous, candidate |-> None,
                    previous |-> runtimePointer.active,
                    switch |-> runtimePointer.switch + 1])

RotateGenerations(to) ==
  /\ \A k \in Kinds : generations[k] <= to[k]
  /\ to # generations
  /\ generations' = to
  /\ UNCHANGED <<knownTurnIds, queuedTurns, activeTurn, terminalTurns, effects,
                 runtimePointer, permits, admissions, freshStarts>>
  /\ Commit(<< >>)

\* The host clock advances
Tick ==
  /\ now < MaxTime
  /\ now' = now + 1
  /\ UNCHANGED <<eventSequence, knownTurnIds, queuedTurns, activeTurn, terminalTurns,
                 effects, generations, runtimePointer, permits, admissions,
                 publicEvents, freshStarts>>

TurnNext ==
  \/ \E t \in Turns, x \in Time, k \in Keys \cup {None} : EnqueueTurn(t, x, k)
  \/ \E x \in Time : RotateTurnLease(x)
  \/ RequestAbort
  \/ FinalizeAbort
  \/ CommitCheckpoint
  \/ \E e \in Effects, s \in Services, p \in Policies : CommitEffectRequest(e, s, p)
  \/ \E outcome \in {"completed", "failed"} : CommitTurnEnd(outcome)

EffectNext ==
  \E e \in Effects :
    \/ \E d \in Time : DispatchEffect(e, d)
    \/ RecordExternalCommit(e)
    \/ \E kind \in {"success", "error", "interrupted_unknown"} : SettleEffect(e, kind)
    \/ \E c, d \in Time : RecoverRetry(e, c, d)
    \/ \E c, d \in Time : RecoverInterrupt(e, c, d)
    \/ \E c, d \in Time : RecoverBlock(e, c, d)
    \/ \E c, d \in Time : ConfirmRetry(e, c, d)
    \/ ConfirmAbandon(e)

PointerNext ==
  \/ \E r \in Revisions : StageRevision(r)
  \/ DiscardCandidate
  \/ ActivateRevision
  \/ RollbackRevision
  \/ \E g \in [Kinds -> 0..MaxGeneration] : RotateGenerations(g)

Next ==
  \/ TurnNext
  \/ EffectNext
  \/ \E p \in permits : ClaimDispatchStart(p)
  \/ PointerNext
  \/ Tick

Spec == Init /\ [][Next]_vars

\* The owner of an aborted turn keeps driving it: it settles the effect, or
\* abandons it when it awaits confirmation, and finalizes the abort.
DriveAbort ==
  /\ activeTurn # None /\ activeTurn.abort
  /\ \/ \E e \in Effects : SettleEffect(e, "interrupted_unknown") \/ ConfirmAbandon(e)
     \/ FinalizeAbort

----------------------------------------------------------------------------
(* Correctness. *)

\* Over all attempts, retries, replays and races of an effect, at most one
\* start claim is ever answered fresh: true (claim_dispatch_start).
SingleStart == \A e \in Effects : freshStarts[e] <= 1

\* At most one of all the permits ever issued can still be claimed: a retry,
\* recovery or confirmed retry supersedes the permits of earlier attempts.
OneLivePermit == \A p, q \in permits : Claimable(p) /\ Claimable(q) => p = q

\* A replayed receipt never revives a superseded permit: what it hands out is the
\* newest permit of its effect, and can be claimed until it is started or late.
ReplayIsCurrent ==
  \A p \in permits : Replayable(p) =>
    /\ \A q \in permits : q.effect = p.effect => q.seq <= p.seq
    /\ effects[p.effect].dispatch.start = 0 /\ now < p.deadline => Claimable(p)

\* Permits are sound: one start, one live permit, no revival of a superseded one.
PermitsSound == SingleStart /\ OneLivePermit /\ ReplayIsCurrent

\* Each settlement is consumed at most once, by a checkpoint or by the abort,
\* and until then its effect is the active turn's only effect (1754-1800).
SettlementAccounted ==
  \A e \in Effects : effects[e] # None =>
    /\ Unconsumed(e) <=> ActiveEffect(e)
    /\ ~Unconsumed(e) => effects[e].phase = "settled"
    /\ ~(effects[e].byAbort /\ effects[e].consumedAt # 0)
    /\ ActiveEffect(e) => effects[e].turn = activeTurn.turn

\* A turn awaits confirmation exactly while its effect is blocked (1801-1812).
BlockedAwaits ==
  activeTurn # None =>
    ((activeTurn.status = "needs_confirmation")
       <=> (activeTurn.effect # None /\ effects[activeTurn.effect].phase = "blocked"))

\* Every admitted turn is terminal, active or queued, exactly once, and turns
\* end strictly in admission order (1279-1525).
FifoOrder ==
  LET ids(s) == [i \in 1..Len(s) |-> s[i].turn]
  IN  /\ knownTurnIds = ids(terminalTurns)
                          \o (IF activeTurn = None THEN << >> ELSE <<activeTurn.turn>>)
                          \o ids(queuedTurns)
      /\ activeTurn = None => queuedTurns = << >>
      /\ IsInjective(knownTurnIds)

\* A turn that is queued or active runs under the active runtime revision: the
\* pointer is only switched when the session is drained (checkpointMatchesSession).
RevisionPinned ==
  /\ activeTurn # None => activeTurn.revision = runtimePointer.active
  /\ \A i \in 1..Len(queuedTurns) : queuedTurns[i].revision = runtimePointer.active

\* Across stagings, activations and rollbacks, the active, candidate and previous
\* revisions never alias (1188-1193), so a rollback always has another target.
PointerDistinct ==
  /\ runtimePointer.candidate # runtimePointer.active
  /\ runtimePointer.previous # runtimePointer.active
  /\ runtimePointer.candidate # None => runtimePointer.candidate # runtimePointer.previous

\* The revisions are kept: what was admitted under a revision runs under it, and a
\* rollback always has another target.
RevisionsKept == RevisionPinned /\ PointerDistinct

\* The public journal tells each public turn's story in order: accepted first and
\* once, each effect prepared before anything else is said of it, nothing about an
\* effect after it settled or about a turn after its end, and an end for exactly
\* the public turns that are terminal, with their status (1833-2011).
JournalOrder ==
  LET ends == {"completed", "failed", "aborted"}
      before(i, j) == i < j /\ publicEvents[i].turn = publicEvents[j].turn
      dom == 1..Len(publicEvents)
  IN  /\ \A j \in dom : (publicEvents[j].type = "accepted")
                         <=> (\A i \in dom : ~before(i, j))
      /\ \A i, j \in dom : before(i, j) => publicEvents[i].type \notin ends
      /\ \A j \in dom : publicEvents[j].effect # None =>
           LET told == {i \in dom : i < j /\ publicEvents[i].effect = publicEvents[j].effect}
           IN  /\ (publicEvents[j].type = "prepared") <=> (told = {})
               /\ \A i \in told : publicEvents[i].type # "settled"
      /\ \A k \in Keys : admissions[k] # None =>
           {publicEvents[i].type : i \in {j \in dom :
              publicEvents[j].turn = admissions[k].turn /\ publicEvents[j].type \in ends}}
           = {terminalTurns[i].status : i \in {j \in 1..Len(terminalTurns) :
              terminalTurns[j].turn = admissions[k].turn}}

\* Every accepted public turn has exactly one admission receipt and every receipt
\* names an accepted turn: one idempotency key never admits two turns (2013-2083).
AdmissionReceipts ==
  LET accepted == {i \in 1..Len(publicEvents) : publicEvents[i].type = "accepted"}
      receipts == {k \in Keys : admissions[k] # None}
  IN  /\ {publicEvents[i].turn : i \in accepted} = {admissions[k].turn : k \in receipts}
      /\ Cardinality(accepted) = Cardinality(receipts)

\* "abort/claim/settlement can still commit when ordinary forward growth has
\* reached the admission boundary" (sessionCapacity): whatever the session has
\* outstanding, the capacity reserved for it suffices to drain it.
DrainPossible ==
  activeTurn # None =>
    /\ ~activeTurn.abort => ENABLED RequestAbort
    /\ \A p \in permits : Claimable(p) => ENABLED ClaimDispatchStart(p)
    /\ LET e == activeTurn.effect
       IN  IF e = None THEN TRUE
           ELSE CASE effects[e].phase = "settled" -> activeTurn.abort => ENABLED FinalizeAbort
                  [] effects[e].phase = "blocked" -> ENABLED ConfirmAbandon(e)
                  [] OTHER -> ENABLED SettleEffect(e, "error")


\* A requested abort ends the turn, whatever its effect was doing.
AbortCompletes ==
  \A t \in Turns :
    (activeTurn # None /\ activeTurn.turn = t /\ activeTurn.abort)
      ~> (\E i \in 1..Len(terminalTurns) : terminalTurns[i].turn = t)
====
