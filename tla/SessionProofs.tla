--------------------------- MODULE SessionProofs ---------------------------
(***************************************************************************)
(* Safety of the Session durable object, for any turns, effects, policies,  *)
(* clocks, generations and capacity: one start per effect, one live permit, *)
(* replayed receipts, settlements consumed once, confirmations and runtime  *)
(* revisions.  The argument is the inductive invariant Inv below.           *)
(***************************************************************************)
EXTENDS Session, WellFoundedInduction, TLAPS

\* The state the properties are about; the journal and the receipts of public
\* admissions are written by the commands and read by none of these guards.
CoreType ==
  /\ now \in Time /\ eventSequence \in Nat
  /\ queuedTurns \in Seq(QueuedTurn)
  /\ activeTurn \in ActiveTurn \cup {None}
  /\ effects \in [Effects -> Effect \cup {None}]
  /\ generations \in [Kinds -> Nat]
  /\ runtimePointer \in Pointer
  /\ permits \subseteq Permit
  /\ freshStarts \in [Effects -> Nat]

\* The active effect has a record
ActiveExists == activeTurn # None /\ activeTurn.effect # None => effects[activeTurn.effect] # None

\* The start tombstone of an effect tells whether a start was ever granted
StartRecorded ==
  \A e \in Effects :
    /\ effects[e] = None => freshStarts[e] = 0
    /\ effects[e] # None =>
         /\ effects[e].dispatch.start = 0 => freshStarts[e] = 0
         /\ effects[e].dispatch.start # 0 => freshStarts[e] = 1
         /\ effects[e].phase = "prepared" => effects[e].dispatch.start = 0

\* Attempts of an effect number its permits, in the order they were issued
PermitsOrdered ==
  /\ \A p \in permits :
       /\ effects[p.effect] # None
       /\ p.attempt <= effects[p.effect].attempt
       /\ p.seq <= eventSequence
  /\ \A p, q \in permits : p.effect = q.effect =>
       /\ p.attempt = q.attempt => p = q
       /\ p.attempt < q.attempt => p.seq < q.seq

Inv ==
  /\ CoreType /\ ActiveExists /\ SettlementAccounted /\ BlockedAwaits
  /\ StartRecorded /\ PermitsOrdered

----------------------------------------------------------------------------
(* Promotion of queued turns. *)

Less == OpToRel(<, Nat)

\* The order of the naturals is well founded.
LEMMA LessWellFounded == IsWellFoundedOn(Less, Nat)
  BY Zenon, NatLessThanWellFounded DEF Less

\* Less holds the pairs of the order.
LEMMA LessPairs == \A i, j \in Nat : i < j => <<i, j>> \in Less
  BY DEF Less, OpToRel

\* A set of naturals that is not empty has a least element.
LEMMA LeastNatural ==
  ASSUME NEW T, T \subseteq Nat, T # {}
  PROVE  \E x \in T : \A y \in T : x <= y
<1>1. PICK x \in T : \A y \in T : ~(<<y, x>> \in Less)
  BY Zenon, LessWellFounded, WFMin
<1>2. \A y \in T : x <= y
  <2> TAKE y \in T
  <2>1. x \in Nat /\ y \in Nat
    OBVIOUS
  <2>2. ~(y < x)
    BY Zenon, <2>1, <1>1, LessPairs
  <2> QED BY <2>1, <2>2
<1> QED BY <1>2

\* The number of lapsed heads that EndTurn skips is well defined.
LEMMA LapsedHeadsExist ==
  ASSUME NEW queue \in Seq(QueuedTurn), now \in Time, MaxTime \in Nat
  PROVE  LapsedHeads(queue) \in 0..Len(queue)
<1> DEFINE Stops == {n \in 0..Len(queue) : n < Len(queue) => now < queue[n + 1].expires}
<1>1. Len(queue) \in Stops /\ Stops \subseteq Nat
  OBVIOUS
<1>2. PICK n \in Stops : \A m \in Stops : n <= m
  BY Zenon, <1>1, LeastNatural
<1>3. n \in 0..Len(queue) /\ (n < Len(queue) => now < queue[n + 1].expires)
  OBVIOUS
<1>4. \A i \in 1..n : queue[i].expires <= now
  <2> TAKE i \in 1..n
  <2>1. i - 1 \in 0..Len(queue) /\ i - 1 < Len(queue) /\ i \in 1..Len(queue) /\ i - 1 < n
    BY <1>3
  <2>2. i - 1 \notin Stops
    BY <2>1, <1>2, <1>3
  <2>3. ~(now < queue[i].expires)
    BY <2>1, <2>2
  <2>4. queue[i] \in QueuedTurn
    BY <2>1
  <2>5. queue[i].expires \in Int /\ now \in Int
    BY <2>4 DEF QueuedTurn, Time
  <2> QED BY <2>3, <2>5
<1> HIDE DEF Stops
<1> QED BY <1>3, <1>4 DEF LapsedHeads

\* The turn a command activates when it ends another one is fresh.
LEMMA EndTurnTypes ==
  ASSUME CoreType, SessionAssumption, NEW outcome, EndTurn(outcome)
  PROVE  /\ queuedTurns' \in Seq(QueuedTurn)
         /\ activeTurn' \in ActiveTurn \cup {None}
         /\ activeTurn' # None => /\ activeTurn'.effect = None
                                  /\ activeTurn'.status = "active"
                                  /\ ~activeTurn'.abort
<1> DEFINE n == LapsedHeads(queuedTurns)
<1>1. n \in 0..Len(queuedTurns) /\ queuedTurns \in Seq(QueuedTurn)
  BY LapsedHeadsExist DEF CoreType, SessionAssumption
<1>2. /\ queuedTurns' = SubSeq(queuedTurns, n + 2, Len(queuedTurns))
      /\ activeTurn' = IF n = Len(queuedTurns) THEN None
                       ELSE Activated(queuedTurns[n + 1].turn, queuedTurns[n + 1].expires,
                                      queuedTurns[n + 1].revision)
  BY DEF EndTurn
<1> HIDE DEF n
<1>3. queuedTurns' \in Seq(QueuedTurn)
  BY <1>1, <1>2
<1>4. CASE n = Len(queuedTurns)
  BY <1>2, <1>3, <1>4
<1>5. CASE n # Len(queuedTurns)
  <2>1. queuedTurns[n + 1] \in QueuedTurn
    BY <1>1, <1>5
  <2>2. \A q \in QueuedTurn : LET a == Activated(q.turn, q.expires, q.revision)
                              IN  /\ a \in ActiveTurn /\ a.effect = None
                                  /\ a.status = "active" /\ ~a.abort
    BY DEF QueuedTurn, Activated, ActiveTurn
  <2> QED BY <1>2, <1>3, <1>5, <2>1, <2>2
<1> QED BY <1>4, <1>5

----------------------------------------------------------------------------
(* Transitions of one effect record. *)

\* s is a later form of record r: same turn, same consumption, no attempt lost
Continues(r, s) ==
  /\ s \in Effect
  /\ s.turn = r.turn /\ s.consumedAt = r.consumedAt /\ s.byAbort = r.byAbort

\* Settling a record keeps all but its phase and settlement.
LEMMA SettledRecord ==
  ASSUME NEW r \in Effect,
         NEW kind \in {"success", "error", "interrupted_unknown", "abandoned"}
  PROVE  /\ Continues(r, Settled(r, kind))
         /\ Settled(r, kind).phase = "settled"
         /\ Settled(r, kind).attempt = r.attempt
         /\ Settled(r, kind).dispatch = r.dispatch
  BY Zenon DEF Continues, Settled, Effect, Phases

\* Moving a record to another phase keeps everything else.
LEMMA MovedRecord ==
  ASSUME NEW r \in Effect, NEW phase \in Phases
  PROVE  LET s == [r EXCEPT !.phase = phase]
         IN  /\ Continues(r, s) /\ s.phase = phase
             /\ s.attempt = r.attempt /\ s.dispatch = r.dispatch
  BY DEF Continues, Effect, Phases

\* A new attempt has the next number and no start tombstone.
LEMMA RedispatchedRecord ==
  ASSUME NEW r \in Effect, NEW deadline \in Time, CurrentFence \in Fence
  PROVE  LET s == Redispatched(r, deadline)
         IN  /\ Continues(r, s) /\ s.phase = "dispatched"
             /\ s.attempt = r.attempt + 1 /\ s.dispatch.start = 0
<1> DEFINE d == [attempt |-> r.attempt + 1, fence |-> CurrentFence,
                 deadline |-> deadline, start |-> 0]
           r1 == [r EXCEPT !.phase = "dispatched"]
           r2 == [r1 EXCEPT !.attempt = @ + 1]
<1>1. r.attempt \in Nat
  BY DEF Effect
<1>2. d \in Dispatch /\ d.start = 0
  BY <1>1 DEF Dispatch
<1>3. Redispatched(r, deadline) = [r2 EXCEPT !.dispatch = d]
  BY DEF Redispatched
<1>4. Continues(r, r1) /\ r1.phase = "dispatched" /\ r1.attempt = r.attempt
  BY DEF Continues, Effect, Phases
<1> HIDE DEF r1
<1>5. Continues(r, r2) /\ r2.phase = "dispatched" /\ r2.attempt = r.attempt + 1
  BY <1>1, <1>4 DEF Continues, Effect
<1> HIDE DEF r2, d
<1>6. LET s == [r2 EXCEPT !.dispatch = d]
      IN  /\ Continues(r, s) /\ s.phase = "dispatched"
          /\ s.attempt = r.attempt + 1 /\ s.dispatch = d
  BY <1>2, <1>5 DEF Continues, Effect
<1> QED BY <1>2, <1>3, <1>6

\* Claiming the start of a record sets its tombstone.
LEMMA StartedRecord ==
  ASSUME NEW r \in Effect, NEW seq \in Nat
  PROVE  LET s == [r EXCEPT !.dispatch.start = seq]
         IN  /\ Continues(r, s) /\ s.phase = r.phase /\ s.attempt = r.attempt
             /\ s.dispatch.start = seq
<1>1. [r.dispatch EXCEPT !.start = seq] \in Dispatch
  BY DEF Effect, Dispatch
<1>2. [r EXCEPT !.dispatch.start = seq] = [r EXCEPT !.dispatch = [r.dispatch EXCEPT !.start = seq]]
  BY DEF Effect
<1>3. [r.dispatch EXCEPT !.start = seq].start = seq
  BY DEF Effect, Dispatch
<1> QED BY Zenon, <1>1, <1>2, <1>3 DEF Continues, Effect

\* The active effect has a record of the active turn that is not consumed.
LEMMA ActiveRecord ==
  ASSUME Inv, SessionAssumption, NEW e \in Effects, ActiveEffect(e)
  PROVE  /\ effects[e] \in Effect /\ effects[e] # None
         /\ activeTurn \in ActiveTurn /\ activeTurn # None
         /\ activeTurn.effect = e /\ e # None
         /\ CurrentFence \in Fence
  BY DEF Inv, CoreType, ActiveExists, ActiveEffect, SessionAssumption, CurrentFence,
         Fence, ActiveTurn

\* A command that moves the record of the active effect keeps the accounts.
LEMMA ActiveMoves ==
  ASSUME Inv, SessionAssumption, NEW e \in Effects, ActiveEffect(e),
         NEW s, Continues(effects[e], s),
         effects' = [effects EXCEPT ![e] = s],
         activeTurn' \in ActiveTurn, activeTurn' # None,
         activeTurn'.turn = activeTurn.turn, activeTurn'.effect = e,
         (activeTurn'.status = "needs_confirmation") <=> (s.phase = "blocked")
  PROVE  ActiveExists' /\ SettlementAccounted' /\ BlockedAwaits'
<1>1. effects[e] \in Effect /\ effects[e] # None /\ activeTurn # None
      /\ activeTurn.effect = e /\ e # None
  BY ActiveRecord
<1>2. effects'[e] = s /\ s \in Effect /\ \A f \in Effects \ {e} : effects'[f] = effects[f]
  BY DEF Inv, CoreType, Continues
<1>3. Unconsumed(e) /\ effects[e].turn = activeTurn.turn
  BY <1>1 DEF Inv, SettlementAccounted, ActiveEffect
<1>4. s # None
  BY <1>2, NoneAssumption
<1>5. ActiveExists'
  BY <1>2, <1>4 DEF ActiveExists
<1>6. SettlementAccounted'
  BY <1>1, <1>2, <1>3 DEF Inv, SettlementAccounted, Unconsumed, ActiveEffect, Continues
<1>7. BlockedAwaits'
  BY <1>1, <1>2 DEF BlockedAwaits
<1> QED BY <1>5, <1>6, <1>7

\* A command that leaves the tombstone of the moved record alone keeps StartRecorded.
LEMMA StartsKept ==
  ASSUME Inv, NEW e \in Effects, effects[e] # None, NEW s \in Effect,
         effects' = [effects EXCEPT ![e] = s], freshStarts' = freshStarts,
         s.dispatch.start = effects[e].dispatch.start,
         s.phase = "prepared" => effects[e].phase = "prepared"
  PROVE  StartRecorded'
<1>1. effects'[e] = s /\ \A f \in Effects \ {e} : effects'[f] = effects[f]
  BY DEF Inv, CoreType
<1>2. s # None
  BY NoneAssumption
<1> QED BY <1>1, <1>2 DEF Inv, StartRecorded

\* A command that issues no permit and no attempt keeps PermitsOrdered.
LEMMA PermitsKept ==
  ASSUME Inv, NEW e \in Effects, effects[e] # None, NEW s \in Effect,
         effects' = [effects EXCEPT ![e] = s], permits' = permits,
         s.attempt = effects[e].attempt, eventSequence' = eventSequence + 1
  PROVE  PermitsOrdered'
<1>1. effects'[e] = s /\ \A f \in Effects \ {e} : effects'[f] = effects[f]
  BY DEF Inv, CoreType
<1>2. s # None
  BY NoneAssumption
<1>3. \A p \in permits : p \in Permit /\ p.effect \in Effects /\ p.seq \in Nat
  BY DEF Inv, CoreType, Permit
<1>4. \A p \in permits : effects'[p.effect] # None
                         /\ effects'[p.effect].attempt = effects[p.effect].attempt
  BY <1>1, <1>2, <1>3 DEF Inv, PermitsOrdered
<1>5. \A p \in permits : p.seq <= eventSequence + 1
  BY <1>3 DEF Inv, PermitsOrdered, CoreType
<1> QED BY <1>4, <1>5 DEF Inv, PermitsOrdered

\* A new attempt issues a permit that is newer than every other of its effect.
LEMMA PermitIssued ==
  ASSUME Inv, NEW e \in Effects, effects[e] \in Effect, effects[e] # None,
         NEW s \in Effect, effects' = [effects EXCEPT ![e] = s],
         NEW deadline \in Time, CurrentFence \in Fence, IssuePermit(e, deadline),
         s.attempt = effects[e].attempt + 1, eventSequence' = eventSequence + 1
  PROVE  PermitsOrdered' /\ permits' \subseteq Permit
<1> DEFINE new == [seq |-> eventSequence + 1, effect |-> e,
                   attempt |-> effects[e].attempt + 1,
                   fence |-> CurrentFence, deadline |-> deadline]
<1>1. effects'[e] = s /\ \A f \in Effects \ {e} : effects'[f] = effects[f]
  BY DEF Inv, CoreType
<1>2. s # None
  BY NoneAssumption
<1>3. permits' = permits \cup {new}
  BY DEF IssuePermit
<1>4. effects[e].attempt \in Nat /\ eventSequence \in Nat
  BY DEF Inv, CoreType, Effect
<1>5. /\ new \in Permit /\ new.seq = eventSequence + 1 /\ new.effect = e
      /\ new.attempt = effects[e].attempt + 1
  BY <1>4 DEF Permit
<1> HIDE DEF new
<1>6. \A p \in permits : p \in Permit /\ p.effect \in Effects /\ p.seq \in Nat /\ p.attempt \in Nat
  BY DEF Inv, CoreType, Permit
<1>7. \A p \in permits : /\ effects[p.effect] # None /\ p.seq <= eventSequence
                         /\ p.attempt <= effects[p.effect].attempt
  BY DEF Inv, PermitsOrdered
<1>8. \A p \in permits' : /\ effects'[p.effect] # None /\ p.seq <= eventSequence + 1
                          /\ p.attempt <= effects'[p.effect].attempt
  <2> TAKE p \in permits'
  <2>1. CASE p = new
    BY <2>1, <1>1, <1>2, <1>4, <1>5
  <2>2. CASE p \in permits /\ p.effect = e
    BY <2>2, <1>1, <1>2, <1>4, <1>6, <1>7
  <2>3. CASE p \in permits /\ p.effect # e
    BY <2>3, <1>1, <1>4, <1>6, <1>7
  <2> QED BY <2>1, <2>2, <2>3, <1>3
<1>9. \A p \in permits : p.effect = e => p.attempt < new.attempt /\ p.seq < new.seq
  BY <1>4, <1>5, <1>6, <1>7
<1>10. \A p, q \in permits' : p.effect = q.effect =>
         /\ p.attempt = q.attempt => p = q
         /\ p.attempt < q.attempt => p.seq < q.seq
  <2> TAKE p, q \in permits'
  <2>1. CASE p \in permits /\ q \in permits
    BY <2>1 DEF Inv, PermitsOrdered
  <2>2. CASE p = new /\ q = new
    BY <2>2, <1>4, <1>5
  <2>3. CASE p \in permits /\ q = new
    BY <2>3, <1>4, <1>5, <1>6, <1>9
  <2>4. CASE p = new /\ q \in permits
    BY <2>4, <1>4, <1>5, <1>6, <1>9
  <2> QED BY <2>1, <2>2, <2>3, <2>4, <1>3
<1> QED BY <1>3, <1>5, <1>6, <1>8, <1>10 DEF PermitsOrdered

\* A command that touches no effect and no permit, and neither takes the active
\* effect away nor sets one, keeps the invariant.
LEMMA EffectsUntouched ==
  ASSUME Inv, UNCHANGED <<effects, permits, freshStarts>>, eventSequence' = eventSequence + 1,
         \/ UNCHANGED activeTurn
         \/ /\ activeTurn # None /\ activeTurn' # None
            /\ activeTurn'.effect = activeTurn.effect
            /\ activeTurn'.turn = activeTurn.turn /\ activeTurn'.status = activeTurn.status
         \/ /\ activeTurn = None \/ activeTurn.effect = None
            /\ activeTurn' # None => activeTurn'.effect = None /\ activeTurn'.status = "active"
  PROVE  ActiveExists' /\ SettlementAccounted' /\ BlockedAwaits' /\ StartRecorded' /\ PermitsOrdered'
<1>1. ActiveExists'
  BY DEF Inv, ActiveExists
<1>2. SettlementAccounted'
  BY SessionAssumption DEF Inv, SettlementAccounted, ActiveEffect, Unconsumed
<1>3. BlockedAwaits'
  BY DEF Inv, BlockedAwaits
<1>4. StartRecorded'
  BY DEF Inv, StartRecorded
<1>5. PermitsOrdered'
  <2>1. eventSequence \in Nat /\ \A p \in permits : p.seq \in Nat
    BY DEF Inv, CoreType, Permit
  <2> QED BY <2>1 DEF Inv, PermitsOrdered
<1> QED BY <1>1, <1>2, <1>3, <1>4, <1>5

----------------------------------------------------------------------------
(* The end of an effect: an engine step or the abort consumes its settlement. *)

\* Every settlement is consumed in eff, which is otherwise what effects is
Closed(eff) ==
  /\ eff \in [Effects -> Effect \cup {None}]
  /\ \A e \in Effects :
       /\ effects[e] = None <=> eff[e] = None
       /\ eff[e] # None =>
            /\ eff[e].phase = effects[e].phase /\ eff[e].phase = "settled"
            /\ eff[e].attempt = effects[e].attempt /\ eff[e].dispatch = effects[e].dispatch
            /\ eff[e].consumedAt = 0 <=> eff[e].byAbort

\* Without an active effect every settlement is already consumed.
LEMMA NothingOpen ==
  ASSUME Inv, activeTurn # None, activeTurn.effect = None
  PROVE  Closed(effects)
  BY SessionAssumption DEF Inv, CoreType, Closed, SettlementAccounted, ActiveEffect, Unconsumed

\* Consuming the settlement of the active effect, at a checkpoint or by the abort,
\* closes the books.
LEMMA LastOneClosed ==
  ASSUME Inv, NEW e \in Effects, ActiveEffect(e), effects[e].phase = "settled",
         NEW s \in Effect, s.phase = "settled",
         s.attempt = effects[e].attempt, s.dispatch = effects[e].dispatch,
         s.consumedAt = 0 <=> s.byAbort
  PROVE  Closed([effects EXCEPT ![e] = s])
<1>1. effects[e] # None /\ activeTurn # None /\ activeTurn.effect = e
  BY ActiveRecord, SessionAssumption
<1> DEFINE eff == [effects EXCEPT ![e] = s]
<1>2. eff[e] = s /\ \A f \in Effects \ {e} : eff[f] = effects[f]
  BY DEF Inv, CoreType
<1>3. eff \in [Effects -> Effect \cup {None}]
  BY DEF Inv, CoreType
<1>4. s # None
  BY NoneAssumption
<1> HIDE DEF eff
<1>5. \A f \in Effects \ {e} : effects[f] # None =>
        /\ effects[f].phase = "settled"
        /\ effects[f].consumedAt = 0 <=> effects[f].byAbort
  BY <1>1 DEF Inv, SettlementAccounted, ActiveEffect, Unconsumed
<1>6. Closed(eff)
  BY <1>1, <1>2, <1>3, <1>4, <1>5 DEF Closed
<1> QED BY <1>6 DEF eff

\* An engine step consumes the settlement of the active effect.
LEMMA ConsumedCloses ==
  ASSUME Inv, StepAllowed
  PROVE  Closed(Consumed)
<1>1. activeTurn \in ActiveTurn /\ activeTurn # None
  BY DEF Inv, CoreType, StepAllowed, NotAwaiting
<1>2. CASE activeTurn.effect = None
  BY <1>1, <1>2, NothingOpen DEF Consumed
<1>3. CASE activeTurn.effect # None
  <2> DEFINE e == activeTurn.effect
             s == [effects[e] EXCEPT !.consumedAt = activeTurn.checkpoint + 1]
  <2>1. e \in Effects /\ ActiveEffect(e) /\ effects[e].phase = "settled" /\ Unconsumed(e)
    BY <1>1, <1>3 DEF ActiveTurn, ActiveEffect, StepAllowed
  <2>2. effects[e] \in Effect /\ activeTurn.checkpoint \in Nat
    BY <2>1, <1>1, ActiveRecord, SessionAssumption DEF ActiveTurn
  <2> HIDE DEF e
  <2>3. /\ s \in Effect /\ s.phase = "settled" /\ s.attempt = effects[e].attempt
        /\ s.dispatch = effects[e].dispatch /\ s.consumedAt = activeTurn.checkpoint + 1
        /\ s.byAbort = FALSE
    BY <2>1, <2>2 DEF Effect, Unconsumed
  <2>4. Consumed = [effects EXCEPT ![e] = s]
    BY <1>3 DEF Consumed, e
  <2> HIDE DEF s
  <2>5. s.consumedAt # 0
    BY <2>2, <2>3
  <2> QED BY Zenon, <2>1, <2>3, <2>4, <2>5, LastOneClosed
<1> QED BY <1>2, <1>3

\* A command that closes the books and activates no effect keeps the invariant.
LEMMA ClosedStep ==
  ASSUME Inv, Closed(effects'), UNCHANGED <<permits, freshStarts>>,
         eventSequence' = eventSequence + 1,
         activeTurn' # None => activeTurn'.effect = None /\ activeTurn'.status = "active"
  PROVE  ActiveExists' /\ SettlementAccounted' /\ BlockedAwaits' /\ StartRecorded' /\ PermitsOrdered'
<1>1. ActiveExists' /\ BlockedAwaits'
  BY DEF ActiveExists, BlockedAwaits
<1>2. SettlementAccounted'
  BY SessionAssumption DEF Closed, SettlementAccounted, ActiveEffect, Unconsumed
<1>3. StartRecorded'
  BY DEF Inv, StartRecorded, Closed
<1>4. \A p \in permits : p.effect \in Effects /\ p.seq \in Nat /\ eventSequence \in Nat
  BY DEF Inv, CoreType, Permit
<1>5. PermitsOrdered'
  BY <1>4 DEF Inv, PermitsOrdered, Closed
<1> QED BY <1>1, <1>2, <1>3, <1>5

----------------------------------------------------------------------------
(* Every step keeps the invariant. *)

\* An engine step moves the checkpoint and the active effect of a turn's record.
LEMMA SteppedTurn ==
  ASSUME NEW a \in ActiveTurn, NEW f \in Effects \cup {None}
  PROVE  LET b == [a EXCEPT !.checkpoint = @ + 1, !.effect = f]
         IN  b \in ActiveTurn /\ b.effect = f /\ b.turn = a.turn /\ b.status = a.status
<1> DEFINE a1 == [a EXCEPT !.checkpoint = @ + 1]
<1>1. a1 \in ActiveTurn /\ a1.turn = a.turn /\ a1.status = a.status
  BY DEF ActiveTurn
<1> HIDE DEF a1
<1>2. LET b == [a1 EXCEPT !.effect = f]
      IN  b \in ActiveTurn /\ b.effect = f /\ b.turn = a.turn /\ b.status = a.status
  BY <1>1 DEF ActiveTurn
<1> QED BY <1>2 DEF a1

\* A rotated lease keeps the turn, its effect and its status.
LEMMA RotatedTurn ==
  ASSUME NEW a \in ActiveTurn, NEW x \in Time
  PROVE  LET b == [a EXCEPT !.lease = @ + 1, !.expires = x]
         IN  b \in ActiveTurn /\ b.effect = a.effect /\ b.turn = a.turn /\ b.status = a.status
<1> DEFINE a1 == [a EXCEPT !.lease = @ + 1]
<1>1. a1 \in ActiveTurn /\ a1.turn = a.turn /\ a1.status = a.status /\ a1.effect = a.effect
  BY DEF ActiveTurn
<1> HIDE DEF a1
<1>2. LET b == [a1 EXCEPT !.expires = x]
      IN  b \in ActiveTurn /\ b.effect = a.effect /\ b.turn = a.turn /\ b.status = a.status
  BY <1>1 DEF ActiveTurn
<1> QED BY <1>2 DEF a1

\* Admission, lease rotation and the request to abort.
LEMMA AdmissionSteps ==
  ASSUME Inv,
         \/ \E t \in Turns, x \in Time, k \in Keys \cup {None} : EnqueueTurn(t, x, k)
         \/ \E x \in Time : RotateTurnLease(x)
         \/ RequestAbort
  PROVE  Inv'
<1> USE SessionAssumption
<1>1. ASSUME NEW t \in Turns, NEW x \in Time, NEW k \in Keys \cup {None}, EnqueueTurn(t, x, k)
      PROVE  Inv'
  <2>1. runtimePointer.active \in Revisions
    BY DEF Inv, CoreType, Pointer
  <2>2. Activated(t, x, runtimePointer.active) \in ActiveTurn
        /\ Activated(t, x, runtimePointer.active).effect = None
        /\ Activated(t, x, runtimePointer.active).status = "active"
    BY <2>1 DEF Activated, ActiveTurn
  <2>3. [turn |-> t, expires |-> x, revision |-> runtimePointer.active] \in QueuedTurn
    BY <2>1 DEF QueuedTurn
  <2>4. UNCHANGED <<effects, generations, runtimePointer, permits, freshStarts, now>>
        /\ eventSequence' = eventSequence + 1
    BY Zenon, <1>1 DEF EnqueueTurn, Commit
  <2>5. /\ activeTurn = None => /\ activeTurn' = Activated(t, x, runtimePointer.active)
                                /\ queuedTurns' = queuedTurns
        /\ activeTurn # None =>
             /\ activeTurn' = activeTurn
             /\ queuedTurns' = Append(queuedTurns, [turn |-> t, expires |-> x,
                                                    revision |-> runtimePointer.active])
    BY <1>1 DEF EnqueueTurn
  <2>6. CoreType'
    <3>1. queuedTurns' \in Seq(QueuedTurn)
      <4>1. queuedTurns \in Seq(QueuedTurn)
        BY DEF Inv, CoreType
      <4>2. \A q \in QueuedTurn : Append(queuedTurns, q) \in Seq(QueuedTurn)
        BY <4>1
      <4> QED BY <2>3, <2>5, <4>1, <4>2
    <3>2. activeTurn' \in ActiveTurn \cup {None}
      BY <2>2, <2>5 DEF Inv, CoreType
    <3> QED BY <2>4, <3>1, <3>2 DEF Inv, CoreType
  <2> QED BY <2>2, <2>4, <2>5, <2>6, EffectsUntouched DEF Inv
<1>2. ASSUME NEW x \in Time, RotateTurnLease(x)
      PROVE  Inv'
  <2>1. activeTurn \in ActiveTurn /\ activeTurn # None
    BY Zenon, <1>2 DEF Inv, CoreType, RotateTurnLease
  <2>2. /\ activeTurn' \in ActiveTurn /\ activeTurn'.effect = activeTurn.effect
        /\ activeTurn'.turn = activeTurn.turn /\ activeTurn'.status = activeTurn.status
    BY Zenon, <1>2, <2>1, RotatedTurn DEF RotateTurnLease
  <2>3. activeTurn' # None
    BY <2>2, NoneAssumption
  <2>4. UNCHANGED <<effects, generations, runtimePointer, permits, freshStarts, now, queuedTurns>>
        /\ eventSequence' = eventSequence + 1
    BY Zenon, <1>2 DEF RotateTurnLease, Commit
  <2>5. CoreType'
    BY <2>2, <2>4 DEF Inv, CoreType
  <2> QED BY <2>1, <2>2, <2>3, <2>4, <2>5, EffectsUntouched DEF Inv
<1>3. ASSUME RequestAbort
      PROVE  Inv'
  <2>1. activeTurn \in ActiveTurn /\ activeTurn # None
    BY <1>3 DEF Inv, CoreType, RequestAbort
  <2>2. UNCHANGED <<effects, generations, runtimePointer, permits, freshStarts, now>>
        /\ eventSequence' = eventSequence + 1
    BY <1>3 DEF RequestAbort, Commit
  <2>3. CASE activeTurn.effect = None
    <3>1. EndTurn("aborted")
      BY <1>3, <2>3 DEF RequestAbort
    <3>2. /\ queuedTurns' \in Seq(QueuedTurn) /\ activeTurn' \in ActiveTurn \cup {None}
          /\ activeTurn' # None => activeTurn'.effect = None /\ activeTurn'.status = "active"
      BY <3>1, EndTurnTypes DEF Inv
    <3>3. CoreType'
      BY <2>2, <3>2 DEF Inv, CoreType
    <3> QED BY <2>2, <2>3, <3>2, <3>3, EffectsUntouched DEF Inv
  <2>4. CASE activeTurn.effect # None
    <3>1. activeTurn' = [activeTurn EXCEPT !.abort = TRUE] /\ UNCHANGED queuedTurns
      BY <1>3, <2>4 DEF RequestAbort
    <3>2. /\ activeTurn' \in ActiveTurn /\ activeTurn'.effect = activeTurn.effect
          /\ activeTurn'.turn = activeTurn.turn /\ activeTurn'.status = activeTurn.status
      BY Zenon, <2>1, <3>1 DEF ActiveTurn
    <3>3. activeTurn' # None
      BY <3>2, NoneAssumption
    <3>4. CoreType'
      BY <2>2, <3>1, <3>2 DEF Inv, CoreType
    <3> QED BY <2>1, <2>2, <3>2, <3>3, <3>4, EffectsUntouched DEF Inv
  <2> QED BY <2>3, <2>4
<1> QED BY <1>1, <1>2, <1>3

\* Engine steps and the final abort.
LEMMA ClosingSteps ==
  ASSUME Inv,
         \/ CommitCheckpoint
         \/ \E outcome \in {"completed", "failed"} : CommitTurnEnd(outcome)
         \/ FinalizeAbort
  PROVE  Inv'
<1> USE SessionAssumption
<1>1. ASSUME CommitCheckpoint
      PROVE  Inv'
  <2>1. Closed(effects')
    BY <1>1, ConsumedCloses DEF CommitCheckpoint
  <2>2. activeTurn \in ActiveTurn /\ activeTurn.status = "active"
    BY <1>1 DEF Inv, CoreType, CommitCheckpoint, StepAllowed, NotAwaiting, ActiveTurn
  <2>3. activeTurn' \in ActiveTurn /\ activeTurn'.effect = None /\ activeTurn'.status = "active"
    BY Zenon, <1>1, <2>2, SteppedTurn DEF CommitCheckpoint
  <2>4. UNCHANGED <<generations, runtimePointer, permits, freshStarts, now, queuedTurns>>
        /\ eventSequence' = eventSequence + 1
    BY <1>1 DEF CommitCheckpoint, Commit
  <2>5. CoreType'
    BY <2>1, <2>3, <2>4 DEF Inv, CoreType, Closed
  <2> QED BY <2>1, <2>3, <2>4, <2>5, ClosedStep DEF Inv
<1>2. ASSUME NEW outcome, CommitTurnEnd(outcome)
      PROVE  Inv'
  <2>1. Closed(effects') /\ EndTurn(outcome)
    BY <1>2, ConsumedCloses DEF CommitTurnEnd
  <2>2. /\ queuedTurns' \in Seq(QueuedTurn) /\ activeTurn' \in ActiveTurn \cup {None}
        /\ activeTurn' # None => activeTurn'.effect = None /\ activeTurn'.status = "active"
    BY <2>1, EndTurnTypes DEF Inv
  <2>3. UNCHANGED <<generations, runtimePointer, permits, freshStarts, now>>
        /\ eventSequence' = eventSequence + 1
    BY <1>2 DEF CommitTurnEnd, Commit
  <2>4. CoreType'
    BY <2>1, <2>2, <2>3 DEF Inv, CoreType, Closed
  <2> QED BY <2>1, <2>2, <2>3, <2>4, ClosedStep DEF Inv
<1>3. ASSUME FinalizeAbort
      PROVE  Inv'
  <2>1. activeTurn \in ActiveTurn /\ activeTurn # None /\ EndTurn("aborted")
    BY <1>3 DEF Inv, CoreType, FinalizeAbort, NotAwaiting
  <2>2. Closed(effects')
    <3>1. CASE activeTurn.effect = None
      BY <1>3, <2>1, <3>1, NothingOpen DEF FinalizeAbort
    <3>2. CASE activeTurn.effect # None
      <4> DEFINE e == activeTurn.effect
                 s == [effects[e] EXCEPT !.byAbort = TRUE]
      <4>1. e \in Effects /\ ActiveEffect(e) /\ effects[e].phase = "settled" /\ Unconsumed(e)
        BY <1>3, <2>1, <3>2 DEF ActiveTurn, ActiveEffect, FinalizeAbort
      <4>2. effects' = [effects EXCEPT ![e] = s]
        BY <1>3, <3>2 DEF FinalizeAbort
      <4>3. effects[e] \in Effect
        BY <4>1, ActiveRecord
      <4> HIDE DEF e
      <4>4. /\ s \in Effect /\ s.phase = "settled" /\ s.attempt = effects[e].attempt
            /\ s.dispatch = effects[e].dispatch /\ s.consumedAt = 0 /\ s.byAbort = TRUE
        BY Zenon, <4>1, <4>3 DEF Effect, Unconsumed
      <4> HIDE DEF s
      <4> QED BY Zenon, <4>1, <4>2, <4>4, LastOneClosed
    <3> QED BY <3>1, <3>2
  <2>3. /\ queuedTurns' \in Seq(QueuedTurn) /\ activeTurn' \in ActiveTurn \cup {None}
        /\ activeTurn' # None => activeTurn'.effect = None /\ activeTurn'.status = "active"
    BY <2>1, EndTurnTypes DEF Inv
  <2>4. UNCHANGED <<generations, runtimePointer, permits, freshStarts, now>>
        /\ eventSequence' = eventSequence + 1
    BY <1>3 DEF FinalizeAbort, Commit
  <2>5. CoreType'
    BY <2>2, <2>3, <2>4 DEF Inv, CoreType, Closed
  <2> QED BY <2>2, <2>3, <2>4, <2>5, ClosedStep DEF Inv
<1> QED BY <1>1, <1>2, <1>3

\* A prepared effect becomes the active one.
LEMMA RequestSteps ==
  ASSUME Inv, NEW e \in Effects, NEW service \in Services, NEW policy \in Policies,
         CommitEffectRequest(e, service, policy)
  PROVE  Inv'
<1> USE SessionAssumption
<1> DEFINE new == [turn |-> activeTurn.turn, service |-> service, policy |-> policy,
                   phase |-> "prepared", attempt |-> 0, dispatch |-> NoDispatch,
                   settlement |-> "none", consumedAt |-> 0, byAbort |-> FALSE]
<1>1. activeTurn \in ActiveTurn /\ activeTurn # None /\ activeTurn.status = "active"
  BY DEF Inv, CoreType, CommitEffectRequest, StepAllowed, NotAwaiting, ActiveTurn
<1>2. NoDispatch \in Dispatch /\ NoDispatch.start = 0
  BY DEF NoDispatch, Dispatch, Fence, Time
<1>3. /\ new \in Effect /\ new.turn = activeTurn.turn /\ new.phase = "prepared"
      /\ new.attempt = 0 /\ new.dispatch = NoDispatch /\ new.consumedAt = 0 /\ new.byAbort = FALSE
  BY <1>1, <1>2 DEF Effect, Phases, ActiveTurn
<1>4. new # None /\ e # None
  BY Zenon, <1>3, NoneAssumption
<1>5. effects[e] = None /\ Closed(Consumed) /\ effects' = [Consumed EXCEPT ![e] = new]
  BY ConsumedCloses DEF CommitEffectRequest
<1> HIDE DEF new
<1>6. effects'[e] = new /\ \A f \in Effects \ {e} : effects'[f] = Consumed[f]
  BY <1>5 DEF Closed
<1>7. /\ activeTurn' \in ActiveTurn /\ activeTurn'.effect = e
      /\ activeTurn'.turn = activeTurn.turn /\ activeTurn'.status = "active"
  BY Zenon, <1>1, SteppedTurn DEF CommitEffectRequest
<1>8. UNCHANGED <<generations, runtimePointer, permits, freshStarts, now, queuedTurns>>
      /\ eventSequence' = eventSequence + 1
  BY DEF CommitEffectRequest, Commit
<1>9. CoreType'
  BY <1>3, <1>5, <1>7, <1>8 DEF Inv, CoreType, Closed
<1>10. ActiveExists' /\ BlockedAwaits'
  BY <1>3, <1>4, <1>6, <1>7 DEF ActiveExists, BlockedAwaits
<1>11. SettlementAccounted'
  <2>1. \A f \in Effects \ {e} : effects'[f] # None =>
          ~Unconsumed(f)' /\ effects'[f].phase = "settled"
          /\ ~(effects'[f].byAbort /\ effects'[f].consumedAt # 0) /\ ~ActiveEffect(f)'
    BY <1>5, <1>6, <1>7 DEF Closed, Unconsumed, ActiveEffect
  <2>2. /\ Unconsumed(e)' /\ ActiveEffect(e)'
        /\ ~(effects'[e].byAbort /\ effects'[e].consumedAt # 0)
        /\ effects'[e].turn = activeTurn'.turn
    BY <1>3, <1>6, <1>7, NoneAssumption DEF Unconsumed, ActiveEffect
  <2> QED BY <2>1, <2>2 DEF SettlementAccounted
<1>12. StartRecorded'
  BY <1>2, <1>3, <1>4, <1>5, <1>6, <1>8 DEF Inv, StartRecorded, Closed
<1>13. PermitsOrdered'
  <2>1. \A p \in permits : p.effect \in Effects /\ p.seq \in Nat /\ eventSequence \in Nat
    BY DEF Inv, CoreType, Permit
  <2>2. \A p \in permits : p.effect # e
    BY <1>5 DEF Inv, PermitsOrdered
  <2> QED BY <1>5, <1>6, <1>8, <2>1, <2>2 DEF Inv, PermitsOrdered, Closed
<1> QED BY <1>9, <1>10, <1>11, <1>12, <1>13 DEF Inv

\* A command that moves the active effect's record without a new attempt.
LEMMA MoveSteps ==
  ASSUME Inv, NEW e \in Effects, ActiveEffect(e), NEW s,
         Continues(effects[e], s), effects' = [effects EXCEPT ![e] = s],
         s.attempt = effects[e].attempt, s.dispatch = effects[e].dispatch, s.phase # "prepared",
         activeTurn' \in ActiveTurn, activeTurn'.turn = activeTurn.turn, activeTurn'.effect = e,
         (activeTurn'.status = "needs_confirmation") <=> (s.phase = "blocked"),
         UNCHANGED <<now, queuedTurns, generations, runtimePointer, permits, freshStarts>>,
         eventSequence' = eventSequence + 1
  PROVE  Inv'
<1> USE SessionAssumption
<1>1. effects[e] \in Effect /\ effects[e] # None /\ s \in Effect /\ activeTurn' # None
  BY ActiveRecord, NoneAssumption DEF Continues
<1>2. CoreType'
  BY <1>1 DEF Inv, CoreType
<1>3. ActiveExists' /\ SettlementAccounted' /\ BlockedAwaits'
  BY Zenon, <1>1, ActiveMoves
<1>4. StartRecorded' /\ PermitsOrdered'
  BY Zenon, <1>1, StartsKept, PermitsKept
<1> QED BY <1>2, <1>3, <1>4 DEF Inv

\* A command that starts a new attempt of the active effect.
LEMMA AttemptSteps ==
  ASSUME Inv, NEW e \in Effects, ActiveEffect(e), NEW deadline \in Time,
         effects[e].dispatch.start = 0,
         effects' = [effects EXCEPT ![e] = Redispatched(effects[e], deadline)],
         IssuePermit(e, deadline),
         activeTurn' \in ActiveTurn, activeTurn'.turn = activeTurn.turn,
         activeTurn'.effect = e, activeTurn'.status = "active",
         UNCHANGED <<now, queuedTurns, generations, runtimePointer, freshStarts>>,
         eventSequence' = eventSequence + 1
  PROVE  Inv'
<1> USE SessionAssumption
<1> DEFINE s == Redispatched(effects[e], deadline)
<1>1. effects[e] \in Effect /\ effects[e] # None /\ CurrentFence \in Fence
  BY ActiveRecord
<1>2. /\ Continues(effects[e], s) /\ s.phase = "dispatched"
      /\ s.attempt = effects[e].attempt + 1 /\ s.dispatch.start = 0
  BY <1>1, RedispatchedRecord
<1>3. effects' = [effects EXCEPT ![e] = s]
  OBVIOUS
<1> HIDE DEF s
<1>4. s \in Effect /\ activeTurn' # None
  BY <1>2, NoneAssumption DEF Continues
<1>5. PermitsOrdered' /\ permits' \subseteq Permit
  BY Zenon, <1>1, <1>2, <1>3, <1>4, PermitIssued
<1>6. CoreType'
  BY <1>3, <1>4, <1>5 DEF Inv, CoreType
<1>7. ActiveExists' /\ SettlementAccounted' /\ BlockedAwaits'
  BY Zenon, <1>2, <1>3, <1>4, ActiveMoves
<1>8. StartRecorded'
  <2>1. s.dispatch.start = effects[e].dispatch.start /\ s.phase # "prepared"
    BY <1>2
  <2>2. freshStarts' = freshStarts
    OBVIOUS
  <2> QED BY Zenon, <1>1, <1>3, <1>4, <2>1, <2>2, StartsKept
<1> QED BY <1>5, <1>6, <1>7, <1>8 DEF Inv

\* While the active effect is not blocked, the turn does not await confirmation.
LEMMA NotBlockedIsActive ==
  ASSUME Inv, NEW e \in Effects, ActiveEffect(e)
  PROVE  /\ effects[e].phase # "blocked" => activeTurn.status = "active"
         /\ NotAwaiting => activeTurn.status = "active"
<1>1. activeTurn \in ActiveTurn /\ activeTurn # None /\ activeTurn.effect = e /\ e # None
  BY ActiveRecord, SessionAssumption
<1>2. activeTurn.status \in {"active", "needs_confirmation"}
  BY <1>1 DEF ActiveTurn
<1> QED BY <1>1, <1>2 DEF Inv, BlockedAwaits, NotAwaiting

\* The status of a turn's record is set alone.
LEMMA RestatusedTurn ==
  ASSUME NEW a \in ActiveTurn, NEW x \in {"active", "needs_confirmation"}
  PROVE  LET b == [a EXCEPT !.status = x]
         IN  b \in ActiveTurn /\ b.status = x /\ b.turn = a.turn /\ b.effect = a.effect
  BY DEF ActiveTurn

\* Dispatch, external commit, settlement, recovery and confirmation.
LEMMA EffectSteps ==
  ASSUME Inv, EffectNext
  PROVE  Inv'
<1> USE SessionAssumption
<1> PICK e \in Effects :
      \/ \E d \in Time : DispatchEffect(e, d)
      \/ RecordExternalCommit(e)
      \/ \E kind \in {"success", "error", "interrupted_unknown"} : SettleEffect(e, kind)
      \/ \E c, d \in Time : RecoverRetry(e, c, d)
      \/ \E c, d \in Time : RecoverInterrupt(e, c, d)
      \/ \E c, d \in Time : RecoverBlock(e, c, d)
      \/ \E c, d \in Time : ConfirmRetry(e, c, d)
      \/ ConfirmAbandon(e)
  BY DEF EffectNext
<1>1. ActiveEffect(e)
  <2>1. \A d \in Time : DispatchEffect(e, d) => ActiveEffect(e)
    BY DEF DispatchEffect
  <2>2. \A kind : SettleEffect(e, kind) => ActiveEffect(e)
    BY DEF SettleEffect
  <2>3. \A c, d \in Time : /\ RecoverRetry(e, c, d) => ActiveEffect(e)
                           /\ RecoverInterrupt(e, c, d) => ActiveEffect(e)
                           /\ RecoverBlock(e, c, d) => ActiveEffect(e)
    BY DEF RecoverRetry, RecoverInterrupt, RecoverBlock, Recoverable
  <2>4. \A c, d \in Time : ConfirmRetry(e, c, d) => ActiveEffect(e)
    BY DEF ConfirmRetry
  <2>5. RecordExternalCommit(e) \/ ConfirmAbandon(e) => ActiveEffect(e)
    BY DEF RecordExternalCommit, ConfirmAbandon
  <2> QED BY <2>1, <2>2, <2>3, <2>4, <2>5
<1>2. /\ effects[e] \in Effect /\ effects[e] # None /\ activeTurn \in ActiveTurn
      /\ activeTurn # None /\ activeTurn.effect = e
  BY <1>1, ActiveRecord
<1>3. ASSUME NEW d \in Time, DispatchEffect(e, d)
      PROVE  Inv'
  <2>1. effects[e].dispatch.start = 0
    BY <1>2, <1>3 DEF Inv, StartRecorded, DispatchEffect
  <2>2. UNCHANGED <<activeTurn, now, queuedTurns, generations, runtimePointer, freshStarts>>
        /\ eventSequence' = eventSequence + 1 /\ IssuePermit(e, d)
        /\ effects' = [effects EXCEPT ![e] = Redispatched(effects[e], d)]
    BY <1>3 DEF DispatchEffect, Commit
  <2>3. activeTurn.status = "active"
    BY <1>1, <1>3, NotBlockedIsActive DEF DispatchEffect
  <2> QED BY Zenon, <1>1, <1>2, <2>1, <2>2, <2>3, AttemptSteps
<1>4. ASSUME RecordExternalCommit(e)
      PROVE  Inv'
  <2> DEFINE s == [effects[e] EXCEPT !.phase = "externally_committed"]
  <2>1. /\ Continues(effects[e], s) /\ s.phase = "externally_committed"
        /\ s.attempt = effects[e].attempt /\ s.dispatch = effects[e].dispatch
    BY Zenon, <1>2, MovedRecord DEF Phases
  <2>2. UNCHANGED <<now, queuedTurns, generations, runtimePointer, permits, freshStarts>>
        /\ eventSequence' = eventSequence + 1
        /\ effects' = [effects EXCEPT ![e] = s]
        /\ activeTurn' = [activeTurn EXCEPT !.status = "active"]
    BY <1>4 DEF RecordExternalCommit, Commit
  <2> HIDE DEF s
  <2>3. /\ activeTurn' \in ActiveTurn /\ activeTurn'.turn = activeTurn.turn
        /\ activeTurn'.effect = e /\ activeTurn'.status = "active"
    BY Zenon, <1>2, <2>2, RestatusedTurn
  <2> QED BY Zenon, <1>1, <2>1, <2>2, <2>3, MoveSteps
<1>5. ASSUME NEW kind \in {"success", "error", "interrupted_unknown"}, SettleEffect(e, kind)
      PROVE  Inv'
  <2>1. UNCHANGED <<activeTurn, now, queuedTurns, generations, runtimePointer, permits, freshStarts>>
        /\ eventSequence' = eventSequence + 1
        /\ effects' = [effects EXCEPT ![e] = Settled(effects[e], kind)]
    BY <1>5 DEF SettleEffect, Commit
  <2>2. activeTurn.status = "active"
    BY <1>1, <1>5, NotBlockedIsActive DEF SettleEffect
  <2> QED BY Zenon, <1>1, <1>2, <2>1, <2>2, SettledRecord, MoveSteps
<1>6. ASSUME NEW c \in Time, NEW d \in Time, RecoverRetry(e, c, d)
      PROVE  Inv'
  <2>1. UNCHANGED <<activeTurn, now, queuedTurns, generations, runtimePointer, freshStarts>>
        /\ eventSequence' = eventSequence + 1 /\ IssuePermit(e, d)
        /\ effects' = [effects EXCEPT ![e] = Redispatched(effects[e], d)]
        /\ effects[e].dispatch.start = 0
    BY Zenon, <1>6 DEF RecoverRetry, Recoverable, Commit
  <2>2. activeTurn.status = "active"
    BY Zenon, <1>1, <1>6, NotBlockedIsActive DEF RecoverRetry, Recoverable
  <2> QED BY Zenon, <1>1, <1>2, <2>1, <2>2, AttemptSteps
<1>7. ASSUME NEW c \in Time, NEW d \in Time, RecoverInterrupt(e, c, d)
      PROVE  Inv'
  <2>1. UNCHANGED <<activeTurn, now, queuedTurns, generations, runtimePointer, permits, freshStarts>>
        /\ eventSequence' = eventSequence + 1
        /\ effects' = [effects EXCEPT ![e] = Settled(effects[e], "interrupted_unknown")]
    BY <1>7 DEF RecoverInterrupt, Commit
  <2>2. activeTurn.status = "active"
    BY Zenon, <1>1, <1>7, NotBlockedIsActive DEF RecoverInterrupt, Recoverable
  <2> QED BY Zenon, <1>1, <1>2, <2>1, <2>2, SettledRecord, MoveSteps
<1>8. ASSUME NEW c \in Time, NEW d \in Time, RecoverBlock(e, c, d)
      PROVE  Inv'
  <2> DEFINE s == [effects[e] EXCEPT !.phase = "blocked"]
  <2>1. /\ Continues(effects[e], s) /\ s.phase = "blocked"
        /\ s.attempt = effects[e].attempt /\ s.dispatch = effects[e].dispatch
    BY Zenon, <1>2, MovedRecord DEF Phases
  <2>2. UNCHANGED <<now, queuedTurns, generations, runtimePointer, permits, freshStarts>>
        /\ eventSequence' = eventSequence + 1
        /\ effects' = [effects EXCEPT ![e] = s]
        /\ activeTurn' = [activeTurn EXCEPT !.status = "needs_confirmation"]
    BY <1>8 DEF RecoverBlock, Commit
  <2> HIDE DEF s
  <2>3. /\ activeTurn' \in ActiveTurn /\ activeTurn'.turn = activeTurn.turn
        /\ activeTurn'.effect = e /\ activeTurn'.status = "needs_confirmation"
    BY Zenon, <1>2, <2>2, RestatusedTurn
  <2> QED BY Zenon, <1>1, <2>1, <2>2, <2>3, MoveSteps
<1>9. ASSUME NEW c \in Time, NEW d \in Time, ConfirmRetry(e, c, d)
      PROVE  Inv'
  <2>1. UNCHANGED <<now, queuedTurns, generations, runtimePointer, freshStarts>>
        /\ eventSequence' = eventSequence + 1 /\ IssuePermit(e, d)
        /\ effects' = [effects EXCEPT ![e] = Redispatched(effects[e], d)]
        /\ effects[e].dispatch.start = 0
        /\ activeTurn' = [activeTurn EXCEPT !.status = "active"]
    BY <1>9 DEF ConfirmRetry, Commit
  <2>2. /\ activeTurn' \in ActiveTurn /\ activeTurn'.turn = activeTurn.turn
        /\ activeTurn'.effect = e /\ activeTurn'.status = "active"
    BY Zenon, <1>2, <2>1, RestatusedTurn
  <2> QED BY Zenon, <1>1, <2>1, <2>2, AttemptSteps
<1>10. ASSUME ConfirmAbandon(e)
       PROVE  Inv'
  <2>1. UNCHANGED <<now, queuedTurns, generations, runtimePointer, permits, freshStarts>>
        /\ eventSequence' = eventSequence + 1
        /\ effects' = [effects EXCEPT ![e] = Settled(effects[e], "abandoned")]
        /\ activeTurn' = [activeTurn EXCEPT !.status = "active"]
    BY <1>10 DEF ConfirmAbandon, Commit
  <2>2. /\ activeTurn' \in ActiveTurn /\ activeTurn'.turn = activeTurn.turn
        /\ activeTurn'.effect = e /\ activeTurn'.status = "active"
    BY Zenon, <1>2, <2>1, RestatusedTurn
  <2> QED BY Zenon, <1>1, <1>2, <2>1, <2>2, SettledRecord, MoveSteps
<1> QED BY <1>3, <1>4, <1>5, <1>6, <1>7, <1>8, <1>9, <1>10

\* The start claim: the tombstone is set exactly when a fresh start is granted.
LEMMA ClaimSteps ==
  ASSUME Inv, NEW p \in permits, ClaimDispatchStart(p)
  PROVE  Inv'
<1> USE SessionAssumption
<1> DEFINE e == p.effect
           s == [effects[e] EXCEPT !.dispatch.start = eventSequence + 1]
<1>1. e \in Effects /\ ActiveEffect(e) /\ NotAwaiting
  BY DEF ClaimDispatchStart, Claimable, Inv, CoreType, Permit
<1>2. effects[e].phase = "dispatched" /\ effects[e].dispatch.start = 0
  BY DEF ClaimDispatchStart, Claimable
<1>3. /\ UNCHANGED <<activeTurn, now, queuedTurns, generations, runtimePointer, permits>>
      /\ eventSequence' = eventSequence + 1
      /\ effects' = [effects EXCEPT ![e] = s]
      /\ freshStarts' = [freshStarts EXCEPT ![e] = @ + 1]
  BY DEF ClaimDispatchStart, Commit
<1> HIDE DEF e
<1>4. /\ effects[e] \in Effect /\ effects[e] # None /\ activeTurn \in ActiveTurn
      /\ activeTurn # None /\ activeTurn.effect = e /\ activeTurn.status = "active"
  BY <1>1, ActiveRecord, NotBlockedIsActive
<1>5. eventSequence + 1 \in Nat /\ eventSequence + 1 # 0
  BY DEF Inv, CoreType
<1>6. /\ Continues(effects[e], s) /\ s.phase = effects[e].phase
      /\ s.attempt = effects[e].attempt /\ s.dispatch.start = eventSequence + 1
  BY <1>4, <1>5, StartedRecord
<1> HIDE DEF s
<1>7. s \in Effect /\ s # None
  BY <1>6, NoneAssumption DEF Continues
<1>8. CoreType'
  BY <1>1, <1>3, <1>7 DEF Inv, CoreType
<1>9. ActiveExists' /\ SettlementAccounted' /\ BlockedAwaits'
  BY Zenon, <1>1, <1>2, <1>3, <1>4, <1>6, ActiveMoves
<1>10. PermitsOrdered'
  BY Zenon, <1>1, <1>3, <1>4, <1>6, <1>7, PermitsKept
<1>11. StartRecorded'
  <2>1. /\ effects'[e] = s /\ freshStarts'[e] = freshStarts[e] + 1
        /\ \A f \in Effects \ {e} : effects'[f] = effects[f] /\ freshStarts'[f] = freshStarts[f]
    BY <1>1, <1>3 DEF Inv, CoreType
  <2>2. freshStarts[e] = 0
    BY <1>1, <1>2, <1>4 DEF Inv, StartRecorded
  <2>3. effects'[e] # None /\ freshStarts'[e] = 1
        /\ effects'[e].dispatch.start # 0 /\ effects'[e].phase # "prepared"
    <3>1. effects'[e] # None /\ freshStarts'[e] = 1
      BY <1>7, <2>1, <2>2
    <3>2. s.dispatch.start # 0 /\ s.phase # "prepared"
      BY <1>2, <1>5, <1>6
    <3> QED BY Zenon, <2>1, <3>1, <3>2
  <2>4. ASSUME NEW f \in Effects, f # e
        PROVE  /\ effects'[f] = None => freshStarts'[f] = 0
               /\ effects'[f] # None =>
                    /\ effects'[f].dispatch.start = 0 => freshStarts'[f] = 0
                    /\ effects'[f].dispatch.start # 0 => freshStarts'[f] = 1
                    /\ effects'[f].phase = "prepared" => effects'[f].dispatch.start = 0
    <3>1. effects'[f] = effects[f] /\ freshStarts'[f] = freshStarts[f]
      BY Zenon, <2>1, <2>4
    <3> QED BY Zenon, <3>1 DEF Inv, StartRecorded
  <2> QED BY Zenon, <2>3, <2>4 DEF StartRecorded
<1> QED BY <1>8, <1>9, <1>10, <1>11 DEF Inv

\* The runtime pointer and the generations.
LEMMA PointerSteps ==
  ASSUME Inv, PointerNext
  PROVE  Inv'
<1> USE SessionAssumption
<1>0. runtimePointer \in Pointer
  BY DEF Inv, CoreType
<1>1. ASSUME NEW q \in Pointer, SwitchPointer(q)
      PROVE  Inv'
  <2>1. UNCHANGED <<effects, permits, freshStarts, activeTurn, now, queuedTurns, generations>>
        /\ eventSequence' = eventSequence + 1 /\ runtimePointer' = q
    BY <1>1 DEF SwitchPointer, Commit
  <2>2. CoreType'
    BY <2>1 DEF Inv, CoreType
  <2> QED BY <2>1, <2>2, EffectsUntouched DEF Inv
<1>2. \A r \in Revisions \cup {None} : [runtimePointer EXCEPT !.candidate = r] \in Pointer
  BY <1>0 DEF Pointer
<1>3. /\ runtimePointer.active \in Revisions /\ runtimePointer.switch + 1 \in Nat \ {0}
      /\ runtimePointer.candidate \in Revisions \cup {None}
      /\ runtimePointer.previous \in Revisions \cup {None}
  BY <1>0 DEF Pointer
<1>4. \A r \in Revisions : [active |-> r, candidate |-> None, previous |-> runtimePointer.active,
                            switch |-> runtimePointer.switch + 1] \in Pointer
  BY <1>3 DEF Pointer
<1>5. ASSUME NEW r \in Revisions, StageRevision(r)
      PROVE  Inv'
  BY <1>1, <1>2, <1>5 DEF StageRevision
<1>6. ASSUME DiscardCandidate
      PROVE  Inv'
  BY <1>1, <1>2, <1>6 DEF DiscardCandidate
<1>7. ASSUME ActivateRevision
      PROVE  Inv'
  BY <1>1, <1>3, <1>4, <1>7 DEF ActivateRevision
<1>8. ASSUME RollbackRevision
      PROVE  Inv'
  BY <1>1, <1>3, <1>4, <1>8 DEF RollbackRevision
<1>9. ASSUME NEW g \in [Kinds -> 0..MaxGeneration], RotateGenerations(g)
      PROVE  Inv'
  <2>1. UNCHANGED <<effects, permits, freshStarts, activeTurn, now, queuedTurns, runtimePointer>>
        /\ eventSequence' = eventSequence + 1 /\ generations' = g
    BY <1>9 DEF RotateGenerations, Commit
  <2>2. CoreType'
    BY <2>1 DEF Inv, CoreType
  <2> QED BY <2>1, <2>2, EffectsUntouched DEF Inv
<1> QED BY <1>5, <1>6, <1>7, <1>8, <1>9 DEF PointerNext

\* Inv is inductive.
LEMMA InvNext ==
  ASSUME Inv, [Next]_vars
  PROVE  Inv'
<1>1. CASE TurnNext
  BY <1>1, AdmissionSteps, ClosingSteps, RequestSteps DEF TurnNext
<1>2. CASE EffectNext
  BY <1>2, EffectSteps
<1>3. CASE \E p \in permits : ClaimDispatchStart(p)
  BY <1>3, ClaimSteps
<1>4. CASE PointerNext
  BY <1>4, PointerSteps
<1>5. CASE Tick
  <2>1. /\ UNCHANGED <<eventSequence, queuedTurns, activeTurn, effects, generations,
                       runtimePointer, permits, freshStarts>>
        /\ now' \in Time
    BY <1>5, SessionAssumption DEF Tick, Inv, CoreType, Time
  <2> QED BY <2>1 DEF Inv, CoreType, ActiveExists, SettlementAccounted, BlockedAwaits,
                      StartRecorded, PermitsOrdered, Unconsumed, ActiveEffect
<1>6. CASE UNCHANGED vars
  BY Zenon, <1>6 DEF vars, Inv, CoreType, ActiveExists, SettlementAccounted, BlockedAwaits,
              StartRecorded, PermitsOrdered, Unconsumed, ActiveEffect
<1> QED BY <1>1, <1>2, <1>3, <1>4, <1>5, <1>6 DEF Next

\* A session is created without turns, effects and permits, so Inv holds.
LEMMA InvInit ==
  ASSUME Init
  PROVE  Inv
<1> USE SessionAssumption
<1>1. CoreType
  BY DEF Init, CoreType, Time, Pointer
<1>2. ActiveExists /\ SettlementAccounted /\ BlockedAwaits /\ StartRecorded /\ PermitsOrdered
  BY DEF Init, ActiveExists, SettlementAccounted, BlockedAwaits, StartRecorded, PermitsOrdered
<1> QED BY <1>1, <1>2 DEF Inv

\* The invariant holds throughout.
THEOREM Invariance == Spec => []Inv
  BY InvInit, InvNext, PTL DEF Spec

----------------------------------------------------------------------------
(* What the invariant gives. *)

\* At most one start claim of an effect is ever answered fresh, over every
\* redispatch, recovery and confirmed retry (claim_dispatch_start).
THEOREM StartsAtMostOnce == Spec => []SingleStart
<1>1. Inv => SingleStart
  <2> SUFFICES ASSUME Inv, NEW e \in Effects
               PROVE  freshStarts[e] <= 1
    BY DEF SingleStart
  <2>1. freshStarts[e] = 0 \/ freshStarts[e] = 1
    BY DEF Inv, StartRecorded
  <2> QED BY <2>1
<1> QED BY <1>1, Invariance, PTL

\* A settlement is consumed once, by the checkpoint or by the abort, and is the
\* active turn's only open effect until then (commit_engine_step, finalize_abort).
THEOREM SettlementsConsumedOnce == Spec => []SettlementAccounted
<1>1. Inv => SettlementAccounted
  BY DEF Inv
<1> QED BY <1>1, Invariance, PTL

\* A turn awaits confirmation exactly while its effect is blocked
\* (recover_effect, resolve_confirmation, record_external_commit).
THEOREM ConfirmationMatches == Spec => []BlockedAwaits
<1>1. Inv => BlockedAwaits
  BY DEF Inv
<1> QED BY <1>1, Invariance, PTL

\* Of all the permits ever issued at most one can still be claimed.
THEOREM LivePermitUnique == Spec => []OneLivePermit
<1>1. Inv => OneLivePermit
  <2> SUFFICES ASSUME Inv, NEW p \in permits, NEW q \in permits, Claimable(p), Claimable(q)
               PROVE  p = q
    BY DEF OneLivePermit
  <2>1. p.effect = q.effect
    BY DEF Claimable, ActiveEffect
  <2>2. p.attempt = q.attempt
    BY <2>1 DEF Claimable, MatchesDispatch
  <2> QED BY <2>1, <2>2 DEF Inv, PermitsOrdered
<1> QED BY <1>1, Invariance, PTL

\* A replayed receipt hands out the newest permit of its effect, which is good for
\* a claim until it is started or late (receipt replay of a dispatch).
THEOREM ReplayedPermitCurrent == Spec => []ReplayIsCurrent
<1>1. Inv => ReplayIsCurrent
  <2> SUFFICES ASSUME Inv, NEW p \in permits, Replayable(p)
               PROVE  /\ \A q \in permits : q.effect = p.effect => q.seq <= p.seq
                      /\ effects[p.effect].dispatch.start = 0 /\ now < p.deadline => Claimable(p)
    BY DEF ReplayIsCurrent
  <2>1. p.attempt = effects[p.effect].attempt /\ p \in Permit
    BY DEF Replayable, MatchesDispatch, Inv, CoreType
  <2>2. ASSUME NEW q \in permits, q.effect = p.effect
        PROVE  q.seq <= p.seq
    <3>1. q.attempt <= p.attempt /\ q \in Permit
      BY <2>1, <2>2 DEF Inv, PermitsOrdered, CoreType
    <3>2. q.attempt \in Nat /\ p.attempt \in Nat /\ q.seq \in Nat /\ p.seq \in Nat
      BY <2>1, <3>1 DEF Permit
    <3>3. CASE q.attempt = p.attempt
      BY <2>2, <3>2, <3>3 DEF Inv, PermitsOrdered
    <3>4. CASE q.attempt < p.attempt
      BY <2>2, <3>2, <3>4 DEF Inv, PermitsOrdered
    <3> QED BY <3>1, <3>2, <3>3, <3>4
  <2>3. p.effect \in Effects /\ ActiveEffect(p.effect) /\ effects[p.effect].phase = "dispatched"
    BY <2>1 DEF Permit, Replayable
  <2>4. NotAwaiting
    BY <2>3, NotBlockedIsActive DEF NotAwaiting, ActiveEffect
  <2>5. p.deadline = effects[p.effect].dispatch.deadline
    BY DEF Replayable, MatchesDispatch
  <2> QED BY <2>2, <2>4, <2>5 DEF Claimable, Replayable
<1> QED BY <1>1, Invariance, PTL

\* What the permits of an effect promise together, for every number of turns, effects and
\* attempts: one start, one permit that can still start it, no revival of a superseded one.
THEOREM PermitsAreSound == Spec => []PermitsSound
<1>1. SingleStart /\ OneLivePermit /\ ReplayIsCurrent => PermitsSound
  BY DEF PermitsSound
<1> QED BY <1>1, StartsAtMostOnce, LivePermitUnique, ReplayedPermitCurrent, PTL

----------------------------------------------------------------------------
(* The runtime pointer. *)

\* Active, candidate and previous revision never alias, whatever is staged,
\* discarded, activated or rolled back (stage_runtime_revision).
THEOREM RevisionsNeverAlias == Spec => []PointerDistinct
<1>1. Init => PointerDistinct
  BY SessionAssumption DEF Init, PointerDistinct
<1>2. Inv /\ PointerDistinct /\ [Next]_vars => PointerDistinct'
  <2> SUFFICES ASSUME Inv, PointerDistinct, [Next]_vars
               PROVE  PointerDistinct'
    OBVIOUS
  <2> USE SessionAssumption
  <2>0. runtimePointer \in Pointer
    BY DEF Inv, CoreType
  <2>1. CASE UNCHANGED runtimePointer
    BY <2>1 DEF PointerDistinct
  <2>2. ASSUME NEW r \in Revisions, StageRevision(r)
        PROVE  PointerDistinct'
    BY <2>0, <2>2 DEF StageRevision, SwitchPointer, PointerDistinct, Pointer
  <2>3. CASE DiscardCandidate
    BY <2>0, <2>3 DEF DiscardCandidate, SwitchPointer, PointerDistinct, Pointer
  <2>4. CASE ActivateRevision
    BY <2>0, <2>4 DEF ActivateRevision, SwitchPointer, PointerDistinct, Pointer
  <2>5. CASE RollbackRevision
    BY <2>0, <2>5 DEF RollbackRevision, SwitchPointer, PointerDistinct, Pointer
  <2>6. CASE PointerNext
    <3>1. ASSUME NEW g \in [Kinds -> 0..MaxGeneration], RotateGenerations(g)
          PROVE  PointerDistinct'
      BY <2>1, <3>1 DEF RotateGenerations
    <3> QED BY <2>2, <2>3, <2>4, <2>5, <2>6, <3>1 DEF PointerNext
  <2>7. CASE TurnNext
    BY Zenon, <2>1, <2>7 DEF TurnNext, EnqueueTurn, RotateTurnLease, RequestAbort, FinalizeAbort,
                      CommitCheckpoint, CommitEffectRequest, CommitTurnEnd
  <2>8. CASE EffectNext
    BY <2>1, <2>8 DEF EffectNext, DispatchEffect, RecordExternalCommit, SettleEffect,
                      RecoverRetry, RecoverInterrupt, RecoverBlock, ConfirmRetry, ConfirmAbandon
  <2>9. CASE \E p \in permits : ClaimDispatchStart(p)
    BY <2>1, <2>9 DEF ClaimDispatchStart
  <2>10. CASE Tick \/ UNCHANGED vars
    BY <2>1, <2>10 DEF Tick, vars
  <2> QED BY <2>6, <2>7, <2>8, <2>9, <2>10 DEF Next
<1> QED BY <1>1, <1>2, Invariance, PTL DEF Spec

\* Queued turns keep the revision of the pointer while it is not switched.
LEMMA PinnedAfterEnd ==
  ASSUME Inv, RevisionPinned, NEW outcome, EndTurn(outcome), UNCHANGED runtimePointer
  PROVE  RevisionPinned'
<1> DEFINE n == LapsedHeads(queuedTurns)
<1>1. n \in 0..Len(queuedTurns) /\ queuedTurns \in Seq(QueuedTurn)
  BY LapsedHeadsExist, SessionAssumption DEF Inv, CoreType
<1>2. /\ queuedTurns' = SubSeq(queuedTurns, n + 2, Len(queuedTurns))
      /\ activeTurn' = IF n = Len(queuedTurns) THEN None
                       ELSE Activated(queuedTurns[n + 1].turn, queuedTurns[n + 1].expires,
                                      queuedTurns[n + 1].revision)
  BY DEF EndTurn
<1> HIDE DEF n
<1>3. activeTurn' # None => activeTurn'.revision = runtimePointer'.active
  <2> SUFFICES ASSUME activeTurn' # None
               PROVE  activeTurn'.revision = runtimePointer.active
    OBVIOUS
  <2>1. /\ n + 1 \in 1..Len(queuedTurns)
        /\ activeTurn' = Activated(queuedTurns[n + 1].turn, queuedTurns[n + 1].expires,
                                   queuedTurns[n + 1].revision)
    BY <1>1, <1>2
  <2>2. activeTurn'.revision = queuedTurns[n + 1].revision
    BY <2>1 DEF Activated
  <2> QED BY <2>1, <2>2 DEF RevisionPinned
<1>4. \A i \in 1..Len(queuedTurns') : queuedTurns'[i].revision = runtimePointer'.active
  <2> TAKE i \in 1..Len(queuedTurns')
  <2>1. n + 1 + i \in 1..Len(queuedTurns) /\ queuedTurns'[i] = queuedTurns[n + 1 + i]
    BY <1>1, <1>2
  <2> QED BY <2>1 DEF RevisionPinned
<1> QED BY <1>3, <1>4 DEF RevisionPinned

\* A queued or active turn runs under the active revision: a turn is admitted under it
\* (enqueue_turn) and the pointer is switched only in a drained session.
THEOREM RevisionsArePinned == Spec => []RevisionPinned
<1>1. Init => RevisionPinned
  BY DEF Init, RevisionPinned
<1>2. Inv /\ RevisionPinned /\ [Next]_vars => RevisionPinned'
  <2> SUFFICES ASSUME Inv, RevisionPinned, [Next]_vars
               PROVE  RevisionPinned'
    OBVIOUS
  <2>0. /\ activeTurn \in ActiveTurn \cup {None} /\ queuedTurns \in Seq(QueuedTurn)
        /\ runtimePointer \in Pointer /\ None \notin ActiveTurn
    BY NoneAssumption DEF Inv, CoreType, NoneAssumption
  <2>1. ASSUME UNCHANGED <<queuedTurns, runtimePointer>>,
               activeTurn' # None => activeTurn # None /\ activeTurn'.revision = activeTurn.revision
        PROVE  RevisionPinned'
    BY <2>1 DEF RevisionPinned
  <2>2. ASSUME NEW t \in Turns, NEW x \in Time, NEW k \in Keys \cup {None}, EnqueueTurn(t, x, k)
        PROVE  RevisionPinned'
    <3>1. UNCHANGED runtimePointer
      BY <2>2 DEF EnqueueTurn
    <3>2. CASE activeTurn = None
      <4>1. /\ activeTurn' = Activated(t, x, runtimePointer.active)
            /\ UNCHANGED queuedTurns
        BY <2>2, <3>2 DEF EnqueueTurn
      <4> QED BY <3>1, <4>1 DEF RevisionPinned, Activated
    <3>3. CASE activeTurn # None
      <4> DEFINE q == [turn |-> t, expires |-> x, revision |-> runtimePointer.active]
      <4>1. queuedTurns' = Append(queuedTurns, q) /\ UNCHANGED activeTurn
        BY <2>2, <3>3 DEF EnqueueTurn
      <4>2. q.revision = runtimePointer.active
        OBVIOUS
      <4> HIDE DEF q
      <4>3. \A i \in 1..Len(queuedTurns') : queuedTurns'[i].revision = runtimePointer.active
        BY <2>0, <4>1, <4>2 DEF RevisionPinned
      <4> QED BY <3>1, <4>1, <4>3 DEF RevisionPinned
    <3> QED BY <3>2, <3>3
  <2>3. CASE TurnNext
    <3>1. ASSUME NEW x \in Time, RotateTurnLease(x)
          PROVE  RevisionPinned'
      BY <2>0, <2>1, <3>1 DEF RotateTurnLease, ActiveTurn
    <3>2. CASE RequestAbort
      <4>1. CASE activeTurn.effect = None
        BY <3>2, <4>1, PinnedAfterEnd DEF RequestAbort
      <4>2. CASE activeTurn.effect # None
        BY <2>0, <2>1, <3>2, <4>2 DEF RequestAbort, ActiveTurn
      <4> QED BY <4>1, <4>2
    <3>3. CASE FinalizeAbort
      BY <3>3, PinnedAfterEnd DEF FinalizeAbort
    <3>4. CASE CommitCheckpoint
      BY <2>0, <2>1, <3>4 DEF CommitCheckpoint, StepAllowed, NotAwaiting, ActiveTurn
    <3>5. ASSUME NEW e \in Effects, NEW s \in Services, NEW p \in Policies,
                 CommitEffectRequest(e, s, p)
          PROVE  RevisionPinned'
      BY <2>0, <2>1, <3>5 DEF CommitEffectRequest, StepAllowed, NotAwaiting, ActiveTurn
    <3>6. ASSUME NEW outcome \in {"completed", "failed"}, CommitTurnEnd(outcome)
          PROVE  RevisionPinned'
      BY <3>6, PinnedAfterEnd DEF CommitTurnEnd
    <3> QED BY <2>2, <2>3, <3>1, <3>2, <3>3, <3>4, <3>5, <3>6 DEF TurnNext
  <2>4. ASSUME NEW e \in Effects
        PROVE  /\ \A d \in Time : DispatchEffect(e, d) => RevisionPinned'
               /\ RecordExternalCommit(e) => RevisionPinned'
               /\ \A kind \in {"success", "error", "interrupted_unknown"} :
                    SettleEffect(e, kind) => RevisionPinned'
               /\ \A c, d \in Time : /\ RecoverRetry(e, c, d) => RevisionPinned'
                                     /\ RecoverInterrupt(e, c, d) => RevisionPinned'
                                     /\ RecoverBlock(e, c, d) => RevisionPinned'
                                     /\ ConfirmRetry(e, c, d) => RevisionPinned'
               /\ ConfirmAbandon(e) => RevisionPinned'
    <3>1. \A s \in STRING : activeTurn # None =>
            [activeTurn EXCEPT !.status = s].revision = activeTurn.revision
      BY <2>0 DEF ActiveTurn
    <3>2. \A d \in Time : DispatchEffect(e, d) => RevisionPinned'
      BY <2>1 DEF DispatchEffect
    <3>3. RecordExternalCommit(e) => RevisionPinned'
      BY <2>1, <3>1 DEF RecordExternalCommit, ActiveEffect
    <3>4. \A kind \in {"success", "error", "interrupted_unknown"} :
            SettleEffect(e, kind) => RevisionPinned'
      BY <2>1 DEF SettleEffect
    <3>5. \A c, d \in Time : /\ RecoverRetry(e, c, d) => RevisionPinned'
                             /\ RecoverInterrupt(e, c, d) => RevisionPinned'
      BY <2>1 DEF RecoverRetry, RecoverInterrupt
    <3>6. \A c, d \in Time : RecoverBlock(e, c, d) => RevisionPinned'
      BY <2>1, <3>1 DEF RecoverBlock, Recoverable, ActiveEffect
    <3>7. \A c, d \in Time : ConfirmRetry(e, c, d) => RevisionPinned'
      BY <2>1, <3>1 DEF ConfirmRetry, ActiveEffect
    <3>8. ConfirmAbandon(e) => RevisionPinned'
      BY <2>1, <3>1 DEF ConfirmAbandon, ActiveEffect
    <3> QED BY <3>2, <3>3, <3>4, <3>5, <3>6, <3>7, <3>8
  <2>5. CASE EffectNext
    BY <2>4, <2>5 DEF EffectNext
  <2>6. CASE \E p \in permits : ClaimDispatchStart(p)
    BY <2>1, <2>6 DEF ClaimDispatchStart
  <2>7. CASE PointerNext
    <3>1. ASSUME NEW r \in Revisions, StageRevision(r)
          PROVE  RevisionPinned'
      BY <2>0, <3>1 DEF StageRevision, SwitchPointer, RevisionPinned, Pointer
    <3>2. CASE DiscardCandidate
      BY <2>0, <3>2 DEF DiscardCandidate, SwitchPointer, RevisionPinned, Pointer
    <3>3. CASE ActivateRevision \/ RollbackRevision
      <4>1. Drained /\ UNCHANGED <<activeTurn, queuedTurns>>
        BY <3>3 DEF ActivateRevision, RollbackRevision, SwitchPointer
      <4> QED BY <4>1 DEF Drained, RevisionPinned
    <3>4. ASSUME NEW g \in [Kinds -> 0..MaxGeneration], RotateGenerations(g)
          PROVE  RevisionPinned'
      BY <2>1, <3>4 DEF RotateGenerations
    <3> QED BY <2>7, <3>1, <3>2, <3>3, <3>4 DEF PointerNext
  <2>8. CASE Tick \/ UNCHANGED vars
    BY <2>1, <2>8 DEF Tick, vars
  <2> QED BY <2>3, <2>5, <2>6, <2>7, <2>8 DEF Next
<1> QED BY <1>1, <1>2, Invariance, PTL DEF Spec

\* Together: what was admitted under a revision runs under it, and a rollback always
\* has another target.
THEOREM RevisionsAreKept == Spec => []RevisionsKept
<1>1. RevisionPinned /\ PointerDistinct => RevisionsKept
  BY DEF RevisionsKept
<1> QED BY <1>1, RevisionsArePinned, RevisionsNeverAlias, PTL

====
