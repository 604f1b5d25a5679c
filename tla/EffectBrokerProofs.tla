------------------------- MODULE EffectBrokerProofs -------------------------
(***************************************************************************)
(* One effect calls its provider at most once and is settled as the ledger *)
(* recorded it, for any number of coordinators, operation keys, attempts,  *)
(* generations and crashes.  The argument is the inductive invariant       *)
(* BrokerInv: a claimed start freezes the dispatch, so there is one claim  *)
(* and one coordinator that was told it is fresh; and a snapshot with the  *)
(* owner's sequence is of the owner's attempt, so what the ledger said     *)
(* about the one is still true of the other.                               *)
(***************************************************************************)
EXTENDS EffectBroker, TLAPS

\* The record the Session keeps: which fields each phase has, and the one start claim
OwnerInv ==
  /\ owner.phase = "prepared" => owner.dispatch = None /\ owner.attempt = 0
  /\ owner.phase \in {"dispatched", "blocked", "externally_committed"} =>
       owner.dispatch # None /\ owner.attempt \in Attempts
  /\ owner.phase \in {"externally_committed", "settled"} => owner.preparation = None
  /\ owner.started => owner.dispatch # None
  /\ claims = IF owner.started THEN {owner.dispatch.sequence} ELSE {}
  /\ owner.settlement # None => owner.phase = "settled"
  /\ owner.settlement = "interrupted" => ~owner.started
  /\ owner.settlement \in {"success", "failed"} => owner.attempt \in Attempts

\* The record and the ledger agree on an outcome
OutcomeInv ==
  /\ owner.phase = "externally_committed" => ledger[owner.attempt] = "committed"
  /\ SettledAsRecorded

\* Where a call has a command to send under its operation key
Sending == {"lookup", "confirm_lookup", "confirm", "settle", "fail", "interrupt", "block",
            "retry", "redispatch", "dispatch"}

\* A call q in progress, while the owner's record is o, the ledger l and n provider calls
\* were begun: its snapshot is of the owner's past, what it read in the ledger is still
\* there, and only the call that was told its claim is fresh goes on to start
CallOK(q, o, l, n) ==
  /\ q.snapshot # None =>
       /\ q.snapshot.sequence <= o.sequence
       /\ q.snapshot.sequence = o.sequence => q.snapshot.attempt = o.attempt
  /\ q.pc \in {"lookup", "confirm_lookup", "confirm", "fail"} =>
       q.snapshot # None /\ q.snapshot.attempt \in Attempts
  /\ q.pc \in Sending => q.key \in Keys
  /\ q.pc = "confirm" => l[q.snapshot.attempt] = "committed"
  /\ q.pc = "fail" => l[q.snapshot.attempt] = "failed"
  /\ q.fresh = TRUE => q.pc \in {"verify", "starting", "running"} /\ o.started = TRUE
  /\ q.pc \in {"starting", "running"} => q.fresh = TRUE
  /\ q.fresh = TRUE /\ q.pc # "running" => n = 0

CallsInv == \A c \in Coordinators : CallOK(proc[c], owner, ledger, runs)

\* At most one call was told its claim is fresh, and it makes the only provider call
StartInv ==
  /\ \A c, d \in Coordinators : proc[c].fresh = TRUE /\ proc[d].fresh = TRUE => c = d
  /\ runs \in {0, 1}
  /\ runs = 1 => owner.started = TRUE

BrokerInv ==
  /\ TypeOK /\ BrokerConsistent /\ ReservationExcludesStart
  /\ OwnerInv /\ OutcomeInv /\ CallsInv /\ StartInv

-----------------------------------------------------------------------------
(* The calls in progress *)

\* An outcome in the ledger stays
Kept(l, m) == \A a \in Attempts : l[a] \in {"committed", "failed"} => m[a] = l[a]

\* The owner's record moves on, or stays at its sequence and attempt
Onward(o, p) ==
  /\ p.sequence > o.sequence \/ (p.sequence = o.sequence /\ p.attempt = o.attempt)
  /\ o.started = TRUE => p.started = TRUE

\* A call that does nothing is not disturbed by what the others do.
LEMMA CallKept ==
  ASSUME NEW q \in Proc, NEW o \in Owner, NEW p \in Owner, NEW l, NEW m, NEW n, NEW k,
         CallOK(q, o, l, n), Onward(o, p), Kept(l, m), 
         (q.fresh = TRUE /\ q.pc # "running") => k = n
  PROVE  CallOK(q, p, m, k)
<1>1. q.snapshot \in Owner \cup {None} /\ q.pc \in Calls  BY DEF Proc
<1>2. o.sequence \in Nat /\ p.sequence \in Nat  BY DEF Owner, Sequences
<1>3. ASSUME q.snapshot # None
      PROVE  /\ q.snapshot.sequence <= p.sequence
             /\ q.snapshot.sequence = p.sequence => q.snapshot.attempt = p.attempt
  <2>1. q.snapshot.sequence \in Nat  BY <1>1, <1>3 DEF Owner, Sequences
  <2> QED  BY <2>1, <1>2, <1>3 DEF CallOK, Onward
<1> QED  BY <1>1, <1>3 DEF CallOK, Onward, Kept

\* One call moves: the others are as they were, and at most it is fresh.
LEMMA CallMoves ==
  ASSUME BrokerInv, NEW c \in Coordinators, NEW q \in Proc, proc' = [proc EXCEPT ![c] = q],
         owner' \in Owner, Onward(owner, owner'), Kept(ledger, ledger'), runs' = runs,
         CallOK(q, owner', ledger', runs'),
         q.fresh = TRUE => \A d \in Coordinators \ {c} : proc[d].fresh # TRUE
  PROVE  proc' \in [Coordinators -> Proc] /\ CallsInv' /\ StartInv'
<1>1. proc \in [Coordinators -> Proc] /\ owner \in Owner  BY DEF BrokerInv, TypeOK
<1>2. proc' \in [Coordinators -> Proc] /\ proc'[c] = q /\ \A d \in Coordinators \ {c} : proc'[d] = proc[d]
  BY <1>1
<1>3. CallsInv'
  <2> SUFFICES ASSUME NEW d \in Coordinators PROVE CallOK(proc'[d], owner', ledger', runs')
    BY DEF CallsInv
  <2>1. CASE d = c  BY <2>1, <1>2
  <2>2. CASE d # c
    <3>1. CallOK(proc[d], owner, ledger, runs) /\ proc[d] \in Proc  BY <1>1 DEF BrokerInv, CallsInv
    <3>2. CallOK(proc[d], owner', ledger', runs')  BY <3>1, <1>1, CallKept
    <3> QED  BY <3>2, <2>2, <1>2
  <2> QED  BY <2>1, <2>2
<1>4. StartInv'  BY <1>2 DEF BrokerInv, StartInv, Onward
<1> QED  BY <1>2, <1>3, <1>4

\* No call moves.
LEMMA CallsRest ==
  ASSUME BrokerInv, UNCHANGED <<proc, runs>>, owner' \in Owner, Onward(owner, owner'),
         Kept(ledger, ledger')
  PROVE  proc' \in [Coordinators -> Proc] /\ CallsInv' /\ StartInv'
<1>1. proc \in [Coordinators -> Proc] /\ owner \in Owner  BY DEF BrokerInv, TypeOK
<1>2. CallsInv'
  <2> SUFFICES ASSUME NEW d \in Coordinators PROVE CallOK(proc[d], owner', ledger', runs)
    BY DEF CallsInv
  <2>1. CallOK(proc[d], owner, ledger, runs) /\ proc[d] \in Proc  BY <1>1 DEF BrokerInv, CallsInv
  <2> QED  BY <2>1, <1>1, CallKept
<1>3. StartInv'  BY DEF BrokerInv, StartInv, Onward
<1> QED  BY <1>1, <1>2, <1>3

-----------------------------------------------------------------------------
(* What a step may set a call to *)

\* A call that ended satisfies CallOK whatever the others do.
LEMMA IdleCall ==
  Idle \in Proc /\ Idle.fresh = FALSE /\ \A o, l, n : CallOK(Idle, o, l, n)
BY DEF Idle, Proc, Calls, CallOK, Sending

\* So does one that only holds a permit.
LEMMA HeldCall ==
  ASSUME NEW pc \in {"validate", "holding", "verify"}, NEW permit \in Dispatch \cup {None}
  PROVE  LET q == [Idle EXCEPT !.pc = pc, !.permit = permit, !.fresh = FALSE]
         IN  q \in Proc /\ q.fresh = FALSE /\ \A o, l, n : CallOK(q, o, l, n)
BY DEF Idle, Proc, Calls, CallOK, Sending

\* A call that has just taken its snapshot of the owner.
LEMMA EnteredCall ==
  ASSUME owner \in Owner, NEW q \in Proc, q.snapshot = owner, q.key \in Keys,
         q.pc \in Sending \ {"confirm", "fail"}, q.fresh = FALSE,
         q.pc \in {"lookup", "confirm_lookup"} => owner.attempt \in Attempts
  PROVE  CallOK(q, owner, ledger, runs)
<1>1. owner # None /\ owner.sequence \in Nat  BY NoneAssumption DEF Owner, Sequences
<1> QED  BY <1>1 DEF CallOK, Sending

\* A step that moves one call and nothing else.
LEMMA CallStep ==
  ASSUME BrokerInv, NEW c \in Coordinators, NEW q \in Proc, proc' = [proc EXCEPT ![c] = q],
         UNCHANGED <<owner, receipts, claims, lapsed, ledger, runs>>,
         CallOK(q, owner, ledger, runs), q.fresh = TRUE => proc[c].fresh = TRUE
  PROVE  BrokerInv'
<1>1. owner' \in Owner /\ Onward(owner, owner') /\ Kept(ledger, ledger')
  BY DEF BrokerInv, TypeOK, Onward, Kept
<1>2. q.fresh = TRUE => \A d \in Coordinators \ {c} : proc[d].fresh # TRUE
  BY Zenon DEF BrokerInv, StartInv
<1>3. proc' \in [Coordinators -> Proc] /\ CallsInv' /\ StartInv'  BY <1>1, <1>2, CallMoves
<1>4. TypeOK'  BY <1>3 DEF BrokerInv, TypeOK
<1>5. BrokerConsistent' /\ ReservationExcludesStart' /\ OwnerInv' /\ OutcomeInv'
  BY DEF BrokerInv, BrokerConsistent, ReservationExcludesStart, Reserved, OwnerInv, OutcomeInv,
         SettledAsRecorded
<1> QED  BY <1>3, <1>4, <1>5 DEF BrokerInv

\* A call returns and nothing else changes.
LEMMA ReturnStep ==
  ASSUME BrokerInv, NEW c \in Coordinators, Return(c),
         UNCHANGED <<owner, receipts, claims, lapsed, ledger, runs>>
  PROVE  BrokerInv'
BY Zenon, IdleCall, CallStep DEF Return

\* A command is committed: one call moves on, not fresh, and the owner's record by one event.
LEMMA CommitStep ==
  ASSUME BrokerInv, NEW c \in Coordinators, NEW q \in Proc, proc' = [proc EXCEPT ![c] = q],
         UNCHANGED <<claims, lapsed, ledger, runs>>, receipts' \subseteq Receipt,
         owner' \in Owner, owner'.sequence > owner.sequence,
         owner.started = TRUE => owner'.started = TRUE,
         CallOK(q, owner', ledger, runs), q.fresh = FALSE,
         BrokerConsistent', ReservationExcludesStart', OwnerInv', OutcomeInv'
  PROVE  BrokerInv'
<1>1. Onward(owner, owner') /\ Kept(ledger, ledger')  BY DEF Onward, Kept
<1>2. proc' \in [Coordinators -> Proc] /\ CallsInv' /\ StartInv'  BY <1>1, CallMoves
<1>3. TypeOK'  BY <1>2 DEF BrokerInv, TypeOK
<1> QED  BY <1>2, <1>3 DEF BrokerInv

-----------------------------------------------------------------------------
(* The steps of a call that only read *)

\* The permit of a receipt is a permit or none.
LEMMA ReceiptTyped ==
  ASSUME TypeOK, NEW kind, NEW k, Found(kind, k)
  PROVE  ReceiptOf(kind, k) \in Receipt
BY DEF TypeOK, Found, ReceiptOf

\* A call takes its snapshot and goes on.
LEMMA EnterStep ==
  ASSUME BrokerInv, NEW c \in Coordinators, NEW k \in Keys, NEW b \in BOOLEAN,
         NEW pc \in Sending \ {"confirm", "fail"}, Enter(c, k, pc, b),
         pc \in {"lookup", "confirm_lookup"} => owner.attempt \in Attempts,
         UNCHANGED <<owner, receipts, claims, lapsed, ledger, runs>>
  PROVE  BrokerInv'
<1> DEFINE q == [Idle EXCEPT !.pc = pc, !.key = k, !.snapshot = owner, !.confirmed = b]
<1>1. owner \in Owner  BY DEF BrokerInv, TypeOK
<1>2. q.pc = pc /\ q.key = k /\ q.snapshot = owner /\ q.fresh = FALSE  BY DEF Idle
<1>3. q \in Proc
  <2>1. CASE b = TRUE  BY Zenon, <2>1, <1>1 DEF Idle, Proc, Calls, Sending
  <2>2. CASE b = FALSE  BY <2>2, <1>1 DEF Idle, Proc, Calls, Sending
  <2> QED  BY Zenon, <2>1, <2>2
<1>4. proc' = [proc EXCEPT ![c] = q]  BY DEF Enter
<1> HIDE DEF q
<1>5. CallOK(q, owner, ledger, runs)  BY <1>1, <1>2, <1>3, EnteredCall
<1> QED  BY Zenon, <1>2, <1>3, <1>4, <1>5, CallStep

\* AdmitDispatch only reads: it hands out a retained permit or takes a snapshot.
LEMMA AdmitDispatchStep ==
  ASSUME BrokerInv, NEW c \in Coordinators, NEW k \in Keys, AdmitDispatch(c, k)
  PROVE  BrokerInv'
<1>1. UNCHANGED <<owner, receipts, claims, lapsed, ledger, runs>> /\ TypeOK
  BY Zenon DEF AdmitDispatch, BrokerInv
<1>2. CASE Found("dispatch", k)
  <2>1. ReceiptOf("dispatch", k).permit \in Dispatch \cup {None}
    BY <1>1, <1>2, ReceiptTyped DEF Receipt
  <2>2. Hold(c, "holding", ReceiptOf("dispatch", k).permit, FALSE)  BY Zenon, <1>2 DEF AdmitDispatch
  <2> QED  BY Zenon, <1>1, <2>1, <2>2, HeldCall, CallStep DEF Hold
<1>3. CASE ~Found("dispatch", k)
  <2>1. PICK p \in KnownPreparations :
          proc' = [proc EXCEPT ![c] = [Idle EXCEPT !.pc = "dispatch", !.key = k,
                                                   !.snapshot = owner, !.preparation = p]]
    BY Zenon, <1>3 DEF AdmitDispatch
  <2>2. p \in Preparation \cup {None}
    <3>1. CASE \E r \in receipts : p = r.preparation
      BY <1>1, <3>1 DEF TypeOK, Receipt
    <3>2. CASE p = [sequence |-> 1, source |-> 1, attempt |-> 1, generation |-> 1, retry |-> FALSE]
      BY <3>2, BoundsAssumption DEF Preparation, Sequences, Attempts
    <3> QED  BY <3>1, <3>2 DEF KnownPreparations
  <2> DEFINE q == [Idle EXCEPT !.pc = "dispatch", !.key = k, !.snapshot = owner, !.preparation = p]
  <2>3. q \in Proc  BY <1>1, <2>2 DEF Idle, Proc, Calls, TypeOK
  <2>4. q.pc = "dispatch" /\ q.key = k /\ q.snapshot = owner /\ q.fresh = FALSE  BY DEF Idle
  <2> HIDE DEF q
  <2>5. CallOK(q, owner, ledger, runs)  BY <1>1, <2>3, <2>4, EnteredCall DEF Sending, TypeOK
  <2>6. proc' = [proc EXCEPT ![c] = q]  BY <2>1 DEF q
  <2> QED  BY <1>1, <2>3, <2>4, <2>5, <2>6, CallStep
<1> QED  BY <1>2, <1>3

\* A replayed RecoverEffect hands out the retained permit again.
LEMMA RecoverReplayStep ==
  ASSUME BrokerInv, NEW c \in Coordinators, NEW k \in Keys, RecoverReplay(c, k)
  PROVE  BrokerInv'
<1>1. UNCHANGED <<owner, receipts, claims, lapsed, ledger, runs>> /\ TypeOK
  BY DEF RecoverReplay, BrokerInv
<1>2. ReceiptOf("dispatch", k).permit \in Dispatch \cup {None}
  BY <1>1, ReceiptTyped DEF Receipt, RecoverReplay
<1>3. Hold(c, "holding", ReceiptOf("dispatch", k).permit, FALSE)  BY DEF RecoverReplay
<1> QED  BY Zenon, <1>1, <1>2, <1>3, HeldCall, CallStep DEF Hold

\* RecoverEffect takes its snapshot, of an effect with a dispatch when it asks the ledger.
LEMMA RecoverEffectStep ==
  ASSUME BrokerInv, NEW c \in Coordinators, NEW k \in Keys, NEW b \in BOOLEAN,
         RecoverEffect(c, k, b)
  PROVE  BrokerInv'
<1>1. UNCHANGED <<owner, receipts, claims, lapsed, ledger, runs>>  BY DEF RecoverEffect
<1>2. CASE owner.phase = "dispatched" /\ Enter(c, k, "lookup", FALSE)
  <2>1. owner.attempt \in Attempts  BY <1>2 DEF BrokerInv, OwnerInv
  <2> QED  BY <1>1, <1>2, <2>1, EnterStep DEF Sending
<1>3. CASE Enter(c, k, "interrupt", FALSE)  BY <1>1, <1>3, EnterStep DEF Sending
<1>4. CASE Enter(c, k, "retry", FALSE)  BY <1>1, <1>4, EnterStep DEF Sending
<1>5. CASE Enter(c, k, "retry", TRUE)  BY <1>1, <1>5, EnterStep DEF Sending
<1> QED  BY <1>2, <1>3, <1>4, <1>5 DEF RecoverEffect

\* ConfirmExternalCommit takes its snapshot of an effect with a dispatch.
LEMMA ConfirmExternalCommitStep ==
  ASSUME BrokerInv, NEW c \in Coordinators, NEW k \in Keys, ConfirmExternalCommit(c, k)
  PROVE  BrokerInv'
<1>1. owner.attempt \in Attempts  BY DEF ConfirmExternalCommit, BrokerInv, OwnerInv
<1> QED  BY <1>1, EnterStep DEF ConfirmExternalCommit, Sending

\* SettleEffect takes its snapshot.
LEMMA SettleEffectStep ==
  ASSUME BrokerInv, NEW c \in Coordinators, NEW k \in Keys, SettleEffect(c, k)
  PROVE  BrokerInv'
BY EnterStep DEF SettleEffect, Sending

\* A call that changes nothing but its place.
LEMMA GotoStep ==
  ASSUME BrokerInv, NEW c \in Coordinators, NEW pc \in Calls, Goto(c, pc),
         CallOK([proc[c] EXCEPT !.pc = pc], owner, ledger, runs),
         UNCHANGED <<owner, receipts, claims, lapsed, ledger, runs>>
  PROVE  BrokerInv'
<1> DEFINE q == [proc[c] EXCEPT !.pc = pc]
<1>1. proc \in [Coordinators -> Proc]  BY DEF BrokerInv, TypeOK
<1>2. q \in Proc /\ q.fresh = proc[c].fresh  BY <1>1 DEF Proc
<1>3. proc' = [proc EXCEPT ![c] = q]  BY DEF Goto
<1> QED  BY <1>2, <1>3, CallStep

\* What GotoStep asks, from the fields of the call.
LEMMA MovedCall ==
  ASSUME BrokerInv, NEW c \in Coordinators, NEW pc \in Calls,
         proc[c].pc \in Sending => pc \in Sending \cup {"idle"},
         pc \in Sending => proc[c].pc \in Sending,
         pc \in {"lookup", "confirm_lookup", "confirm", "fail"} =>
           proc[c].pc \in {"lookup", "confirm_lookup"},
         pc = "confirm" => ledger[proc[c].snapshot.attempt] = "committed",
         pc = "fail" => ledger[proc[c].snapshot.attempt] = "failed",
         proc[c].fresh = TRUE <=> pc \in {"starting", "running"},
         proc[c].pc # "running", pc # "running"
  PROVE  CallOK([proc[c] EXCEPT !.pc = pc], owner, ledger, runs)
<1> DEFINE q == [proc[c] EXCEPT !.pc = pc]
<1>1. proc[c] \in Proc /\ CallOK(proc[c], owner, ledger, runs)  BY DEF BrokerInv, TypeOK, CallsInv
<1>2. /\ q.pc = pc /\ q.key = proc[c].key /\ q.snapshot = proc[c].snapshot
      /\ q.fresh = proc[c].fresh
  BY <1>1 DEF Proc
<1> HIDE DEF q
<1>3. CallOK(q, owner, ledger, runs)  BY <1>1, <1>2 DEF CallOK, Sending
<1> QED  BY <1>3 DEF q

\* The permit that is read back is handed out or dropped.
LEMMA ValidateDispatchStep ==
  ASSUME BrokerInv, NEW c \in Coordinators, ValidateDispatch(c)
  PROVE  BrokerInv'
<1>1. UNCHANGED <<owner, receipts, claims, lapsed, ledger, runs>> /\ proc[c].pc = "validate"
  BY DEF ValidateDispatch
<1>2. CASE Return(c)  BY <1>1, <1>2, ReturnStep
<1>3. CASE Goto(c, "holding")
  <2>1. proc[c].fresh # TRUE  BY <1>1 DEF BrokerInv, CallsInv, CallOK
  <2>2. CallOK([proc[c] EXCEPT !.pc = "holding"], owner, ledger, runs)
    BY Zenon, <1>1, <2>1, MovedCall DEF Calls, Sending
  <2> QED  BY Zenon, <1>1, <1>3, <2>2, GotoStep DEF Calls
<1> QED  BY <1>2, <1>3 DEF ValidateDispatch

\* Only a fresh claim goes on to start the provider.
LEMMA VerifyStartStep ==
  ASSUME BrokerInv, NEW c \in Coordinators, VerifyStart(c)
  PROVE  BrokerInv'
<1>1. UNCHANGED <<owner, receipts, claims, lapsed, ledger, runs>> /\ proc[c].pc = "verify"
  BY DEF VerifyStart
<1>2. CASE Return(c)  BY <1>1, <1>2, ReturnStep
<1>3. CASE Goto(c, "starting") /\ proc[c].fresh
  <2>1. CallOK([proc[c] EXCEPT !.pc = "starting"], owner, ledger, runs)
    BY Zenon, <1>1, <1>3, MovedCall DEF Calls, Sending
  <2> QED  BY Zenon, <1>1, <1>3, <2>1, GotoStep DEF Calls
<1> QED  BY <1>2, <1>3 DEF VerifyStart

\* ClaimDispatchStart takes its snapshot before it sends the claim.
LEMMA ReadForClaimStep ==
  ASSUME BrokerInv, NEW c \in Coordinators, ReadForClaim(c)
  PROVE  BrokerInv'
<1>1. UNCHANGED <<owner, receipts, claims, lapsed, ledger, runs>> /\ proc[c].pc = "ready"
  BY DEF ReadForClaim
<1>2. CASE Return(c)  BY <1>1, <1>2, ReturnStep
<1>3. CASE proc' = [proc EXCEPT ![c].pc = "claim", ![c].snapshot = owner]
  <2> DEFINE q == [proc[c] EXCEPT !.pc = "claim", !.snapshot = owner]
  <2>1. proc \in [Coordinators -> Proc] /\ owner \in Owner  BY DEF BrokerInv, TypeOK
  <2>2. q \in Proc /\ q.fresh = proc[c].fresh /\ q.pc = "claim" /\ q.snapshot = owner
    BY <2>1 DEF Proc, Calls
  <2>3. proc' = [proc EXCEPT ![c] = q]  BY <1>3, <2>1
  <2>4. proc[c].fresh # TRUE  BY <1>1 DEF BrokerInv, CallsInv, CallOK
  <2>5. owner.sequence \in Nat /\ owner # None  BY <2>1, NoneAssumption DEF Owner, Sequences
  <2>6. q.fresh = FALSE
    <3>1. proc[c].fresh \in BOOLEAN  BY <2>1 DEF Proc
    <3> QED  BY <3>1, <2>2, <2>4
  <2> HIDE DEF q
  <2>7. CallOK(q, owner, ledger, runs)  BY <2>2, <2>5, <2>6 DEF CallOK, Sending
  <2> QED  BY <1>1, <2>2, <2>3, <2>7, CallStep
<1> QED  BY <1>2, <1>3 DEF ReadForClaim

\* Recovery acts on what the ledger holds for the attempt of its snapshot.
LEMMA LookupLedgerStep ==
  ASSUME BrokerInv, NEW c \in Coordinators, LookupLedger(c)
  PROVE  BrokerInv'
<1> DEFINE state == ledger[proc[c].snapshot.attempt]
           step == RecoveryStep(proc[c].snapshot, LedgerStatus(state))
<1>1. UNCHANGED <<owner, receipts, claims, lapsed, ledger, runs>> /\ proc[c].pc = "lookup"
  BY DEF LookupLedger
<1>2. CASE Return(c)  BY <1>1, <1>2, ReturnStep
<1>3. CASE step # "idle" /\ Goto(c, step)
  <2>1. proc[c].fresh # TRUE /\ state \in LedgerStates
    BY <1>1 DEF BrokerInv, CallsInv, CallOK, TypeOK
  <2>2. /\ step \in {"idle", "confirm", "fail", "block", "interrupt", "retry"}
        /\ step = "confirm" => LedgerStatus(state) = "committed"
        /\ step = "fail" => LedgerStatus(state) = "failed"
    BY DEF RecoveryStep
  <2>3. LedgerStatus(state) \in {"committed", "failed"} => LedgerStatus(state) = state
    BY <2>1 DEF LedgerStatus, LedgerStates
  <2> HIDE DEF step, state
  <2>4. CallOK([proc[c] EXCEPT !.pc = step], owner, ledger, runs)
    <3>1. step = "confirm" => ledger[proc[c].snapshot.attempt] = "committed"
      BY <2>2, <2>3 DEF state
    <3>2. step = "fail" => ledger[proc[c].snapshot.attempt] = "failed"
      BY <2>2, <2>3 DEF state
    <3> QED  BY Zenon, <1>1, <1>3, <2>1, <2>2, <3>1, <3>2, MovedCall DEF Calls, Sending
  <2> QED  BY Zenon, <1>1, <1>3, <2>2, <2>4, GotoStep DEF Calls
<1> QED  BY <1>2, <1>3 DEF LookupLedger

\* A confirmation goes on only where the ledger has a commit.
LEMMA LookupCommitStep ==
  ASSUME BrokerInv, NEW c \in Coordinators, LookupCommit(c)
  PROVE  BrokerInv'
<1>1. UNCHANGED <<owner, receipts, claims, lapsed, ledger, runs>> /\ proc[c].pc = "confirm_lookup"
  BY DEF LookupCommit
<1>2. CASE Return(c)  BY <1>1, <1>2, ReturnStep
<1>3. CASE Goto(c, "confirm") /\ LedgerStatus(ledger[proc[c].snapshot.attempt]) = "committed"
  <2>1. proc[c].fresh # TRUE /\ ledger[proc[c].snapshot.attempt] \in LedgerStates
    BY <1>1 DEF BrokerInv, CallsInv, CallOK, TypeOK
  <2>2. ledger[proc[c].snapshot.attempt] = "committed"
    BY <1>3, <2>1 DEF LedgerStatus, LedgerStates
  <2>3. CallOK([proc[c] EXCEPT !.pc = "confirm"], owner, ledger, runs)
    BY Zenon, <1>1, <2>1, <2>2, MovedCall DEF Calls, Sending
  <2> QED  BY Zenon, <1>1, <1>3, <2>3, GotoStep DEF Calls
<1> QED  BY <1>2, <1>3 DEF LookupCommit

\* A coordinator that dies leaves the durable record as it is.
LEMMA CrashStep ==
  ASSUME BrokerInv, NEW c \in Coordinators, Crash(c)
  PROVE  BrokerInv'
BY ReturnStep DEF Crash

-----------------------------------------------------------------------------
(* The owner's answers *)

\* A receipt is added.
LEMMA ReceiptAdded ==
  ASSUME BrokerInv, NEW c \in Coordinators, proc[c].pc \in Sending, NEW next,
         NEW kind \in ReceiptKinds, NEW p \in Preparation \cup {None},
         NEW permit \in Dispatch \cup {None}, Committed(next, kind, proc[c].key, p, permit)
  PROVE  receipts' \subseteq Receipt
<1>1. proc[c].key \in Keys  BY DEF BrokerInv, CallsInv, CallOK
<1>2. [kind |-> kind, key |-> proc[c].key, preparation |-> p, permit |-> permit] \in Receipt
  BY <1>1 DEF Receipt
<1> QED  BY <1>2 DEF Committed, BrokerInv, TypeOK

\* A call that is ended by an answer which leaves no preparation: the owner's record
\* is blocked, externally committed or settled afterwards.
LEMMA EndingStep ==
  ASSUME BrokerInv, NEW c \in Coordinators, Return(c),
         UNCHANGED <<claims, lapsed, ledger, runs>>, receipts' \subseteq Receipt,
         owner' \in Owner, owner'.sequence = owner.sequence + 1, owner'.preparation = None,
         owner'.attempt = owner.attempt, owner'.dispatch = owner.dispatch,
         owner'.started = owner.started,
         owner'.phase \in {"blocked", "externally_committed", "settled"},
         owner'.phase # "settled" =>
           owner.dispatch # None /\ owner.attempt \in Attempts /\ owner'.settlement = None,
         owner'.settlement = "interrupted" => ~owner.started,
         owner'.settlement \in {"success", "failed"} => owner.attempt \in Attempts,
         owner'.phase = "externally_committed" \/ owner'.settlement = "success" =>
           ledger[owner.attempt] = "committed",
         owner'.settlement = "failed" => ledger[owner.attempt] = "failed"
  PROVE  BrokerInv'
<1>1. owner'.sequence > owner.sequence  BY DEF BrokerInv, TypeOK, Owner, Sequences
<1>2. BrokerConsistent' /\ ReservationExcludesStart'
  BY DEF BrokerInv, BrokerConsistent, ReservationExcludesStart, Reserved
<1>3. OwnerInv'
  BY NoneAssumption DEF BrokerInv, OwnerInv
<1>4. OutcomeInv'  BY DEF OutcomeInv, SettledAsRecorded
<1> QED  BY <1>1, <1>2, <1>3, <1>4, IdleCall, CommitStep DEF Return

\* The fields of the record after a command of that kind.
LEMMA AnsweredFields ==
  ASSUME owner \in Owner, NEW phase \in Phases,
         NEW s \in {None, "success", "failed", "interrupted"},
         owner' = [owner EXCEPT !.phase = phase, !.settlement = s, !.preparation = None,
                                !.sequence = owner.sequence + 1]
  PROVE  /\ owner' \in Owner /\ owner'.sequence = owner.sequence + 1
         /\ owner'.preparation = None /\ owner'.attempt = owner.attempt
         /\ owner'.dispatch = owner.dispatch /\ owner'.started = owner.started
         /\ owner'.phase = phase /\ owner'.settlement = s
<1>1. owner.sequence + 1 \in Sequences  BY DEF Owner, Sequences
<1>2. owner' \in Owner  BY <1>1 DEF Owner
<1>3. /\ owner'.sequence = owner.sequence + 1
      /\ owner'.preparation = None /\ owner'.attempt = owner.attempt
      /\ owner'.dispatch = owner.dispatch /\ owner'.started = owner.started
      /\ owner'.phase = phase /\ owner'.settlement = s
  BY DEF Owner
<1> QED  BY <1>2, <1>3

\* A dispatched effect that is blocked keeps its dispatch and its attempt.
LEMMA BlockStep ==
  ASSUME BrokerInv, NEW c \in Coordinators, Block(c)
  PROVE  BrokerInv'
<1>1. proc[c].pc \in Sending /\ Return(c) /\ UNCHANGED <<claims, lapsed, ledger, runs>>
  BY DEF Block, Answer, Sending
<1>2. CASE UNCHANGED <<owner, receipts>>  BY <1>1, <1>2, ReturnStep
<1>3. CASE /\ ~owner.started /\ owner.phase = "dispatched"
           /\ Committed([owner EXCEPT !.phase = "blocked", !.preparation = None], "block",
                        proc[c].key, None, None)
  <2>1. owner \in Owner /\ owner.settlement = None /\ owner.dispatch # None /\ owner.attempt \in Attempts
    BY <1>3 DEF BrokerInv, TypeOK, OwnerInv
  <2>2. owner' = [owner EXCEPT !.phase = "blocked", !.settlement = None, !.preparation = None,
                               !.sequence = owner.sequence + 1]
    BY <1>3, <2>1 DEF Committed, Owner
  <2>3. receipts' \subseteq Receipt  BY <1>1, <1>3, ReceiptAdded DEF ReceiptKinds
  <2>4. /\ owner' \in Owner /\ owner'.sequence = owner.sequence + 1
        /\ owner'.preparation = None /\ owner'.attempt = owner.attempt
        /\ owner'.dispatch = owner.dispatch /\ owner'.started = owner.started
        /\ owner'.phase = "blocked" /\ owner'.settlement = None
    BY <2>1, <2>2, AnsweredFields DEF Phases
  <2> QED  BY <1>1, <2>1, <2>3, <2>4, NoneAssumption, EndingStep
<1> QED  BY <1>2, <1>3 DEF Block, Answer

\* An effect is interrupted only where no start was claimed.
LEMMA SettleInterruptedStep ==
  ASSUME BrokerInv, NEW c \in Coordinators, SettleInterrupted(c)
  PROVE  BrokerInv'
<1>1. proc[c].pc \in Sending /\ Return(c) /\ UNCHANGED <<claims, lapsed, ledger, runs>>
  BY DEF SettleInterrupted, Answer, Sending
<1>2. CASE UNCHANGED <<owner, receipts>>  BY <1>1, <1>2, ReturnStep
<1>3. CASE /\ ~owner.started
           /\ Committed(SettledBy("interrupted"), "recovery_settlement", proc[c].key, None, None)
  <2>1. owner \in Owner  BY DEF BrokerInv, TypeOK
  <2>2. owner' = [owner EXCEPT !.phase = "settled", !.settlement = "interrupted",
                               !.preparation = None, !.sequence = owner.sequence + 1]
    BY <1>3, <2>1 DEF Committed, SettledBy, Owner
  <2>3. receipts' \subseteq Receipt  BY <1>1, <1>3, ReceiptAdded DEF ReceiptKinds
  <2>4. /\ owner' \in Owner /\ owner'.sequence = owner.sequence + 1
        /\ owner'.preparation = None /\ owner'.attempt = owner.attempt
        /\ owner'.dispatch = owner.dispatch /\ owner'.started = owner.started
        /\ owner'.phase = "settled" /\ owner'.settlement = "interrupted"
    BY <2>1, <2>2, AnsweredFields DEF Phases
  <2> QED  BY <1>1, <1>3, <2>3, <2>4, EndingStep
<1> QED  BY <1>2, <1>3 DEF SettleInterrupted, Answer

\* An effect settled as failed failed in the ledger: the record has not moved since the lookup.
LEMMA SettleFailedStep ==
  ASSUME BrokerInv, NEW c \in Coordinators, SettleFailed(c)
  PROVE  BrokerInv'
<1>1. /\ proc[c].pc = "fail" /\ proc[c].pc \in Sending /\ Return(c)
      /\ UNCHANGED <<claims, lapsed, ledger, runs>>
  BY DEF SettleFailed, Answer, Sending
<1>2. CASE UNCHANGED <<owner, receipts>>  BY <1>1, <1>2, ReturnStep
<1>3. CASE Unmoved(c) /\ Committed(SettledBy("failed"), "recovery_settlement", proc[c].key, None, None)
  <2>1. owner \in Owner  BY DEF BrokerInv, TypeOK
  <2>2. owner' = [owner EXCEPT !.phase = "settled", !.settlement = "failed",
                               !.preparation = None, !.sequence = owner.sequence + 1]
    BY <1>3, <2>1 DEF Committed, SettledBy, Owner
  <2>3. receipts' \subseteq Receipt  BY <1>1, <1>3, ReceiptAdded DEF ReceiptKinds
  <2>4. /\ owner' \in Owner /\ owner'.sequence = owner.sequence + 1
        /\ owner'.preparation = None /\ owner'.attempt = owner.attempt
        /\ owner'.dispatch = owner.dispatch /\ owner'.started = owner.started
        /\ owner'.phase = "settled" /\ owner'.settlement = "failed"
    BY <2>1, <2>2, AnsweredFields DEF Phases
  <2>5. owner.attempt \in Attempts /\ ledger[owner.attempt] = "failed"
    BY <1>1, <1>3 DEF BrokerInv, CallsInv, CallOK, Unmoved
  <2> QED  BY <1>1, <2>3, <2>4, <2>5, EndingStep
<1> QED  BY <1>2, <1>3 DEF SettleFailed, Answer

\* An effect confirmed as committed is committed in the ledger.
LEMMA MarkExternallyCommittedStep ==
  ASSUME BrokerInv, NEW c \in Coordinators, MarkExternallyCommitted(c)
  PROVE  BrokerInv'
<1>1. /\ proc[c].pc = "confirm" /\ proc[c].pc \in Sending /\ Return(c)
      /\ UNCHANGED <<claims, lapsed, ledger, runs>>
  BY DEF MarkExternallyCommitted, Answer, Sending
<1>2. CASE UNCHANGED <<owner, receipts>>  BY <1>1, <1>2, ReturnStep
<1>3. CASE /\ Unmoved(c) /\ owner.phase \in {"dispatched", "blocked"}
           /\ Committed([owner EXCEPT !.phase = "externally_committed", !.preparation = None],
                        "confirmation", proc[c].key, None, None)
  <2>1. owner \in Owner /\ owner.settlement = None /\ owner.dispatch # None /\ owner.attempt \in Attempts
    BY <1>3 DEF BrokerInv, TypeOK, OwnerInv
  <2>2. owner' = [owner EXCEPT !.phase = "externally_committed", !.settlement = None,
                               !.preparation = None, !.sequence = owner.sequence + 1]
    BY <1>3, <2>1 DEF Committed, Owner
  <2>3. receipts' \subseteq Receipt  BY <1>1, <1>3, ReceiptAdded DEF ReceiptKinds
  <2>4. /\ owner' \in Owner /\ owner'.sequence = owner.sequence + 1
        /\ owner'.preparation = None /\ owner'.attempt = owner.attempt
        /\ owner'.dispatch = owner.dispatch /\ owner'.started = owner.started
        /\ owner'.phase = "externally_committed" /\ owner'.settlement = None
    BY <2>1, <2>2, AnsweredFields DEF Phases
  <2>5. ledger[owner.attempt] = "committed"
    BY <1>1, <1>3 DEF BrokerInv, CallsInv, CallOK, Unmoved
  <2> QED  BY <1>1, <2>1, <2>3, <2>4, <2>5, NoneAssumption, EndingStep
<1> QED  BY <1>2, <1>3 DEF MarkExternallyCommitted, Answer

\* A success follows the confirmation, of the same attempt.
LEMMA SettleCommittedStep ==
  ASSUME BrokerInv, NEW c \in Coordinators, SettleCommitted(c)
  PROVE  BrokerInv'
<1>1. proc[c].pc \in Sending /\ Return(c) /\ UNCHANGED <<claims, lapsed, ledger, runs>>
  BY DEF SettleCommitted, Answer, Sending
<1>2. CASE UNCHANGED <<owner, receipts>>  BY <1>1, <1>2, ReturnStep
<1>3. CASE /\ owner.phase = "externally_committed"
           /\ Committed(SettledBy("success"), "settlement", proc[c].key, None, None)
  <2>1. owner \in Owner  BY DEF BrokerInv, TypeOK
  <2>2. owner' = [owner EXCEPT !.phase = "settled", !.settlement = "success",
                               !.preparation = None, !.sequence = owner.sequence + 1]
    BY <1>3, <2>1 DEF Committed, SettledBy, Owner
  <2>3. receipts' \subseteq Receipt  BY <1>1, <1>3, ReceiptAdded DEF ReceiptKinds
  <2>4. /\ owner' \in Owner /\ owner'.sequence = owner.sequence + 1
        /\ owner'.preparation = None /\ owner'.attempt = owner.attempt
        /\ owner'.dispatch = owner.dispatch /\ owner'.started = owner.started
        /\ owner'.phase = "settled" /\ owner'.settlement = "success"
    BY <2>1, <2>2, AnsweredFields DEF Phases
  <2>5. owner.attempt \in Attempts /\ ledger[owner.attempt] = "committed"
    BY <1>3 DEF BrokerInv, OwnerInv, OutcomeInv
  <2> QED  BY <1>1, <2>3, <2>4, <2>5, EndingStep
<1> QED  BY <1>2, <1>3 DEF SettleCommitted, Answer

-----------------------------------------------------------------------------
(* Dispatch, retry and claim *)

\* A dispatch is marked only where no start was claimed.
LEMMA MarkDispatchedStep ==
  ASSUME BrokerInv, NEW c \in Coordinators, NEW to \in {"validate", "holding"},
         proc[c].pc \in Sending, MarkDispatched(c, to), UNCHANGED <<claims, lapsed, ledger, runs>>
  PROVE  BrokerInv'
<1>1. TypeOK  BY DEF BrokerInv
<1>2. CASE UNCHANGED <<owner, receipts>> /\ Return(c)  BY <1>2, ReturnStep
<1>3. CASE /\ Found("dispatch", proc[c].key) /\ UNCHANGED <<owner, receipts>>
           /\ Hold(c, to, ReceiptOf("dispatch", proc[c].key).permit, FALSE)
  <2>1. ReceiptOf("dispatch", proc[c].key).permit \in Dispatch \cup {None}
    BY <1>1, <1>3, ReceiptTyped DEF Receipt
  <2> QED  BY Zenon, <1>3, <2>1, HeldCall, CallStep DEF Hold
<1>4. CASE /\ DispatchAllowed(c) /\ owner.attempt < MaxAttempts
           /\ Committed([owner EXCEPT !.phase = "dispatched", !.attempt = @ + 1,
                                      !.dispatch = NextDispatch, !.started = FALSE,
                                      !.preparation = None],
                        "dispatch", proc[c].key, owner.preparation, NextDispatch)
           /\ Hold(c, to, NextDispatch, FALSE)
  <2>1. owner \in Owner /\ owner.preparation # None /\ owner.preparation \in Preparation
    BY <1>1, <1>4 DEF DispatchAllowed, TypeOK, Owner
  <2>2. ~owner.started
    BY <1>4 DEF DispatchAllowed, BrokerInv, OwnerInv
  <2>3. claims = {} /\ owner.settlement = None
    BY <2>1, <2>2 DEF BrokerInv, OwnerInv
  <2>4. owner.sequence + 1 \in Sequences /\ owner.attempt + 1 \in Attempts
    BY <1>4, <2>1, BoundsAssumption DEF Owner, Sequences, Attempts
  <2>5. NextDispatch \in Dispatch
    BY <2>1, <2>4 DEF NextDispatch, Dispatch, Owner, Preparation
  <2>6. owner' = [owner EXCEPT !.phase = "dispatched", !.attempt = owner.attempt + 1,
                               !.dispatch = NextDispatch, !.started = FALSE,
                               !.preparation = None, !.sequence = owner.sequence + 1]
    BY <1>4, <2>1 DEF Committed, Owner
  <2>7. /\ owner'.phase = "dispatched" /\ owner'.attempt = owner.attempt + 1
        /\ owner'.dispatch = NextDispatch /\ owner'.started = FALSE
        /\ owner'.preparation = None /\ owner'.sequence = owner.sequence + 1
        /\ owner'.settlement = None
    BY <2>1, <2>3, <2>6 DEF Owner
  <2>8. owner' \in Owner
    <3>1. \A x \in Attempts : x \in 0 .. MaxAttempts  BY BoundsAssumption DEF Attempts
    <3> QED  BY <2>1, <2>4, <2>5, <2>6, <3>1 DEF Owner, Phases
  <2>9. receipts' \subseteq Receipt  BY <1>4, <2>1, <2>5, ReceiptAdded DEF ReceiptKinds
  <2>10. NextDispatch.attempt = owner.attempt + 1 /\ NextDispatch # None
    BY <2>5, NoneAssumption DEF NextDispatch
  <2>11. BrokerConsistent' /\ ReservationExcludesStart'
    BY <2>3, <2>7, <2>10 DEF BrokerConsistent, ReservationExcludesStart, Reserved
  <2>12. OwnerInv' /\ OutcomeInv'
    BY <2>3, <2>4, <2>7, <2>10, NoneAssumption DEF OwnerInv, OutcomeInv, SettledAsRecorded
  <2>13. owner'.sequence > owner.sequence  BY <2>1, <2>7 DEF Owner, Sequences
  <2> DEFINE q == [Idle EXCEPT !.pc = to, !.permit = NextDispatch, !.fresh = FALSE]
  <2>14. q \in Proc /\ q.fresh = FALSE /\ CallOK(q, owner', ledger, runs)  BY Zenon, <2>5, HeldCall
  <2>15. proc' = [proc EXCEPT ![c] = q]  BY <1>4 DEF Hold
  <2> HIDE DEF q
  <2> QED  BY <2>2, <2>8, <2>9, <2>11, <2>12, <2>13, <2>14, <2>15, CommitStep
<1> QED  BY <1>2, <1>3, <1>4 DEF MarkDispatched

\* A retry is reserved only where no start was claimed.
LEMMA PrepareRetryStep ==
  ASSUME BrokerInv, NEW c \in Coordinators, PrepareRetry(c)
  PROVE  BrokerInv'
<1>1. TypeOK /\ owner \in Owner /\ proc \in [Coordinators -> Proc]  BY DEF BrokerInv, TypeOK
<1>2. /\ proc[c].pc = "retry" /\ proc[c].pc \in Sending /\ UNCHANGED <<claims, lapsed, ledger, runs>>
  BY DEF PrepareRetry, Sending
<1>3. CASE UNCHANGED <<owner, receipts>> /\ Return(c)  BY <1>2, <1>3, ReturnStep
<1>4. /\ CallOK(proc[c], owner, ledger, runs) /\ proc[c].fresh # TRUE /\ proc[c].key \in Keys
  BY <1>2 DEF BrokerInv, CallsInv, CallOK
<1>5. proc[c].fresh = FALSE
  <2>1. proc[c].fresh \in BOOLEAN  BY <1>1 DEF Proc
  <2> QED  BY <2>1, <1>4
\* where the call goes on with its reservation
<1>6. ASSUME NEW p \in Preparation \cup {None}
      PROVE  LET q == [proc[c] EXCEPT !.pc = "redispatch", !.preparation = p]
             IN  /\ q \in Proc /\ q.fresh = FALSE /\ CallOK(q, owner, ledger, runs)
                 /\ [proc EXCEPT ![c].pc = "redispatch", ![c].preparation = p] = [proc EXCEPT ![c] = q]
  <2> DEFINE q == [proc[c] EXCEPT !.pc = "redispatch", !.preparation = p]
  <2>1. q \in Proc  BY <1>1 DEF Proc, Calls
  <2>2. q.pc = "redispatch" /\ q.key = proc[c].key /\ q.snapshot = proc[c].snapshot /\ q.fresh = FALSE
    BY <1>1, <1>5 DEF Proc
  <2>3. [proc EXCEPT ![c].pc = "redispatch", ![c].preparation = p] = [proc EXCEPT ![c] = q]
    BY <1>1
  <2> HIDE DEF q
  <2>4. CallOK(q, owner, ledger, runs)  BY <1>4, <2>2 DEF CallOK, Sending
  <2> QED  BY <2>1, <2>2, <2>3, <2>4 DEF q
<1>7. CASE /\ Found("retry", proc[c].key) /\ UNCHANGED <<owner, receipts>>
           /\ proc' = [proc EXCEPT ![c].pc = "redispatch",
                                   ![c].preparation = ReceiptOf("retry", proc[c].key).preparation]
  <2>1. ReceiptOf("retry", proc[c].key).preparation \in Preparation \cup {None}
    BY <1>1, <1>7, ReceiptTyped DEF Receipt
  <2> QED  BY Zenon, <1>2, <1>6, <1>7, <2>1, CallStep
<1>8. CASE /\ RetryAllowed(c) /\ owner.attempt < MaxAttempts
           /\ Committed([owner EXCEPT !.preparation = NextPreparation], "retry", proc[c].key,
                        NextPreparation, None)
           /\ \/ Return(c)
              \/ proc' = [proc EXCEPT ![c].pc = "redispatch", ![c].preparation = NextPreparation]
  <2>1. owner.sequence + 1 \in Sequences /\ owner.attempt + 1 \in Attempts
    BY <1>1, <1>8, BoundsAssumption DEF Owner, Sequences, Attempts
  <2>2. NextPreparation \in Preparation
    BY <1>1, <2>1 DEF NextPreparation, Preparation, Owner
  <2>3. /\ NextPreparation # None /\ NextPreparation.attempt = owner.attempt + 1
        /\ NextPreparation.sequence = owner.sequence + 1 /\ NextPreparation.source = owner.sequence
        /\ NextPreparation.generation = owner.generation
        /\ ~NextPreparation.retry => owner.phase = "prepared"
    BY <2>2, NoneAssumption DEF NextPreparation
  <2>4. owner' = [owner EXCEPT !.preparation = NextPreparation, !.sequence = owner.sequence + 1]
    BY <1>1, <1>8 DEF Committed, Owner
  <2>5. /\ owner'.preparation = NextPreparation /\ owner'.sequence = owner.sequence + 1
        /\ owner'.phase = owner.phase /\ owner'.attempt = owner.attempt
        /\ owner'.dispatch = owner.dispatch /\ owner'.started = owner.started
        /\ owner'.settlement = owner.settlement /\ owner'.generation = owner.generation
    BY <1>1, <2>4 DEF Owner
  <2>6. owner' \in Owner  BY <1>1, <2>1, <2>2, <2>4 DEF Owner
  <2>7. ~owner.started /\ owner.phase \in {"prepared", "dispatched", "blocked"}
    BY <1>8 DEF RetryAllowed
  <2>8. receipts' \subseteq Receipt  BY <1>2, <1>8, <2>2, ReceiptAdded DEF ReceiptKinds
  <2>9. owner'.sequence > owner.sequence /\ owner.sequence \in Nat
    BY <1>1, <2>5 DEF Owner, Sequences
  <2>10. BrokerConsistent'
    BY <1>2, <2>3, <2>5, <2>9 DEF BrokerInv, BrokerConsistent
  <2>11. ReservationExcludesStart' /\ OwnerInv' /\ OutcomeInv'
    BY <1>2, <2>5, <2>7 DEF BrokerInv, ReservationExcludesStart, OwnerInv, OutcomeInv, SettledAsRecorded
  <2>12. CASE Return(c)
    BY <1>2, <2>6, <2>7, <2>8, <2>9, <2>10, <2>11, <2>12, IdleCall, CommitStep DEF Return
  <2>13. CASE proc' = [proc EXCEPT ![c].pc = "redispatch", ![c].preparation = NextPreparation]
    <3> DEFINE q == [proc[c] EXCEPT !.pc = "redispatch", !.preparation = NextPreparation]
    <3>1. q \in Proc /\ q.fresh = FALSE /\ CallOK(q, owner, ledger, runs) /\ proc' = [proc EXCEPT ![c] = q]
      BY Zenon, <1>6, <2>2, <2>13
    <3> HIDE DEF q
    <3>2. Onward(owner, owner') /\ Kept(ledger, ledger)  BY <2>7, <2>9 DEF Onward, Kept
    <3>3. CallOK(q, owner', ledger, runs)  BY <1>1, <2>6, <3>1, <3>2, CallKept
    <3> QED  BY <1>2, <2>6, <2>7, <2>8, <2>9, <2>10, <2>11, <3>1, <3>3, CommitStep
  <2> QED  BY <1>8, <2>12, <2>13
<1> QED  BY <1>3, <1>7, <1>8 DEF PrepareRetry

\* The claim command: the only answer that is fresh is the one that set `started'.
LEMMA ClaimStartStep ==
  ASSUME BrokerInv, NEW c \in Coordinators, ClaimStart(c)
  PROVE  BrokerInv'
<1>1. owner \in Owner /\ proc \in [Coordinators -> Proc]  BY DEF BrokerInv, TypeOK
<1>2. proc[c].permit \in Dispatch \cup {None}  BY <1>1 DEF Proc
<1>3. UNCHANGED <<receipts, lapsed, ledger, runs>>  BY DEF ClaimStart
<1>4. CASE UNCHANGED <<owner, claims>> /\ Return(c)  BY <1>3, <1>4, ReturnStep
<1>5. CASE UNCHANGED <<owner, claims>> /\ Hold(c, "verify", proc[c].permit, FALSE)
  BY Zenon, <1>2, <1>3, <1>5, HeldCall, CallStep DEF Hold
<1>6. CASE /\ ClaimAllowed(c) /\ owner' = Claimed(owner)
           /\ claims' = claims \cup {proc[c].permit.sequence}
           /\ Hold(c, "verify", proc[c].permit, TRUE)
  <2>1. /\ ~owner.started /\ ~Reserved /\ owner.phase = "dispatched"
        /\ owner.dispatch = proc[c].permit
    BY <1>6 DEF ClaimAllowed, Current
  <2>2. owner.dispatch # None /\ claims = {} /\ owner.settlement = None /\ runs = 0
    BY <2>1 DEF BrokerInv, OwnerInv, StartInv
  <2>3. /\ owner'.sequence = owner.sequence + 1 /\ owner'.started = TRUE
        /\ owner'.phase = owner.phase /\ owner'.attempt = owner.attempt
        /\ owner'.dispatch = owner.dispatch /\ owner'.preparation = owner.preparation
        /\ owner'.settlement = owner.settlement /\ owner'.generation = owner.generation
    BY <1>1, <1>6 DEF Claimed, Owner
  <2>4. owner.sequence \in Nat /\ owner.sequence + 1 \in Sequences  BY <1>1 DEF Owner, Sequences
  <2>5. owner' \in Owner  BY <1>1, <1>6, <2>4 DEF Claimed, Owner
  <2>6. claims' = {owner'.dispatch.sequence} /\ owner.dispatch.sequence \in Sequences
    BY <1>1, <1>6, <2>1, <2>2, <2>3 DEF Owner, Dispatch
  <2>7. BrokerConsistent'
    <3>1. BrokerConsistent  BY DEF BrokerInv
    <3>2. owner.preparation # None => owner.preparation.sequence \in Nat
      BY <1>1 DEF Owner, Preparation, Sequences
    <3> QED  BY <2>2, <2>3, <2>4, <2>6, <3>1, <3>2 DEF BrokerConsistent
  <2>8. ReservationExcludesStart'
    BY <2>1, <2>3 DEF ReservationExcludesStart, Reserved
  <2>9. OwnerInv' /\ OutcomeInv'
    BY <1>3, <2>1, <2>2, <2>3, <2>6, NoneAssumption DEF BrokerInv, OwnerInv, OutcomeInv, SettledAsRecorded
  <2> DEFINE q == [Idle EXCEPT !.pc = "verify", !.permit = proc[c].permit, !.fresh = TRUE]
  <2>10. q \in Proc  BY <1>2 DEF Idle, Proc, Calls
  <2>11. q.pc = "verify" /\ q.snapshot = None /\ q.fresh = TRUE  BY DEF Idle
  <2>12. proc' = [proc EXCEPT ![c] = q]  BY <1>6 DEF Hold
  <2> HIDE DEF q
  <2>13. CallOK(q, owner', ledger', runs')  BY <1>3, <2>2, <2>3, <2>11 DEF CallOK, Sending
  <2>14. \A d \in Coordinators : proc[d].fresh # TRUE
    BY Zenon, <2>1 DEF BrokerInv, CallsInv, CallOK
  <2>15. Onward(owner, owner') /\ Kept(ledger, ledger')  BY <1>3, <2>3, <2>4 DEF Onward, Kept
  <2>16. proc' \in [Coordinators -> Proc] /\ CallsInv' /\ StartInv'
    BY <1>3, <2>5, <2>10, <2>12, <2>13, <2>14, <2>15, CallMoves
  <2>17. TypeOK'
    BY <1>3, <2>3, <2>5, <2>6, <2>16 DEF BrokerInv, TypeOK
  <2> QED  BY <2>7, <2>8, <2>9, <2>16, <2>17 DEF BrokerInv
<1> QED  BY <1>4, <1>5, <1>6 DEF ClaimStart

-----------------------------------------------------------------------------
(* The ledger *)

\* A step that changes the ledger and keeps the outcomes it holds.
LEMMA LedgerStep ==
  ASSUME BrokerInv, UNCHANGED <<owner, receipts, claims, lapsed>>,
         ledger' \in [Attempts -> LedgerStates], Kept(ledger, ledger'), runs' \in Nat,
         proc' \in [Coordinators -> Proc], CallsInv', StartInv'
  PROVE  BrokerInv'
<1>1. TypeOK'  BY DEF BrokerInv, TypeOK
<1>2. BrokerConsistent' /\ ReservationExcludesStart' /\ OwnerInv'
  BY DEF BrokerInv, BrokerConsistent, ReservationExcludesStart, Reserved, OwnerInv
<1>3. OutcomeInv'
  <2>1. owner.phase = "externally_committed" => owner.attempt \in Attempts
    BY DEF BrokerInv, OwnerInv
  <2>2. owner.settlement \in {"success", "failed"} => owner.attempt \in Attempts
    BY DEF BrokerInv, OwnerInv
  <2> QED  BY <2>1, <2>2 DEF BrokerInv, OutcomeInv, SettledAsRecorded, Kept
<1> QED  BY <1>1, <1>2, <1>3 DEF BrokerInv

\* Changing a record that is no outcome keeps the outcomes.
LEMMA RecordMoves ==
  ASSUME ledger \in [Attempts -> LedgerStates], NEW a, NEW st \in LedgerStates,
         ledger' = [ledger EXCEPT ![a] = st],
         a \in Attempts => ledger[a] \notin {"committed", "failed"}
  PROVE  ledger' \in [Attempts -> LedgerStates] /\ Kept(ledger, ledger')
BY Zenon DEF Kept

\* The command written into the ledger replaces no outcome.
LEMMA PrepareCommandStep ==
  ASSUME BrokerInv, NEW c \in Coordinators, PrepareCommand(c)
  PROVE  BrokerInv'
<1> DEFINE a == proc[c].permit.attempt
           q == [proc[c] EXCEPT !.pc = "ready"]
<1>1. /\ owner \in Owner /\ proc \in [Coordinators -> Proc] /\ runs \in Nat
      /\ ledger \in [Attempts -> LedgerStates]
  BY DEF BrokerInv, TypeOK
<1>2. UNCHANGED <<owner, receipts, claims, lapsed, runs>> /\ proc[c].pc = "holding"
  BY DEF PrepareCommand
<1>3. ledger' = [ledger EXCEPT ![a] = IF ledger[a] = "absent" THEN "prepared" ELSE ledger[a]]
  BY DEF PrepareCommand
<1>4. ledger' \in [Attempts -> LedgerStates] /\ Kept(ledger, ledger')
  BY <1>1, <1>3 DEF Kept, LedgerStates
<1>5. CallOK(proc[c], owner, ledger, runs)  BY DEF BrokerInv, CallsInv
<1>6. q \in Proc /\ q.pc = "ready" /\ q.snapshot = proc[c].snapshot /\ q.fresh = proc[c].fresh
  BY <1>1 DEF Proc, Calls
<1>7. proc[c].fresh # TRUE  BY <1>2, <1>5 DEF CallOK
<1>8. proc' = [proc EXCEPT ![c] = q]  BY DEF PrepareCommand, Goto
<1>9. owner' \in Owner /\ Onward(owner, owner') /\ runs' = runs  BY <1>1, <1>2 DEF Onward
<1> HIDE DEF q, a
<1>10. CallOK(q, owner', ledger', runs')
  BY <1>2, <1>5, <1>6, <1>7 DEF CallOK, Sending
<1>11. proc' \in [Coordinators -> Proc] /\ CallsInv' /\ StartInv'
  BY Zenon, <1>4, <1>6, <1>7, <1>8, <1>9, <1>10, CallMoves
<1> QED  BY <1>1, <1>2, <1>4, <1>11, LedgerStep

\* The call that starts was told its claim is fresh, so nobody started before.
LEMMA StartProviderStep ==
  ASSUME BrokerInv, NEW c \in Coordinators, StartProvider(c)
  PROVE  BrokerInv'
<1> DEFINE q == [proc[c] EXCEPT !.pc = "running"]
<1>1. /\ owner \in Owner /\ proc \in [Coordinators -> Proc] /\ ledger \in [Attempts -> LedgerStates]
  BY DEF BrokerInv, TypeOK
<1>2. UNCHANGED <<owner, receipts, claims, lapsed>> /\ proc[c].pc = "starting" /\ runs' = runs + 1
  BY DEF StartProvider
<1>3. ledger' \in [Attempts -> LedgerStates] /\ Kept(ledger, ledger')
  BY <1>1, RecordMoves DEF StartProvider, LedgerStates
<1>4. CallOK(proc[c], owner, ledger, runs)  BY DEF BrokerInv, CallsInv
<1>5. proc[c].fresh = TRUE /\ runs = 0 /\ owner.started = TRUE  BY <1>2, <1>4 DEF CallOK
<1>6. runs' = 1  BY <1>2, <1>5
<1>7. q \in Proc /\ q.pc = "running" /\ q.snapshot = proc[c].snapshot /\ q.fresh = proc[c].fresh
  BY <1>1 DEF Proc, Calls
<1>8. proc' = [proc EXCEPT ![c] = q]  BY DEF StartProvider, Goto
<1> HIDE DEF q
<1>9. proc' \in [Coordinators -> Proc] /\ proc'[c] = q /\ \A d \in Coordinators \ {c} : proc'[d] = proc[d]
  BY <1>1, <1>7, <1>8
<1>10. CallOK(q, owner', ledger', runs')
  BY <1>2, <1>4, <1>5, <1>7 DEF CallOK, Sending
<1>11. \A d \in Coordinators \ {c} : proc[d].fresh # TRUE  BY <1>5 DEF BrokerInv, StartInv
<1>12. CallsInv'
  <2> SUFFICES ASSUME NEW d \in Coordinators PROVE CallOK(proc'[d], owner', ledger', runs')
    BY DEF CallsInv
  <2>1. CASE d = c  BY <2>1, <1>9, <1>10
  <2>2. CASE d # c
    <3>1. CallOK(proc[d], owner, ledger, runs) /\ proc[d] \in Proc  BY <1>1 DEF BrokerInv, CallsInv
    <3>2. proc[d].fresh # TRUE  BY Zenon, <2>2, <1>11
    <3>3. Onward(owner, owner)  BY DEF Onward
    <3>4. CallOK(proc[d], owner, ledger', runs')  BY <3>1, <3>2, <3>3, <1>1, <1>3, CallKept
    <3> QED  BY <3>4, <2>2, <1>2, <1>9
  <2> QED  BY <2>1, <2>2
<1>13. StartInv'
  <2>1. \A d, e \in Coordinators : proc'[d].fresh = TRUE /\ proc'[e].fresh = TRUE => d = e
    BY <1>7, <1>9, <1>11
  <2> QED  BY <2>1, <1>2, <1>5, <1>6 DEF StartInv
<1> QED  BY <1>2, <1>3, <1>6, <1>9, <1>12, <1>13, LedgerStep

\* The acceptance replaces the claim in the ledger, no outcome.
LEMMA RecordAcceptedStep ==
  ASSUME BrokerInv, NEW c \in Coordinators, RecordAccepted(c)
  PROVE  BrokerInv'
<1>1. /\ owner \in Owner /\ runs \in Nat /\ ledger \in [Attempts -> LedgerStates]
      /\ UNCHANGED <<owner, receipts, claims, lapsed, runs, proc>>
  BY DEF BrokerInv, TypeOK, RecordAccepted
<1>2. ledger' \in [Attempts -> LedgerStates] /\ Kept(ledger, ledger')
  BY Zenon, <1>1, RecordMoves DEF RecordAccepted, LedgerStates
<1>3. owner' \in Owner /\ Onward(owner, owner')  BY <1>1 DEF Onward
<1>4. proc' \in [Coordinators -> Proc] /\ CallsInv' /\ StartInv'  BY <1>1, <1>2, <1>3, CallsRest
<1> QED  BY <1>1, <1>2, <1>4, LedgerStep

\* The outcome is recorded once.
LEMMA RecordTerminalStep ==
  ASSUME BrokerInv, NEW c \in Coordinators, NEW st \in {"committed", "failed", "unknown"},
         RecordTerminal(c, st)
  PROVE  BrokerInv'
<1>1. /\ owner \in Owner /\ runs \in Nat /\ ledger \in [Attempts -> LedgerStates]
      /\ UNCHANGED <<owner, receipts, claims, lapsed, runs>> /\ Return(c)
  BY DEF BrokerInv, TypeOK, RecordTerminal
<1>2. ledger' \in [Attempts -> LedgerStates] /\ Kept(ledger, ledger')
  BY Zenon, <1>1, RecordMoves DEF RecordTerminal, LedgerStates
<1>3. owner' \in Owner /\ Onward(owner, owner')  BY <1>1 DEF Onward
<1>4. proc' \in [Coordinators -> Proc] /\ CallsInv' /\ StartInv'
  BY <1>1, <1>2, <1>3, IdleCall, CallMoves DEF Return
<1> QED  BY <1>1, <1>2, <1>4, LedgerStep

-----------------------------------------------------------------------------
(* Around the broker *)

\* The owner's record moves on, with its preparation or without it, and no call moves.
LEMMA OwnerStep ==
  ASSUME BrokerInv, UNCHANGED <<receipts, claims, ledger, runs, proc>>, lapsed' \subseteq Sequences,
         owner' \in Owner, owner'.sequence >= owner.sequence, owner'.phase = owner.phase,
         owner'.attempt = owner.attempt, owner'.dispatch = owner.dispatch,
         owner'.started = owner.started, owner'.settlement = owner.settlement,
         \/ owner'.preparation = None
         \/ owner'.preparation = owner.preparation /\ owner'.generation = owner.generation
  PROVE  BrokerInv'
<1>1. owner \in Owner /\ owner.sequence \in Nat /\ owner'.sequence \in Nat
  BY DEF BrokerInv, TypeOK, Owner, Sequences
<1>2. Onward(owner, owner') /\ Kept(ledger, ledger')  BY <1>1 DEF Onward, Kept
<1>3. proc' \in [Coordinators -> Proc] /\ CallsInv' /\ StartInv'  BY <1>2, CallsRest
<1>4. TypeOK'  BY <1>3 DEF BrokerInv, TypeOK
<1>5. BrokerConsistent'
  <2>1. owner.preparation # None => owner.preparation.sequence \in Nat
    BY <1>1 DEF Owner, Preparation, Sequences
  <2> QED  BY <1>1, <2>1 DEF BrokerInv, BrokerConsistent
<1>6. ReservationExcludesStart' /\ OwnerInv' /\ OutcomeInv'
  BY DEF BrokerInv, ReservationExcludesStart, Reserved, OwnerInv, OutcomeInv, SettledAsRecorded
<1> QED  BY <1>3, <1>4, <1>5, <1>6 DEF BrokerInv

\* An abort only moves the record on.
LEMMA RequestAbortStep ==
  ASSUME BrokerInv, RequestAbort
  PROVE  BrokerInv'
<1>1. owner \in Owner /\ lapsed' \subseteq Sequences  BY DEF BrokerInv, TypeOK, RequestAbort
<1>2. owner.sequence \in Nat /\ owner.sequence + 1 \in Sequences  BY <1>1 DEF Owner, Sequences
<1>3. owner' \in Owner  BY <1>1, <1>2 DEF RequestAbort, Owner
<1>4. /\ owner'.sequence = owner.sequence + 1 /\ owner'.phase = owner.phase
      /\ owner'.attempt = owner.attempt /\ owner'.dispatch = owner.dispatch
      /\ owner'.started = owner.started /\ owner'.settlement = owner.settlement
      /\ owner'.preparation = owner.preparation /\ owner'.generation = owner.generation
  BY <1>1 DEF RequestAbort, Owner
<1>5. owner'.sequence >= owner.sequence  BY <1>2, <1>4
<1> QED  BY <1>1, <1>3, <1>4, <1>5, OwnerStep DEF RequestAbort

\* Any other command only moves the record on.
LEMMA OtherCommandStep ==
  ASSUME BrokerInv, OtherCommand
  PROVE  BrokerInv'
<1>1. owner \in Owner /\ lapsed' \subseteq Sequences  BY DEF BrokerInv, TypeOK, OtherCommand
<1>2. owner.sequence \in Nat /\ owner.sequence + 1 \in Sequences  BY <1>1 DEF Owner, Sequences
<1>3. owner' \in Owner  BY <1>1, <1>2 DEF OtherCommand, Owner
<1>4. /\ owner'.sequence = owner.sequence + 1 /\ owner'.phase = owner.phase
      /\ owner'.attempt = owner.attempt /\ owner'.dispatch = owner.dispatch
      /\ owner'.started = owner.started /\ owner'.settlement = owner.settlement
      /\ owner'.preparation = owner.preparation /\ owner'.generation = owner.generation
  BY <1>1 DEF OtherCommand, Owner
<1>5. owner'.sequence >= owner.sequence  BY <1>2, <1>4
<1> QED  BY <1>1, <1>3, <1>4, <1>5, OwnerStep DEF OtherCommand

\* A rotation drops the preparation: it was of the generation before.
LEMMA RotateStep ==
  ASSUME BrokerInv, Rotate
  PROVE  BrokerInv'
<1>1. owner \in Owner /\ lapsed' \subseteq Sequences  BY DEF BrokerInv, TypeOK, Rotate
<1>2. /\ owner.sequence \in Nat /\ owner.sequence + 1 \in Sequences
      /\ owner.generation \in Nat /\ owner.generation + 1 \in 1 .. MaxGeneration
  BY <1>1, BoundsAssumption DEF Owner, Sequences, Rotate
<1> DEFINE o == [owner EXCEPT !.generation = owner.generation + 1, !.lease = TRUE,
                              !.sequence = owner.sequence + 1]
<1>3. o.preparation = owner.preparation /\ o.generation = owner.generation + 1  BY <1>1 DEF Owner
<1>4. o.preparation # None => o.preparation.generation # o.generation
  BY <1>2, <1>3 DEF BrokerInv, BrokerConsistent
<1>5. owner' = [o EXCEPT !.preparation = None]
  <2>1. owner' = Reconciled(o)  BY DEF Rotate
  <2>2. owner' = [o EXCEPT !.preparation =
                    IF o.preparation # None /\ o.preparation.generation # o.generation
                    THEN None ELSE o.preparation]
    BY <2>1 DEF Reconciled
  <2> HIDE DEF o
  <2> QED  BY <2>2, <1>4
<1>6. owner' = [owner EXCEPT !.generation = owner.generation + 1, !.lease = TRUE,
                             !.sequence = owner.sequence + 1, !.preparation = None]
  BY <1>5
<1> HIDE DEF o
<1>7. owner' \in Owner  BY <1>1, <1>2, <1>6 DEF Owner
<1>8. /\ owner'.sequence = owner.sequence + 1 /\ owner'.phase = owner.phase
      /\ owner'.attempt = owner.attempt /\ owner'.dispatch = owner.dispatch
      /\ owner'.started = owner.started /\ owner'.settlement = owner.settlement
      /\ owner'.preparation = None
  BY <1>1, <1>6 DEF Owner
<1>9. owner'.sequence >= owner.sequence  BY <1>2, <1>8
<1> QED  BY <1>1, <1>7, <1>8, <1>9, OwnerStep DEF Rotate

\* Deadlines and leases that pass leave the record of the effect as it is.
LEMMA LapseStep ==
  ASSUME BrokerInv, Lapse \/ LapseLease
  PROVE  BrokerInv'
<1>1. owner \in Owner /\ lapsed \subseteq Sequences  BY DEF BrokerInv, TypeOK
<1>2. Deadlines(owner) \subseteq Sequences  BY <1>1 DEF Deadlines, Owner, Preparation, Dispatch
<1>3. lapsed' \subseteq Sequences  BY <1>1, <1>2 DEF Lapse, LapseLease
<1>4. owner.sequence \in Nat  BY <1>1 DEF Owner, Sequences
<1>5. owner' \in Owner
  <2>1. CASE Lapse  BY <1>1, <2>1 DEF Lapse
  <2>2. CASE LapseLease  BY Zenon, <1>1, <2>2 DEF LapseLease, Owner
  <2> QED  BY <2>1, <2>2
<1>6. /\ owner'.sequence = owner.sequence /\ owner'.phase = owner.phase
      /\ owner'.attempt = owner.attempt /\ owner'.dispatch = owner.dispatch
      /\ owner'.started = owner.started /\ owner'.settlement = owner.settlement
      /\ owner'.preparation = owner.preparation /\ owner'.generation = owner.generation
  <2>1. CASE Lapse  BY <1>1, <2>1 DEF Lapse
  <2>2. CASE LapseLease  BY <1>1, <2>2 DEF LapseLease, Owner
  <2> QED  BY <2>1, <2>2
<1>7. owner'.sequence >= owner.sequence  BY <1>4, <1>6
<1> QED  BY <1>3, <1>5, <1>6, <1>7, OwnerStep DEF Lapse, LapseLease

-----------------------------------------------------------------------------
(* The theorems *)

\* BrokerInv holds initially.
LEMMA BrokerInitially == Init => BrokerInv
<1> SUFFICES ASSUME Init PROVE BrokerInv
  OBVIOUS
<1> DEFINE p == [sequence |-> 1, source |-> 1, attempt |-> 1, generation |-> 1, retry |-> FALSE]
<1>1. PICK y \in Policies :
        owner = [sequence |-> 1, generation |-> 1, lease |-> TRUE, abort |-> FALSE,
                 policy |-> y, phase |-> "prepared", attempt |-> 0, preparation |-> p,
                 dispatch |-> None, started |-> FALSE, settlement |-> None]
  BY DEF Init
<1>2. 1 \in Sequences /\ 1 \in Attempts /\ 1 \in 1 .. MaxGeneration /\ 0 \in 0 .. MaxAttempts
  BY BoundsAssumption DEF Sequences, Attempts
<1>3. p \in Preparation /\ p # None
  <2>1. p \in Preparation  BY <1>2 DEF Preparation
  <2> HIDE DEF p
  <2> QED  BY <2>1, NoneAssumption
<1>4. owner \in Owner  BY <1>1, <1>2, <1>3 DEF Owner, Phases
<1>5. /\ receipts = {} /\ claims = {} /\ lapsed = {} /\ runs = 0
      /\ ledger = [a \in Attempts |-> "absent"] /\ proc = [c \in Coordinators |-> Idle]
  BY DEF Init
<1>6. TypeOK  BY <1>4, <1>5, IdleCall DEF TypeOK, LedgerStates
<1>7. BrokerConsistent /\ ReservationExcludesStart
  BY <1>1, <1>3 DEF BrokerConsistent, ReservationExcludesStart, Reserved
<1>8. OwnerInv /\ OutcomeInv
  BY <1>1, <1>5, NoneAssumption DEF OwnerInv, OutcomeInv, SettledAsRecorded
<1>9. CallsInv /\ StartInv  BY <1>5, IdleCall DEF CallsInv, StartInv
<1> QED  BY <1>6, <1>7, <1>8, <1>9 DEF BrokerInv

\* Every step keeps BrokerInv.
LEMMA BrokerStep == BrokerInv /\ [Next]_vars => BrokerInv'
<1> SUFFICES ASSUME BrokerInv, [Next]_vars PROVE BrokerInv'
  OBVIOUS
<1>1. CASE UNCHANGED vars
  BY Zenon, <1>1 DEF vars, BrokerInv, TypeOK, BrokerConsistent, ReservationExcludesStart, Reserved,
              OwnerInv, OutcomeInv, SettledAsRecorded, CallsInv, StartInv
<1>2. ASSUME NEW c \in Coordinators, NEW k \in Keys,
             \/ AdmitDispatch(c, k) \/ RecoverReplay(c, k)
             \/ \E confirmed \in BOOLEAN : RecoverEffect(c, k, confirmed)
             \/ ConfirmExternalCommit(c, k) \/ SettleEffect(c, k)
      PROVE  BrokerInv'
  BY <1>2, AdmitDispatchStep, RecoverReplayStep, RecoverEffectStep, ConfirmExternalCommitStep,
     SettleEffectStep
<1>3. ASSUME NEW c \in Coordinators, Deliver(c)
      PROVE  BrokerInv'
  <2>1. CASE DispatchAdmitted(c)
    BY <2>1, MarkDispatchedStep DEF DispatchAdmitted, Sending
  <2>2. CASE DispatchReserved(c)
    BY <2>2, MarkDispatchedStep DEF DispatchReserved, Sending
  <2>3. CASE \E s \in {"committed", "failed", "unknown"} : RecordTerminal(c, s)
    BY <2>3, RecordTerminalStep
  <2> QED
    BY <1>3, <2>1, <2>2, <2>3, ValidateDispatchStep, PrepareCommandStep, ReadForClaimStep,
       ClaimStartStep, VerifyStartStep, StartProviderStep, RecordAcceptedStep, LookupLedgerStep,
       LookupCommitStep, PrepareRetryStep, BlockStep, SettleInterruptedStep, SettleFailedStep,
       MarkExternallyCommittedStep, SettleCommittedStep
       DEF Deliver
<1> QED
  BY <1>1, <1>2, <1>3, CrashStep, RequestAbortStep, OtherCommandStep, RotateStep, LapseStep
     DEF Next

\* One effect calls its provider at most once, an effect settled as interrupted never did
\* and never will, and a settlement reports what the ledger holds for the effect's last
\* attempt: for any coordinators, operation keys, policies, attempts and generations, and
\* however calls, crashes, aborts, rotations and deadlines interleave.
THEOREM EffectsAreSound == Spec => []EffectsSound
<1>1. BrokerInv => EffectsSound
  <2> SUFFICES ASSUME BrokerInv PROVE EffectsSound
    OBVIOUS
  <2>1. runs <= 1  BY DEF BrokerInv, StartInv
  <2>2. ASSUME owner.settlement = "interrupted"
        PROVE  runs = 0 /\ \A c \in Coordinators : proc[c].pc \notin {"starting", "running"}
    BY <2>2 DEF BrokerInv, OwnerInv, StartInv, CallsInv, CallOK
  <2>3. SettledAsRecorded  BY DEF BrokerInv, OutcomeInv
  <2> QED  BY <2>1, <2>2, <2>3 DEF EffectsSound, OneProviderCall
<1> QED  BY <1>1, BrokerInitially, BrokerStep, PTL DEF Spec

\* What assertSessionBrokerState demands holds in every state, and a retry reservation and
\* a start claim exclude each other.
THEOREM BrokerStaysConsistent == Spec => [](BrokerConsistent /\ ReservationExcludesStart)
<1>1. BrokerInv => BrokerConsistent /\ ReservationExcludesStart  BY DEF BrokerInv
<1> QED  BY <1>1, BrokerInitially, BrokerStep, PTL DEF Spec
=============================================================================
