------------------------- MODULE McpServerRequests -------------------------
(***************************************************************************)
(* The requests an MCP server sends back while a call runs, internal/      *)
(* mcpgateway: HandleServerRequest (server_requests.go), the claims and    *)
(* the reconciliation of requests and the audit outbox (repository.go),    *)
(* cancelReconciledServerRequest and FlushAudit (executor.go).             *)
(*                                                                         *)
(* The parent call is what Commit tells apart: running (dispatched or      *)
(* streaming), pending (its cancellation), uncertain, or ended; its own    *)
(* machine is module McpMachine.  A sampling or elicitation request has a  *)
(* child at its broker, which is external: a cancelled child is cancelled  *)
(* for good, also when it had not begun.                                   *)
(***************************************************************************)
EXTENDS Naturals, Sequences, FiniteSets, SequencesExt

CONSTANTS
    Workers,
    Requests,
    Method(_),     \* "sampling", "elicitation" or "roots", of a request
    None,          \* no request
    MaxRequests,   \* Bounds.MaxEvents
    MaxChunks,     \* bound: commits of the running parent
    MaxFaults      \* bound: crashes, lost answers, expired leases, rotations

RequestsAccepted ==
    /\ MaxRequests \in Nat \ {0} /\ MaxChunks \in Nat /\ MaxFaults \in Nat
    /\ \A r \in Requests : Method(r) \in {"sampling", "elicitation", "roots"}

VARIABLES parent, slot, fence, request, active, required, reconciling, count,
          child, asked, answers, audits, worker, faults

vars == <<parent, slot, fence, request, active, required, reconciling, count,
          child, asked, answers, audits, worker, faults>>
tables == <<request, active, required, reconciling, count>>
broker == <<child, asked>>

NoRequest == [state |-> "none", generation |-> 0, fence |-> 0, live |-> FALSE,
              response |-> "none", receipt |-> FALSE]
Idle == [pc |-> "idle", r |-> None, generation |-> 0, fence |-> 0,
         response |-> "none", queue |-> <<>>]

Init ==
    /\ parent = [state |-> "running", revision |-> 0] /\ slot = TRUE /\ fence = 1
    /\ request = [r \in Requests |-> NoRequest]
    /\ active = None /\ required = None /\ reconciling = None /\ count = 0
    /\ child = [r \in Requests |-> "none"] /\ asked = [r \in Requests |-> 0]
    /\ answers = [r \in Requests |-> {}]
    /\ audits = [last |-> 0, pending |-> {}, delivered |-> {}]
    /\ worker = [w \in Workers |-> Idle] /\ faults = 0

Fault == faults < MaxFaults /\ faults' = faults + 1
At(w, pc) == worker[w].pc = pc
Goes(w, me) == worker' = [worker EXCEPT ![w] = me]
Return(w) == Goes(w, Idle)
Brokered(r) == Method(r) \in {"sampling", "elicitation"}
Ended(state) == state \in {"completed", "cancelled"}

(* enqueueAuditLocked: in the transaction of the decision it records.      *)
Enqueued(n) == [audits EXCEPT !.last = @ + n, !.pending = @ \cup (audits.last + 1 .. audits.last + n)]

-----------------------------------------------------------------------------
(* HandleServerRequest.                                                    *)

(* A claim that its owner still holds.                                     *)
ClaimHeld(r) == request[r].live /\ request[r].fence = fence

Claimed(w, r, generation) ==
    /\ request' = [request EXCEPT ![r] = [NoRequest EXCEPT !.state = "claimed",
                        !.generation = generation, !.fence = fence, !.live = TRUE]]
    /\ active' = r
    /\ \E response \in IF Brokered(r) THEN {"none"} ELSE {"result", "error"} :
         Goes(w, [Idle EXCEPT !.pc = IF Brokered(r) THEN "broker" ELSE "complete",
                     !.r = r, !.generation = generation, !.fence = fence, !.response = response])

(* ClaimServerRequest.                                                     *)
ClaimServerRequest(w, r) ==
    /\ At(w, "idle") /\ required = None /\ reconciling = None
    /\ CASE request[r].state = "completed" ->
              /\ answers' = [answers EXCEPT ![r] = @ \cup {request[r].response}]
              /\ UNCHANGED <<tables, audits, worker>>
         [] request[r].state = "claimed" ->
              /\ parent.state = "running" /\ ~ClaimHeld(r)
              /\ Claimed(w, r, request[r].generation + 1)
              /\ UNCHANGED <<required, reconciling, count, answers, audits>>
         [] request[r].state = "none" /\ count >= MaxRequests ->
              /\ parent.state = "running"
              /\ required' = r /\ audits' = Enqueued(1)
              /\ UNCHANGED <<request, active, reconciling, count, answers, worker>>
         [] request[r].state = "none" /\ count < MaxRequests ->
              /\ parent.state = "running" /\ active = None
              /\ count' = count + 1 /\ Claimed(w, r, 1)
              /\ UNCHANGED <<required, reconciling, answers, audits>>
         [] OTHER -> FALSE
    /\ UNCHANGED <<parent, slot, fence, broker, faults>>

(* Only the first claim asks; a later one takes up what the first began.   *)
AsksAgain(me) == me.generation = 1

(* Sample, Elicit or Resume, external.  An elicitation is not taken up.    *)
CallBroker(w) ==
    LET me == worker[w]
    IN /\ At(w, "broker")
       /\ IF AsksAgain(me)
          THEN /\ asked' = [asked EXCEPT ![me.r] = @ + 1]
               /\ child' = [child EXCEPT ![me.r] = IF @ = "none" THEN "running" ELSE @]
          ELSE UNCHANGED broker
       /\ Goes(w, [me EXCEPT !.pc = IF AsksAgain(me) \/ Method(me.r) = "sampling"
                                    THEN "waiting" ELSE "cancel"])
       /\ UNCHANGED <<parent, slot, fence, tables, answers, audits, faults>>

ChildEnds(r) ==
    /\ child[r] = "running" /\ child' = [child EXCEPT ![r] = "done"]
    /\ UNCHANGED <<parent, slot, fence, tables, asked, answers, audits, worker, faults>>

BrokerReturns(w) ==
    LET me == worker[w]
    IN /\ At(w, "waiting")
       /\ \/ /\ child[me.r] = "done" /\ faults' = faults
             /\ Goes(w, [me EXCEPT !.pc = "complete", !.response = "result"])
          \/ /\ child[me.r] \in {"none", "cancelled"} /\ faults' = faults
             /\ Goes(w, [me EXCEPT !.pc = "cancel"])
          \/ /\ child[me.r] \in {"running", "done"} /\ Fault
             /\ Goes(w, [me EXCEPT !.pc = "cancel"])
       /\ UNCHANGED <<parent, slot, fence, tables, broker, answers, audits>>

(* The child of a permit is cancelled at its broker, external.             *)
Cancelled(r) == [child EXCEPT ![r] = IF @ = "done" THEN @ ELSE "cancelled"]

(* A request that failed has its child cancelled before it is answered.    *)
CancelChild(w) ==
    LET me == worker[w]
    IN /\ At(w, "cancel")
       /\ \/ /\ child' = Cancelled(me.r) /\ faults' = faults
             /\ Goes(w, [me EXCEPT !.pc = "complete", !.response = "error"])
          \/ Fault /\ Return(w) /\ child' = child
       /\ UNCHANGED <<parent, slot, fence, tables, asked, answers, audits>>

PermitIsCurrent(me) ==
    /\ me.fence = fence /\ active = me.r
    /\ request[me.r].generation = me.generation /\ request[me.r].fence = me.fence

(* CompleteServerRequest: the answer and its audit are stored together.    *)
CompleteServerRequest(w) ==
    LET me == worker[w]
    IN /\ At(w, "complete")
       /\ IF PermitIsCurrent(me)
          THEN /\ request' = [request EXCEPT ![me.r].state = "completed",
                                             ![me.r].response = me.response]
               /\ active' = None /\ audits' = Enqueued(1)
               /\ Goes(w, [me EXCEPT !.pc = "deliver", !.queue = <<audits.last + 1>>])
          ELSE Return(w) /\ UNCHANGED <<request, active, audits>>
       /\ UNCHANGED <<parent, slot, fence, required, reconciling, count, broker, answers, faults>>

-----------------------------------------------------------------------------
(* The audit outbox.                                                       *)

Record(n) == [audits EXCEPT !.delivered = @ \cup {n}]

(* deliverAuditEnvelope: recorded at the sink, then acknowledged.          *)
DeliverAudit(w) ==
    LET me == worker[w]
    IN /\ At(w, "deliver")
       /\ \/ /\ audits' = Record(Head(me.queue)) /\ faults' = faults
             /\ Goes(w, [me EXCEPT !.pc = "acknowledge"])
          \/ Fault /\ Return(w) /\ audits' = audits
       /\ UNCHANGED <<parent, slot, fence, tables, broker, answers>>

(* The answer is returned once its audit is out.                           *)
AcknowledgeAudit(w) ==
    LET me == worker[w]
        rest == Tail(me.queue)
    IN /\ At(w, "acknowledge")
       /\ audits' = [audits EXCEPT !.pending = @ \ {Head(me.queue)}]
       /\ IF rest # <<>> THEN Goes(w, [me EXCEPT !.pc = "deliver", !.queue = rest]) ELSE Return(w)
       /\ answers' = IF me.r = None THEN answers
                     ELSE [answers EXCEPT ![me.r] = @ \cup {me.response}]
       /\ UNCHANGED <<parent, slot, fence, tables, broker, faults>>

PendingAudits == {n \in audits.pending : n <= audits.last}

(* FlushAudit: what is pending, in the order of the outbox.                *)
FlushAudit(w) ==
    /\ At(w, "idle") /\ PendingAudits # {}
    /\ Goes(w, [Idle EXCEPT !.pc = "deliver",
                   !.queue = SetToSortSeq(PendingAudits, LAMBDA a, b : a < b)])
    /\ UNCHANGED <<parent, slot, fence, tables, broker, answers, audits, faults>>

-----------------------------------------------------------------------------
(* Repository.Commit of a parent, as far as it concerns its requests.      *)

Intent(next) == next = "pending" /\ parent.state \in {"running", "uncertain"}

Abandoned(r) == [request EXCEPT ![r] = [@ EXCEPT !.state = "abandoned", !.fence = fence,
                                                 !.generation = @ + 1, !.live = FALSE]]

(* The turn goes on only when no child waits for its cancellation.         *)
ReleasesTurn(next) == Ended(next) /\ (active = None \/ ~Brokered(active))

RequiredAfter(next) == IF Intent(next) THEN None ELSE required

Commit(next) ==
    /\ required = None \/ Intent(next)
    /\ reconciling = None
    /\ active # None => Intent(next) \/ ~request[active].live
    /\ slot
    /\ parent' = [state |-> next, revision |-> parent.revision + 1]
    /\ slot' = ~ReleasesTurn(next)
    /\ required' = RequiredAfter(next)
    /\ IF active = None
       THEN UNCHANGED <<request, active, reconciling, audits>>
       ELSE /\ request' = Abandoned(active) /\ active' = None /\ audits' = Enqueued(1)
            /\ reconciling' = IF Brokered(active) THEN active ELSE None
    /\ UNCHANGED <<fence, count, broker, answers, worker>>

(* The events of the parent's own machine.                                 *)
ParentStreams ==
    /\ parent.state = "running" /\ parent.revision < MaxChunks
    /\ Commit("running") /\ UNCHANGED faults
ParentCompletes == parent.state = "running" /\ Commit("completed") /\ UNCHANGED faults
ParentUncertain == parent.state = "running" /\ Fault /\ Commit("uncertain")
RequestCancel ==
    /\ parent.state \in {"running", "uncertain"}
    /\ IF required = None THEN Fault ELSE faults' = faults
    /\ Commit("pending")
ResolveCancellation ==
    /\ parent.state = "pending"
    /\ \/ Commit("cancelled") \/ Commit("completed")
    /\ UNCHANGED faults
RecoverInflight == parent.state = "uncertain" /\ Commit("running") /\ UNCHANGED faults

-----------------------------------------------------------------------------
(* Recover.                                                                *)

(* Mutant of OwnerGone: the claim of a finished worker stands.             *)
OwnerNeverGone(r) == FALSE

OwnerGone(r) == ~request[r].live

(* ReconcileServerRequests: a request whose owner is gone is abandoned, and *)
(* its parent is to be cancelled.                                          *)
ReconcileServerRequests(w) ==
    /\ At(w, "idle")
    /\ CASE reconciling # None ->
              /\ Goes(w, [Idle EXCEPT !.pc = "rcancel", !.r = reconciling, !.fence = fence])
              /\ UNCHANGED <<tables, audits>>
         [] reconciling = None /\ active # None ->
              /\ OwnerGone(active)
              /\ request' = Abandoned(active) /\ audits' = Enqueued(1)
              /\ active' = None /\ required' = active
              /\ reconciling' = IF Brokered(active) THEN active ELSE None
              /\ IF Brokered(active)
                 THEN Goes(w, [Idle EXCEPT !.pc = "rcancel", !.r = active, !.fence = fence])
                 ELSE worker' = worker
              /\ count' = count
         [] OTHER -> FALSE
    /\ UNCHANGED <<parent, slot, fence, broker, answers, faults>>

(* cancelReconciledServerRequest, also called by the owner of the parent's *)
(* cancellation.                                                           *)
CancelReconciled(w) ==
    LET me == worker[w]
    IN /\ At(w, "rcancel")
       /\ \/ /\ child' = Cancelled(me.r) /\ faults' = faults
             /\ Goes(w, [me EXCEPT !.pc = "rcomplete"])
          \/ Fault /\ Return(w) /\ child' = child
       /\ UNCHANGED <<parent, slot, fence, tables, asked, answers, audits>>

Reconcilable(me) == me.fence = fence /\ reconciling = me.r

(* CompleteServerRequestReconciliation: the receipt, and the turn of a     *)
(* parent that ended meanwhile.                                            *)
CompleteReconciliation(w) ==
    LET me == worker[w]
    IN /\ At(w, "rcomplete") /\ Return(w)
       /\ IF Reconcilable(me)
          THEN /\ request' = [request EXCEPT ![me.r].receipt = TRUE]
               /\ reconciling' = None
               /\ slot' = (slot /\ ~Ended(parent.state))
          ELSE UNCHANGED <<request, reconciling, slot>>
       /\ UNCHANGED <<parent, fence, active, required, count, broker, answers, audits, faults>>

-----------------------------------------------------------------------------
(* What else happens.                                                      *)

Crash(w) ==
    /\ ~At(w, "idle") /\ Fault /\ Return(w)
    /\ UNCHANGED <<parent, slot, fence, tables, broker, answers, audits>>

(* A lease runs out while its owner is at work, or once it is gone.        *)
Owned(r) ==
    \E w \in Workers : /\ worker[w].pc \in {"broker", "waiting", "cancel", "complete"}
                       /\ worker[w].r = r /\ worker[w].generation = request[r].generation

LeaseExpires(r) ==
    /\ request[r].state = "claimed" /\ request[r].live
    /\ IF Owned(r) THEN Fault ELSE faults' = faults
    /\ request' = [request EXCEPT ![r].live = FALSE]
    /\ UNCHANGED <<parent, slot, fence, active, required, reconciling, count, broker,
                   answers, audits, worker>>

RotateFence ==
    /\ fence = 1 /\ Fault /\ fence' = 2
    /\ UNCHANGED <<parent, slot, tables, broker, answers, audits, worker>>

Handle(w) ==
    \/ \E r \in Requests : ClaimServerRequest(w, r)
    \/ CallBroker(w) \/ BrokerReturns(w) \/ CancelChild(w) \/ CompleteServerRequest(w)

Recover(w) == ReconcileServerRequests(w) \/ CancelReconciled(w) \/ CompleteReconciliation(w)

Audit(w) == FlushAudit(w) \/ DeliverAudit(w) \/ AcknowledgeAudit(w)

Parent ==
    \/ ParentStreams \/ ParentCompletes \/ ParentUncertain
    \/ RequestCancel \/ ResolveCancellation \/ RecoverInflight

Next ==
    \/ \E w \in Workers : Handle(w) \/ Recover(w) \/ Audit(w) \/ Crash(w)
    \/ \E r \in Requests : ChildEnds(r) \/ LeaseExpires(r)
    \/ Parent \/ RotateFence

Spec == Init /\ [][Next]_vars

(* Recovery runs again after every failure, leases run out, brokers answer *)
(* and operations come to their end; the provider may never ask anything   *)
(* and the parent need not end.                                            *)
HandleSteps(w) == CallBroker(w) \/ BrokerReturns(w) \/ CancelChild(w) \/ CompleteServerRequest(w)
ReconcileSteps(w) == CancelReconciled(w) \/ CompleteReconciliation(w)
AuditSteps(w) == DeliverAudit(w) \/ AcknowledgeAudit(w)

-----------------------------------------------------------------------------
(* A turn goes on only when no sampling or elicitation its call began is   *)
(* still running ("A terminal parent cannot release its turn while a       *)
(* nested broker side effect still needs a durable cancellation receipt"). *)
TurnWaitsForChildren == ~slot => \A r \in Requests : child[r] # "running"

(* The user is asked, or the model sampled, at most once per request,      *)
(* however often the server repeats it and whoever takes it over.          *)
AskedOnce == \A r \in Requests : asked[r] <= 1

(* Every answer given to one request is the same.                          *)
AnswersAgree == \A r \in Requests : Cardinality(answers[r]) <= 1

(* No audit entry is lost: it is in the outbox until the sink has it.      *)
AuditKept == \A n \in 1 .. audits.last : n \in audits.pending \/ n \in audits.delivered

(* A parent that must be cancelled can be: nothing but its cancellation is *)
(* stored, so that one has to be possible.                                 *)
RequiredIsPossible == required # None => Intent("pending") /\ slot

=============================================================================
