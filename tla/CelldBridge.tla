------------------------------ MODULE CelldBridge ------------------------------
(***************************************************************************)
(* One aggregate object behind celld: hosts that execute commands          *)
(* (internal/celld/host.go), the adapter that turns a callback into a      *)
(* snapshot, pinned receipt reads and a compare-and-commit                 *)
(* (internal/celldbridge), and the native storage kernel                   *)
(* (workers/state-app/src/native-storage/kernel.ts).                       *)
(*                                                                         *)
(* The kernel's replies pass an output gate: they leave when what was      *)
(* written before them is durable, and are lost when the object restarts.  *)
(* The aggregate is a log of the commands applied; the command Rotate      *)
(* withdraws the authority of all others.                                  *)
(***************************************************************************)
EXTENDS Naturals, Sequences, FiniteSets, SequencesExt

CONSTANTS
    Hosts,
    Ids,              \* command identifiers, Rotate among them
    Rotate,
    Inputs,           \* command bytes, told apart by their digest
    MaximumAttempts,
    MaxCalls,         \* bound on the calls of a host
    MaxFaults         \* bound on lost replies and restarts

RotateAssumption == Rotate \in Ids

VARIABLES
    object,    \* what the kernel's transactions see: revision, log, receipts
    durable,   \* the object as of the last flush
    host,      \* the call each host is making
    calls,     \* calls each host has begun
    answers,   \* results given: command, input, response, permit
    faults
vars == <<object, durable, host, calls, answers, faults>>

NoReceipt == [input |-> "none", response |-> 0]
EmptyObject == [revision |-> 0, log |-> <<>>, receipts |-> [i \in Ids |-> NoReceipt]]
Snapshot(o) == [revision |-> o.revision, log |-> o.log]
Idle == [pc |-> "idle", id |-> Rotate, input |-> "none", attempt |-> 0,
         snapshot |-> Snapshot(EmptyObject), receipt |-> NoReceipt, replay |-> FALSE, mine |-> FALSE]

Init ==
    /\ object = EmptyObject /\ durable = EmptyObject
    /\ host = [h \in Hosts |-> Idle] /\ calls = [h \in Hosts |-> 0]
    /\ answers = {} /\ faults = 0

Gate == object = durable
Set(h, r) == host' = [host EXCEPT ![h] = r]
Fails(h, why) == Set(h, [host[h] EXCEPT !.pc = why])

-----------------------------------------------------------------------------
(* The host.                                                               *)

Execute(h) ==
    /\ host[h].pc \in {"idle", "answered", "refused", "reused"} /\ calls[h] < MaxCalls
    /\ calls' = [calls EXCEPT ![h] = @ + 1]
    /\ \E i \in Ids, b \in Inputs :
        Set(h, [Idle EXCEPT !.pc = "snapshot", !.id = i, !.input = b, !.attempt = 1])
    /\ UNCHANGED <<object, durable, answers, faults>>

\* A caller that was not answered repeats its command.
ExecuteAgain(h) ==
    /\ host[h].pc \in {"unavailable", "conflict"}
    /\ Set(h, [Idle EXCEPT !.pc = "snapshot", !.id = host[h].id, !.input = host[h].input, !.attempt = 1])
    /\ UNCHANGED <<object, durable, calls, answers, faults>>

Authorized(log, i) == i = Rotate \/ \A n \in DOMAIN log : log[n] # Rotate

\* Only a definite conflict evaluates the callback again.
RetryOrGiveUp(w) ==
    IF w.attempt < MaximumAttempts
    THEN [w EXCEPT !.pc = "snapshot", !.attempt = @ + 1, !.replay = FALSE, !.receipt = NoReceipt]
    ELSE [w EXCEPT !.pc = "conflict"]

\* ValidateState and Authorize, before the receipt is looked up.
AfterSnapshot(w) == [w EXCEPT !.pc = IF Authorized(w.snapshot.log, w.id) THEN "lookup" ELSE "refused"]

ReadSnapshot(h) ==
    /\ host[h].pc = "snapshot" /\ Gate
    /\ Set(h, AfterSnapshot([host[h] EXCEPT !.snapshot = Snapshot(object)]))
    /\ UNCHANGED <<object, durable, calls, answers, faults>>

\* Mutant of SameRef: a commit needs the object to exist, not its revision.
AnyRef(s) == s.revision > 0 \/ object.revision = 0
SameRef(s) == s = Snapshot(object)

\* What the callback does with the receipt it found: replay it, refuse
\* another input under its identifier, or apply the command.
AfterLookup(w, found) ==
    IF found = NoReceipt
    THEN [w EXCEPT !.pc = "commit", !.receipt = [input |-> w.input, response |-> Len(w.snapshot.log) + 1]]
    ELSE IF found.input = w.input THEN [w EXCEPT !.pc = "commit", !.receipt = found, !.replay = TRUE]
    ELSE [w EXCEPT !.pc = "reused"]

ReadReceipt(h) ==
    /\ host[h].pc = "lookup" /\ Gate
    /\ Set(h, IF SameRef(host[h].snapshot) THEN AfterLookup(host[h], object.receipts[host[h].id])
              ELSE RetryOrGiveUp(host[h]))
    /\ UNCHANGED <<object, durable, calls, answers, faults>>

\* Every commit advances the revision, a replay writes nothing else.
Committed(o, w) ==
    [revision |-> o.revision + 1,
     log |-> IF w.replay THEN o.log ELSE Append(o.log, w.id),
     receipts |-> IF w.replay THEN o.receipts ELSE [o.receipts EXCEPT ![w.id] = w.receipt]]

CompareAndCommit(h) ==
    /\ host[h].pc = "commit"
    /\ IF SameRef(host[h].snapshot)
       THEN /\ object' = Committed(object, host[h])
            /\ Set(h, [host[h] EXCEPT !.pc = "committing", !.mine = TRUE])
       ELSE /\ Gate /\ Set(h, RetryOrGiveUp(host[h])) /\ UNCHANGED object
    /\ UNCHANGED <<durable, calls, answers, faults>>

\* The commit's reply passes the gate.
CommitReply(h) ==
    /\ host[h].pc = "committing" /\ durable.revision > host[h].snapshot.revision
    /\ Fails(h, "barrier")
    /\ UNCHANGED <<object, durable, calls, answers, faults>>

\* A receipt's claims sealed for the command that earned them.
Seal(w) == <<w.id, w.receipt.input, w.receipt.response>>
\* Open accepts a permit under the binding it was sealed for.
Open(permit, i, b) == permit[1] = i /\ permit[2] = b

\* The barrier observes the token's revision or a later one.
BarrierPasses(w) == object.revision >= w.snapshot.revision + 1

DurabilityBarrier(h) ==
    /\ host[h].pc = "barrier" /\ Gate
    /\ IF BarrierPasses(host[h])
       THEN /\ Fails(h, "answered")
            /\ answers' = answers \cup {[id |-> host[h].id, input |-> host[h].input,
                                         response |-> host[h].receipt.response, permit |-> Seal(host[h])]}
       ELSE Fails(h, "unavailable") /\ UNCHANGED answers
    /\ UNCHANGED <<object, durable, calls, faults>>

-----------------------------------------------------------------------------
(* Durability, restarts and lost replies.                                  *)

Flush ==
    /\ object # durable /\ durable' = object
    /\ UNCHANGED <<object, host, calls, answers, faults>>

\* An ambiguous answer is returned to the caller.
NoReply(w) == [w EXCEPT !.pc = "unavailable"]

LoseReply(h) ==
    /\ faults < MaxFaults /\ faults' = faults + 1
    /\ host[h].pc \in {"snapshot", "lookup", "committing", "barrier"}
    /\ Set(h, NoReply(host[h]))
    /\ UNCHANGED <<object, durable, calls, answers>>

\* The object restarts from what is durable; replies it held are lost.
Restart ==
    /\ faults < MaxFaults /\ faults' = faults + 1
    /\ object' = durable
    /\ host' = [h \in Hosts |-> IF host[h].pc = "committing" THEN NoReply(host[h]) ELSE host[h]]
    /\ UNCHANGED <<durable, calls, answers>>

Next ==
    \/ \E h \in Hosts :
        \/ Execute(h) \/ ExecuteAgain(h) \/ ReadSnapshot(h) \/ ReadReceipt(h)
        \/ CompareAndCommit(h) \/ CommitReply(h) \/ DurabilityBarrier(h) \/ LoseReply(h)
    \/ Flush \/ Restart

Spec == Init /\ [][Next]_vars

\* Callers repeat, the transport and the flush make progress; nothing forces
\* a call to begin or a fault to happen.
HostStep(h) ==
    \/ ExecuteAgain(h) \/ ReadSnapshot(h) \/ ReadReceipt(h)
    \/ CompareAndCommit(h) \/ CommitReply(h) \/ DurabilityBarrier(h)

-----------------------------------------------------------------------------
(* Properties.                                                             *)

(* A command is applied at most once, whatever is lost, repeated or raced  *)
(* (host.go, Execute: the receipt is read and written in the snapshot the  *)
(* state comes from).                                                      *)
AppliedOnce == \A m, n \in DOMAIN object.log : object.log[m] = object.log[n] => m = n

(* Whoever is answered for a command is given the same response and the    *)
(* same permits, and what was answered is never forgotten (host.go,        *)
(* Execute: nothing is exposed before the barrier).                        *)
AnswersAreDurable ==
    \A a \in answers : /\ durable.receipts[a.id] = [input |-> a.input, response |-> a.response]
                       /\ durable.log[a.response] = a.id /\ Open(a.permit, a.id, a.input)

(* A call answered was authorized by the state its transaction was         *)
(* committed on, a replay included (host.go: authorization deliberately    *)
(* precedes receipt lookup).                                               *)
ReplayIsFenced ==
    \A h \in Hosts : host[h].pc = "answered" => Authorized(host[h].snapshot.log, host[h].id)

(* Once a transaction's commit was applied its callback is not evaluated   *)
(* again (adapter.go, Transaction: an ambiguous commit is never replayed   *)
(* internally; client.go, call).                                           *)
NoCallbackReplay == \A h \in Hosts : host[h].pc \in {"snapshot", "lookup", "commit", "conflict"} => ~host[h].mine

(* The durable log only grows at its end, and no revision is used for two  *)
(* contents once it is durable (adapter.go: commits are compared with the  *)
(* snapshot).                                                              *)
DurableGrows ==
    /\ IsPrefix(durable.log, durable'.log) /\ durable.revision <= durable'.revision
    /\ (durable.revision = durable'.revision => durable = durable')

(* Every call that began is answered, or told that its authority is gone   *)
(* or its identifier taken, although each attempt may lose a race or a     *)
(* reply.                                                                  *)
Begun(h) == host[h].pc # "idle"
Ended(h) == host[h].pc \in {"answered", "refused", "reused"}
=============================================================================
