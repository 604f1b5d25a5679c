--------------------------- MODULE ProviderDispatch ---------------------------
(***************************************************************************)
(* The last step of a dispatch: the Session starters of the model and the  *)
(* MCP gateway (session_dispatch.go of both), the native observation       *)
(* ledger they record facts in (internal/effectledger/native.go) and the   *)
(* publication of a committed result (internal/providerresult).            *)
(*                                                                         *)
(* One dispatch attempt.  Each ledger call is a transaction on the object  *)
(* of the attempt followed by a durability barrier: it may fail, it may    *)
(* commit and lose its answer, and a storage crash forgets what has not    *)
(* passed a barrier.  Several starters may hold a claimed start, so that   *)
(* the ledger alone keeps the provider from being called twice.            *)
(***************************************************************************)
EXTENDS Naturals, FiniteSets

CONSTANTS
    Starters,
    Commands,      \* service payloads, told apart by their digest
    Bodies,        \* normalized result bodies a publisher may bring
    Service,       \* "model" or "mcp"
    None,
    MaxFaults      \* bound on failed and lost calls

ServiceAssumption == Service \in {"model", "mcp"}

VARIABLES
    entry,      \* the ledger's object as transactions see it
    stable,     \* the object as of its last barrier
    epoch,      \* storage crashes so far
    starter,    \* what each starter is doing
    provider,   \* what really happened at the provider
    published,  \* the record of the result, as stored and as of its last barrier
    reader,     \* a read of it
    seen,       \* bodies readers were given
    faults
vars == <<entry, stable, epoch, starter, provider, published, reader, seen, faults>>

NoEntry == [state |-> "absent", command |-> None, id |-> FALSE, status |-> "none"]
Absent == [facts |-> "none", rest |-> 0]
Idle == [pc |-> "idle", command |-> None, id |-> FALSE, outcome |-> "none", epoch |-> 0]

Init ==
    /\ entry = NoEntry /\ stable = NoEntry /\ epoch = 0
    /\ starter = [s \in Starters |-> Idle]
    /\ provider = [sent |-> 0, end |-> "none"]
    /\ published = [now |-> Absent, stable |-> Absent]
    /\ reader = [pc |-> "idle", body |-> Absent, epoch |-> 0]
    /\ seen = {} /\ faults = 0

-----------------------------------------------------------------------------
(* The ledger's transitions, as functions of the stored entry: the set of  *)
(* entries the call may leave, empty when it refuses.                      *)

PrepareEntry(e, c) ==
    IF e.state = "absent" THEN {[NoEntry EXCEPT !.state = "prepared", !.command = c]}
    ELSE IF e.command = c THEN {e} ELSE {}

\* Mutant of Claimable: a claim is repeated for whoever asks.
ClaimsAgain(e) == e.state \in {"prepared", "claimed"}
Claimable(e) == e.state = "prepared"
ClaimEntry(e, c) == IF Claimable(e) /\ e.command = c THEN {[e EXCEPT !.state = "claimed"]} ELSE {}

AcceptEntry(e) ==
    IF e.id THEN {e} ELSE IF e.state = "claimed" THEN {[e EXCEPT !.state = "accepted", !.id = TRUE]} ELSE {}

Replays(e, status) == e.state = "terminal"
TerminalEntry(e, status) ==
    IF Replays(e, status) THEN IF e.status = status THEN {e} ELSE {}
    ELSE IF e.state \in {"claimed", "accepted", "terminal"} /\ (status = "committed" => e.id)
         THEN {[e EXCEPT !.state = "terminal", !.status = status]} ELSE {}

\* What decodeEntry accepts of a stored object.
ValidEntry(e) ==
    /\ e.state \in {"absent", "prepared", "claimed"} => ~e.id
    /\ e.state = "accepted" => e.id
    /\ (e.state = "terminal") = (e.status # "none")
    /\ e.status = "committed" => e.id

\* broker.InvocationLedger: what recovery is told of the attempt.
Lookup(e) ==
    CASE e.state \in {"absent", "prepared"} -> "absent"
      [] e.state \in {"claimed", "accepted"} -> "inflight"
      [] OTHER -> e.status

-----------------------------------------------------------------------------
(* transact: a starter's call at pc, and where it goes on.                 *)

Waiting == {"preparing", "claiming", "accepting", "ending"}

\* Where a call that was not confirmed leaves the starter: a failed
\* acceptance is recorded as unknown, everything else is an error returned.
Failed(w) ==
    CASE w.pc \in {"accept", "accepting"} -> [w EXCEPT !.pc = "end", !.outcome = "unknown"]
      [] w.pc \in {"end", "ending"} -> [w EXCEPT !.pc = "returned"]
      [] w.pc \in {"claim", "claiming"} -> [w EXCEPT !.pc = "returned"]
      [] OTHER -> Idle

Transact(s, allowed, waiting) ==
    /\ \/ \E n \in allowed :
            /\ entry' = n
            /\ starter' = [starter EXCEPT ![s].pc = waiting, ![s].epoch = epoch]
            /\ UNCHANGED faults
       \/ /\ allowed = {}
          /\ starter' = [starter EXCEPT ![s] = Failed(@)]
          /\ UNCHANGED <<entry, faults>>
       \/ /\ faults < MaxFaults /\ faults' = faults + 1
          /\ starter' = [starter EXCEPT ![s] = Failed(@)]
          /\ entry' \in allowed \cup {entry}
    /\ UNCHANGED <<stable, epoch, provider, published, reader, seen>>

Confirmed(w) ==
    CASE w.pc = "preparing" -> [w EXCEPT !.pc = "prepared"]
      [] w.pc = "claiming" -> [w EXCEPT !.pc = "claimed"]
      [] w.pc = "accepting" -> [w EXCEPT !.pc = IF w.outcome = "none" THEN "streaming" ELSE "end"]
      [] w.pc = "ending" -> [w EXCEPT !.pc = "returned"]

BarrierPasses(s) == entry

DurabilityBarrier(s) ==
    /\ starter[s].pc \in Waiting
    /\ \/ /\ starter[s].epoch = epoch
          /\ stable' = BarrierPasses(s)
          /\ starter' = [starter EXCEPT ![s] = Confirmed(@)]
          /\ UNCHANGED faults
       \/ /\ starter[s].epoch # epoch
          /\ starter' = [starter EXCEPT ![s] = Failed(@)]
          /\ UNCHANGED <<stable, faults>>
       \/ /\ faults < MaxFaults /\ faults' = faults + 1
          /\ starter' = [starter EXCEPT ![s] = Failed(@)]
          /\ UNCHANGED stable
    /\ UNCHANGED <<entry, epoch, provider, published, reader, seen>>

StorageCrash ==
    /\ faults < MaxFaults /\ faults' = faults + 1
    /\ epoch' = epoch + 1 /\ entry' = stable
    /\ published' = [published EXCEPT !.now = published.stable]
    /\ UNCHANGED <<stable, starter, provider, reader, seen>>

\* The process of a starter stops, or its context is cancelled.
Abandon(s) ==
    /\ starter[s].pc \notin {"idle", "returned"} /\ faults < MaxFaults
    /\ faults' = faults + 1
    /\ starter' = [starter EXCEPT ![s].pc = "returned"]
    /\ UNCHANGED <<entry, stable, epoch, provider, published, reader, seen>>

-----------------------------------------------------------------------------
(* Prepare and Start.                                                      *)

Prepare(s) ==
    /\ starter[s].pc = "idle"
    /\ \E c \in Commands :
        /\ PrepareEntry(entry, c) # {}
        /\ entry' \in PrepareEntry(entry, c)
        /\ starter' = [starter EXCEPT ![s] = [Idle EXCEPT !.pc = "preparing", !.command = c, !.epoch = epoch]]
    /\ UNCHANGED <<stable, epoch, provider, published, reader, seen, faults>>

\* A start may also be presented by a process that prepared nothing.
PresentClaim(s) ==
    /\ starter[s].pc \in {"idle", "prepared"}
    /\ \E c \in Commands :
        /\ starter[s].pc = "prepared" => c = starter[s].command
        /\ starter' = [starter EXCEPT ![s] = [Idle EXCEPT !.pc = "claim", !.command = c]]
    /\ UNCHANGED <<entry, stable, epoch, provider, published, reader, seen, faults>>

ClaimStart(s) ==
    starter[s].pc = "claim" /\ Transact(s, ClaimEntry(entry, starter[s].command), "claiming")

Goes(s, pc, outcome) == starter' = [starter EXCEPT ![s].pc = pc, ![s].outcome = outcome]

\* The stored command does not validate: the start returns and the attempt
\* stays claimed.
InvalidCommand(s) ==
    /\ starter[s].pc = "claimed" /\ Goes(s, "returned", "none")
    /\ UNCHANGED <<entry, stable, epoch, provider, published, reader, seen, faults>>

\* A check of MCP's before its call fails: that failure is recorded.
PreStartFailure(s) ==
    /\ Service = "mcp" /\ starter[s].pc = "claimed" /\ Goes(s, "end", "failed")
    /\ UNCHANGED <<entry, stable, epoch, provider, published, reader, seen, faults>>

\* Without an identity only DefinitelyNotSent is a failure.
Classify(reply) == IF reply = "not_sent" THEN "failed" ELSE "unknown"

\* The provider is called once.  It answers with an identity and a stream,
\* an identity and an error, or without an identity.
CallProvider(s) ==
    /\ starter[s].pc = "claimed"
    /\ \E reply \in {"stream", "id_error", "not_sent", "lost"} :
        /\ \E sent \in IF reply = "not_sent" THEN {0} ELSE IF reply = "lost" THEN {0, 1} ELSE {1} :
            provider' = [provider EXCEPT !.sent = @ + sent]
        /\ starter' = [starter EXCEPT ![s] =
             CASE reply = "stream" -> [@ EXCEPT !.pc = "accept", !.id = TRUE]
               [] reply = "id_error" -> [@ EXCEPT !.pc = "accept", !.id = TRUE, !.outcome = "unknown"]
               [] OTHER -> [@ EXCEPT !.pc = "end", !.outcome = Classify(reply)]]
    /\ UNCHANGED <<entry, stable, epoch, published, reader, seen, faults>>

RecordAccepted(s) == starter[s].pc = "accept" /\ Transact(s, AcceptEntry(entry), "accepting")

\* Only a completion commits; a rejection exists for the model alone.
EndOfStream(event) == CASE event = "completed" -> "committed" [] event = "rejected" -> "failed" [] OTHER -> "unknown"

\* The stream is drained until a terminal event, its end, or a limit.
Drain(s) ==
    /\ starter[s].pc = "streaming"
    /\ \E event \in {"completed", "eof", "invalid"} \cup (IF Service = "model" THEN {"rejected"} ELSE {}) :
        /\ provider' = [provider EXCEPT !.end = IF event \in {"completed", "rejected"} THEN event ELSE @]
        /\ Goes(s, "end", EndOfStream(event))
    /\ UNCHANGED <<entry, stable, epoch, published, reader, seen, faults>>

RecordTerminal(s) == starter[s].pc = "end" /\ Transact(s, TerminalEntry(entry, starter[s].outcome), "ending")

\* ResumeObservation: another process records what it can know of a claimed
\* attempt, that its outcome is unknown.
ResumeObservation(s) ==
    /\ starter[s].pc = "idle" /\ stable.state \notin {"absent", "prepared"}
    /\ starter' = [starter EXCEPT ![s] = [Idle EXCEPT !.pc = "end", !.outcome = "unknown"]]
    /\ UNCHANGED <<entry, stable, epoch, provider, published, reader, seen, faults>>

-----------------------------------------------------------------------------
(* providerresult: publication and reading of the committed result.  A     *)
(* body is [facts, rest]: what must agree with the ledger's result, and    *)
(* what the ledger does not determine (for the model: api, timestamp).     *)

ModelPiResult(b) == b.facts = "recorded"
\* An MCP body is the recorded output itself.
McpPiResult(b) == b = [facts |-> "recorded", rest |-> 1]
ValidRecord(b) == IF Service = "model" THEN ModelPiResult(b) ELSE McpPiResult(b)

Publishes(b) == published.now \in {Absent, b}

\* A publisher that knows the committed facts brings a body.
WriteCommittedResult(b) ==
    /\ stable.status = "committed"
    /\ ValidRecord(b) /\ Publishes(b)
    /\ published' = [published EXCEPT !.now = b]
    /\ UNCHANGED <<entry, stable, epoch, starter, provider, reader, seen, faults>>

\* The barrier of any transaction on the record's object.
PublicationBarrier ==
    /\ published.now # published.stable
    /\ published' = [published EXCEPT !.stable = published.now]
    /\ UNCHANGED <<entry, stable, epoch, starter, provider, reader, seen, faults>>

\* The transaction of a read: only for the request of the record.
ReadCommittedResult ==
    /\ reader.pc = "idle" /\ published.now # Absent /\ ValidRecord(published.now)
    /\ reader' = [pc |-> "read", body |-> published.now, epoch |-> epoch]
    /\ UNCHANGED <<entry, stable, epoch, starter, provider, published, seen, faults>>

ConfirmedRead == published.now

\* confirm: the read's own barrier, then the bytes go out.
ConfirmRead ==
    /\ reader.pc = "read"
    /\ IF reader.epoch = epoch
       THEN /\ published' = [published EXCEPT !.stable = ConfirmedRead]
            /\ reader' = [reader EXCEPT !.pc = "confirmed"]
       ELSE /\ reader' = [reader EXCEPT !.pc = "idle", !.body = Absent]
            /\ UNCHANGED published
    /\ UNCHANGED <<entry, stable, epoch, starter, provider, seen, faults>>

\* ResolveResult checks the record again, independently of its source.
ResolveResult ==
    /\ reader.pc = "confirmed"
    /\ reader' = [reader EXCEPT !.pc = IF ValidRecord(reader.body) THEN "resolved" ELSE "idle"]
    /\ UNCHANGED <<entry, stable, epoch, starter, provider, published, seen, faults>>

\* The signed answer, or its loss.
ServeResult ==
    /\ reader.pc = "resolved"
    /\ \/ seen' = seen \cup {reader.body}
       \/ UNCHANGED seen
    /\ reader' = [reader EXCEPT !.pc = "idle", !.body = Absent]
    /\ UNCHANGED <<entry, stable, epoch, starter, provider, published, faults>>

-----------------------------------------------------------------------------
Next ==
    \/ \E s \in Starters :
        \/ Prepare(s) \/ PresentClaim(s) \/ ClaimStart(s) \/ DurabilityBarrier(s) \/ Abandon(s)
        \/ InvalidCommand(s) \/ PreStartFailure(s) \/ CallProvider(s) \/ RecordAccepted(s) \/ Drain(s) \/ RecordTerminal(s)
        \/ ResumeObservation(s)
    \/ StorageCrash
    \/ \E b \in Bodies : WriteCommittedResult(b)
    \/ PublicationBarrier \/ ReadCommittedResult \/ ConfirmRead \/ ResolveResult \/ ServeResult

Spec == Init /\ [][Next]_vars

-----------------------------------------------------------------------------
(* Properties.                                                             *)

(* The provider is called at most once for the attempt, although several   *)
(* starters hold its claim and the storage may forget, fail or lose        *)
(* answers (native.go, ClaimStart: a claim is used only after its          *)
(* barrier).                                                               *)
StartedOnce == provider.sent <= 1

(* When recovery is told the attempt is absent, nothing was ever sent, so  *)
(* dispatching again is safe (native.go, Lookup).                          *)
AbsentMeansUnsent == Lookup(stable) = "absent" => provider.sent = 0

(* A recorded failure means the provider did nothing or rejected the call, *)
(* a recorded commit that it completed it (session_dispatch.go, Start and  *)
(* consumeProviderCall).                                                   *)
TerminalIsTrue ==
    /\ Lookup(stable) = "failed" => provider.sent = 0 \/ provider.end = "rejected"
    /\ Lookup(stable) = "committed" => provider.end = "completed"

(* The stored object can always be read back (native_codec.go,             *)
(* validateEntry refuses what the transitions must never write).           *)
EntryDecodes == ValidEntry(entry)

(* A confirmed terminal fact never changes, whoever records later and      *)
(* whatever the storage forgets (native.go, RecordTerminal).               *)
TerminalIsFinal == stable.state = "terminal" => stable' = stable

(* Every reader is given the same body, also after a storage crash that    *)
(* forgets a publication (persistence.go: a publication cannot be          *)
(* replaced, and a read passes its own barrier before any byte is shown).  *)
ReadersAgree == Cardinality(seen) <= 1

(* A body handed out agrees with a committed fact of the ledger            *)
(* (ValidateSessionPiResult, on writing, on reading and on resolving).     *)
SeenAsRecorded == \A b \in seen : b.facts = "recorded" /\ stable.status = "committed"
=============================================================================
