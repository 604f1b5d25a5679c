--------------------------- MODULE SessionCallers ---------------------------
(***************************************************************************)
(* Two callers of the Session object (module Session) over an unreliable   *)
(* way there: whoever gives up, or whose answer is lost, leaves a command  *)
(* that the session may execute later, between the steps of a retry.       *)
(*                                                                         *)
(* A public request for a turn, from POST /v1/sessions/{id}/turns:         *)
(* SessionTurnService.CreateTurn authorizes it and proposes a turn,        *)
(* TurnAdmitter.AdmitTurn has it planned by the session, has the engine    *)
(* build its genesis checkpoint and sends the enqueue command, which       *)
(* carries the event sequence the plan was made for.  A retry proposes     *)
(* another turn under the same key.                                        *)
(*                                                                         *)
(* The start of a provider call, from DispatchConsumer.StartExactAttempt   *)
(* over the authenticated claim (stateappadapter, stateappclient): a       *)
(* consumer presents a dispatch permit and the digest of the provider      *)
(* command; the command identifier is derived from both, so that a         *)
(* repeated claim finds the receipt of the first.                          *)
(*                                                                         *)
(* The session meanwhile runs, recovers, aborts and settles turns,         *)
(* switches revisions and rotates generations.  AdmissionSpec and          *)
(* ClaimsSpec are the session with one of the two callers each.            *)
(***************************************************************************)
EXTENDS Session

CONSTANTS
  Calls,           \* concurrent public requests
  Digests,         \* request digests: what a caller may ask for under a key
  MaxAbandoned,    \* bound on answers that are lost or not waited for
  Consumers,       \* callers of StartExactAttempt
  Starters,        \* the services that have a starter
  CommandDigests,  \* provider commands a consumer may present
  MaxLost          \* bound on lost answers

AdmissionBounds == MaxAbandoned \in Nat /\ None \notin Digests
ClaimBounds == MaxLost \in Nat /\ Starters \subseteq Services

VARIABLES
  calls,          \* the request each caller has under way
  commands,       \* enqueue commands sent and not yet executed
  digests,        \* per key, the request digest of its receipt
  answers,        \* per key, the turns callers were told
  abandoned       \* counts the answers given up

VARIABLES
  consumers,  \* the claim each consumer waits for
  claims,     \* claim commands on their way
  receipts,   \* the receipts of executed claims
  starts,     \* per effect, the attempts its provider was started for, in order
  lost        \* counts the answers given up

callVars == <<calls, commands, digests, answers, abandoned>>
admissionVars == <<vars, callVars>>

NoCall == [phase |-> "idle", key |-> None, digest |-> None, turn |-> None, gen |-> 0,
           seq |-> 0, revision |-> None, expires |-> 0]

AdmissionInit ==
  /\ Init
  /\ calls = [c \in Calls |-> NoCall]
  /\ commands = {} /\ abandoned = 0
  /\ digests = [k \in Keys |-> None]
  /\ answers = [k \in Keys |-> {}]

----------------------------------------------------------------------------
(* platformd: the public request. *)

AuthorizationGeneration == IF Kinds = {} THEN 0 ELSE generations[CHOOSE k \in Kinds : TRUE]

\* What the handler makes of a request it accepts: one idempotency key and the digest
\* of the messages it decoded; anything else is refused before a turn is proposed
DecodedRequests == [key : Keys, digest : Digests]

Proposed == {calls[c].turn : c \in Calls} \cup {m.turn : m \in commands}

\* CreateTurn up to the permit: the request is authorized and a new turn is proposed
CreateTurn(c, request, t) ==
  /\ calls[c].phase = "idle"
  /\ t \notin Range(knownTurnIds) \cup Proposed
  /\ calls' = [calls EXCEPT ![c] = [NoCall EXCEPT !.phase = "authorized", !.key = request.key,
                                                  !.digest = request.digest,
                                                  !.turn = t, !.gen = AuthorizationGeneration]]
  /\ UNCHANGED <<vars, commands, digests, answers, abandoned>>

\* The caller is told the turn and its status at admission
Answered(c, turn, activated) ==
  /\ answers' = [answers EXCEPT ![calls[c].key] =
                   @ \cup {[digest |-> calls[c].digest, turn |-> turn, activated |-> activated]}]
  /\ calls' = [calls EXCEPT ![c] = NoCall]

\* Any error: the caller is told to try again or not, and knows no turn
Failed(c) == calls' = [calls EXCEPT ![c] = NoCall] /\ UNCHANGED answers

----------------------------------------------------------------------------
(* The session's answer to a planning query. *)

AcceptsTurns ==
  /\ runtimePointer.candidate = None
  /\ activeTurn # None => activeTurn.status # "needs_confirmation"

\* Variant of PlanAuthority: a caller with a receipt is not asked for its authority.
PlanAuthorityUnlessReplayed(call) ==
  call.gen = AuthorizationGeneration \/ admissions[call.key] # None

\* Checked before any receipt is read
PlanAuthority(call) == call.gen = AuthorizationGeneration

\* The key was admitted for this very request: the plan is its receipt
PlanReplay(call) == admissions[call.key] # None /\ digests[call.key] = call.digest

\* A plan for a new turn: the sequence, the revision and the lease to admit it with
Planned(call, expires) ==
  [call EXCEPT !.phase = "planned", !.seq = eventSequence,
               !.revision = runtimePointer.active, !.expires = expires]

PlanAdmission(c, expires) ==
  LET call == calls[c]
  IN  /\ call.phase = "authorized"
      /\ \/ /\ PlanAuthority(call) /\ PlanReplay(call)
            /\ Answered(c, admissions[call.key].turn, admissions[call.key].activated)
         \/ /\ PlanAuthority(call) /\ admissions[call.key] = None /\ AcceptsTurns
            /\ now < expires
            /\ calls' = [calls EXCEPT ![c] = Planned(call, expires)]
            /\ UNCHANGED answers
         \/ /\ \/ ~PlanAuthority(call)
               \/ admissions[call.key] # None /\ ~PlanReplay(call)
               \/ admissions[call.key] = None /\ ~AcceptsTurns
            /\ Failed(c)
      /\ UNCHANGED <<vars, commands, digests, abandoned>>

\* The engine's checkpoint is for the planned revision, or it is not used
ValidGenesis(call, revision) == revision = call.revision

AdmissionCommand(call) == [call EXCEPT !.phase = "admitting"]

\* The engine builds the genesis checkpoint, and the command is signed and sent
CreateGenesis(c, revision) ==
  /\ calls[c].phase = "planned"
  /\ IF ValidGenesis(calls[c], revision)
     THEN /\ calls' = [calls EXCEPT ![c] = AdmissionCommand(calls[c])]
          /\ commands' = commands \cup {AdmissionCommand(calls[c])}
          /\ UNCHANGED answers
     ELSE Failed(c) /\ UNCHANGED commands
  /\ UNCHANGED <<vars, digests, abandoned>>

----------------------------------------------------------------------------
(* The session executes the command, now or later. *)

Waiting(m) == {c \in Calls : calls[c] = m}

\* A replayed admission names the turn of the receipt, not the proposed one
ReplayedTurn(m) == admissions[m.key].turn

\* The answer reaches the caller that still waits for it, or nobody
Deliver(m, turn, activated) ==
  \/ \E c \in Waiting(m) : Answered(c, turn, activated) /\ UNCHANGED abandoned
  \/ Waiting(m) = {} /\ UNCHANGED <<calls, answers, abandoned>>

DeliverFailure(m) ==
  \/ \E c \in Waiting(m) : Failed(c) /\ UNCHANGED abandoned
  \/ Waiting(m) = {} /\ UNCHANGED <<calls, answers, abandoned>>

\* checkpointMatchesSession, the lease, and the sequence the command was planned for
Admissible(m) ==
  /\ m.seq = eventSequence
  /\ m.revision = runtimePointer.active
  /\ now < m.expires

\* A new admission: the turn is enqueued and the receipt binds the key to the request
ExecuteAdmission(m) ==
  /\ m \in commands /\ m.gen = AuthorizationGeneration
  /\ admissions[m.key] = None /\ Admissible(m)
  /\ EnqueueTurn(m.turn, m.expires, m.key)
  /\ digests' = [digests EXCEPT ![m.key] = m.digest]
  /\ commands' = commands \ {m}
  /\ Deliver(m, m.turn, activeTurn = None)

\* The key was admitted meanwhile: the receipt answers, whatever the sequence is now
ReplayAdmission(m) ==
  /\ m \in commands /\ m.gen = AuthorizationGeneration
  /\ admissions[m.key] # None /\ digests[m.key] = m.digest
  /\ commands' = commands \ {m}
  /\ Deliver(m, ReplayedTurn(m), admissions[m.key].activated)
  /\ UNCHANGED <<vars, digests>>

\* Refused: stale authority, the key of another request, a session that moved on
RefuseAdmission(m) ==
  /\ m \in commands
  /\ \/ m.gen # AuthorizationGeneration
     \/ admissions[m.key] # None /\ digests[m.key] # m.digest
     \/ admissions[m.key] = None /\ ~(Admissible(m) /\ ENABLED EnqueueTurn(m.turn, m.expires, m.key))
  /\ commands' = commands \ {m}
  /\ DeliverFailure(m)
  /\ UNCHANGED <<vars, digests>>

\* A cancelled or timed out request, a lost query, a failed engine, a lost answer:
\* the caller knows nothing and a command that was sent is still on its way
Abandon(c) ==
  /\ abandoned < MaxAbandoned
  /\ calls[c].phase # "idle"
  /\ Failed(c)
  /\ abandoned' = abandoned + 1
  /\ UNCHANGED <<vars, commands, digests>>

----------------------------------------------------------------------------
\* Everything else the session does; its own turns have identifiers of their own
StepBesideCalls ==
  /\ Next
  /\ Range(knownTurnIds') \cap Proposed \subseteq Range(knownTurnIds)
  /\ UNCHANGED <<admissions, callVars>>

AdmissionNext ==
  \/ StepBesideCalls
  \/ \E c \in Calls, request \in DecodedRequests, t \in Turns : CreateTurn(c, request, t)
  \/ \E c \in Calls, x \in Time : PlanAdmission(c, x)
  \/ \E c \in Calls, revision \in Revisions : CreateGenesis(c, revision)
  \/ \E c \in Calls : Abandon(c)
  \/ \E m \in commands : ExecuteAdmission(m) \/ ReplayAdmission(m) \/ RefuseAdmission(m)

----------------------------------------------------------------------------
(* Start claims. *)

claimVars == <<consumers, claims, receipts, starts, lost>>

NoClaim == [phase |-> "idle", command |-> {}]

ClaimsInit ==
  /\ Init
  /\ consumers = [c \in Consumers |-> NoClaim]
  /\ claims = {} /\ receipts = {} /\ lost = 0
  /\ starts = [e \in Effects |-> << >>]

----------------------------------------------------------------------------
(* The consumer's side. *)

\* The services the consumer was built with a starter for
HasStarter(p) == effects[p.effect].service \in Starters

\* What the adapter refuses to send: a permit that is late by the caller's own clock
WellFormed(p) == now < p.deadline

\* The command of a permit and a provider command; its identifier is a hash of both
ClaimCommand(p, digest) == [permit |-> p, digest |-> digest]

StartExactAttempt(c, p, digest) ==
  /\ consumers[c].phase = "idle" /\ HasStarter(p) /\ WellFormed(p)
  /\ consumers' = [consumers EXCEPT ![c] = [phase |-> "claiming",
                                            command |-> {ClaimCommand(p, digest)}]]
  /\ claims' = claims \cup {ClaimCommand(p, digest)}
  /\ UNCHANGED <<vars, receipts, starts, lost>>

\* What the client accepts as the answer to its claim
ValidAnswer(p, a) ==
  /\ a.fresh # a.replayed
  /\ a.claimed > p.seq /\ a.claimed <= a.version
  /\ a.fresh => a.version = a.claimed

\* Variant of StartsProvider: a claim that was replayed starts the provider too.
StartsProviderAlways(a) == TRUE

\* Only a fresh claim is the right to start
StartsProvider(a) == a.fresh

\* The answer reaches one consumer that waits for this command, or nobody
Answer(m, a) ==
  \/ \E c \in Consumers :
       /\ consumers[c].command = {m}
       /\ consumers' = [consumers EXCEPT ![c] = NoClaim]
       /\ starts' = IF ValidAnswer(m.permit, a) /\ StartsProvider(a)
                    THEN [starts EXCEPT ![m.permit.effect] = Append(@, m.permit.attempt)]
                    ELSE starts
  \/ /\ \A c \in Consumers : consumers[c].command # {m}
     /\ UNCHANGED <<consumers, starts>>

\* Every refusal is an error and starts nothing
AnswerRefused(m) ==
  /\ consumers' = [c \in Consumers |->
                     IF consumers[c].command = {m} THEN NoClaim ELSE consumers[c]]
  /\ UNCHANGED starts

----------------------------------------------------------------------------
(* The session's side. *)

ReceiptsOf(m) == {x \in receipts : x.command = m}

\* A command executed once may arrive again
Executed(m) == claims' \in {claims, claims \ {m}}

ClaimFresh(m) ==
  /\ ReceiptsOf(m) = {}
  /\ ClaimDispatchStart(m.permit)
  /\ receipts' = receipts \cup {[command |-> m, claimed |-> eventSequence + 1]}
  /\ Answer(m, [fresh |-> TRUE, replayed |-> FALSE, claimed |-> eventSequence + 1,
                version |-> eventSequence + 1])

\* The receipt must still describe the durable start of the effect
ReplayMatches(x) ==
  LET p == x.command.permit
  IN  effects[p.effect].dispatch.start = x.claimed /\ MatchesDispatch(p)

ClaimReplayed(m) ==
  /\ \E x \in ReceiptsOf(m) :
       /\ ReplayMatches(x)
       /\ Answer(m, [fresh |-> FALSE, replayed |-> TRUE, claimed |-> x.claimed,
                     version |-> eventSequence])
  /\ UNCHANGED <<vars, receipts>>

ClaimRefused(m) ==
  /\ \/ \E x \in ReceiptsOf(m) : ~ReplayMatches(x)
     \/ ReceiptsOf(m) = {} /\ ~Claimable(m.permit)
  /\ AnswerRefused(m)
  /\ UNCHANGED <<vars, receipts>>

ExecuteClaim(m) ==
  /\ ClaimFresh(m) \/ ClaimReplayed(m) \/ ClaimRefused(m)
  /\ Executed(m)
  /\ UNCHANGED lost

\* A timeout, or an answer that is lost on its way: the caller knows nothing
LoseAnswer(c) ==
  /\ lost < MaxLost /\ consumers[c].phase = "claiming"
  /\ consumers' = [consumers EXCEPT ![c] = NoClaim]
  /\ lost' = lost + 1
  /\ UNCHANGED <<vars, claims, receipts, starts>>

StepBesideClaims ==
  /\ TurnNext \/ EffectNext \/ PointerNext \/ Tick
  /\ UNCHANGED claimVars

ClaimsNext ==
  \/ StepBesideClaims
  \/ \E c \in Consumers, p \in permits, d \in CommandDigests : StartExactAttempt(c, p, d)
  \/ \E m \in claims : ExecuteClaim(m)
  \/ \E c \in Consumers : LoseAnswer(c)

----------------------------------------------------------------------------
(* Correctness. *)

\* However often a request is retried, given up and executed late, all answers under
\* its key name one turn, the one the session admitted for that very request.
OneAnswer ==
  \A k \in Keys : \A a \in answers[k] :
    /\ admissions[k] # None
    /\ a = [digest |-> digests[k], turn |-> admissions[k].turn,
            activated |-> admissions[k].activated]

\* A receipt does not outlive the authority of its caller: nobody is told a turn under
\* an authorization generation that was rotated after the request was authorized.
AnswersAreAuthorized ==
  [][\A c \in Calls : answers' # answers /\ calls'[c] # calls[c]
       => calls[c].gen = AuthorizationGeneration]_admissionVars

\* Over all consumers, commands, repeats and lost answers the provider of an effect is
\* started at most once, and for the attempt whose start the session has recorded.
StartsOnce ==
  \A e \in Effects :
    /\ Len(starts[e]) <= 1
    /\ \A i \in DOMAIN starts[e] :
         \E x \in receipts : /\ x.command.permit.effect = e
                             /\ x.command.permit.attempt = starts[e][i]
=============================================================================
