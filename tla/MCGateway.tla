----------------------------- MODULE MCGateway -----------------------------
(***************************************************************************)
(* The way of an effect to its provider, checked side by side: the broker  *)
(* that dispatches and recovers it, the ledger of provider calls, the      *)
(* celld host that keeps durable state, the MCP gateway with its machine   *)
(* and the requests of a server, the model gateway, and the native quota.  *)
(* A behaviour is of one part.  The parts are never mixed, so instances    *)
(* may share variables; those of the other parts do not move.              *)
(***************************************************************************)
EXTENDS EffectBroker, TLC

CONSTANTS
  Parts,                   \* the parts a run explores
  x1, x2, x3,              \* interchangeable callers of one part
  y1, y2,                  \* interchangeable commands, invocations, operation keys
  sample, elicit, roots    \* requests of a server

VARIABLES
  part,                    \* the part this behaviour is of
  faults, stable, epoch, provider, durable, answers, slot, fence, worker,  \* of several parts
  entry, starter, published, reader, seen,                                 \* ProviderDispatch
  object, host, calls,                                                     \* CelldBridge
  effect, start, claim, run, tomb,                                         \* McpGateway
  parent, request, active, required, reconciling, count, child, asked, audits,
                                                                           \* McpServerRequests
  stage, modelOwner, quota, decision, gen,                                 \* ModelGateway
  state, caller, live, session                                             \* NativeQuota

\* An effect that is replayed only when the user confirms it
Confirming == INSTANCE EffectBroker WITH Policies <- {"confirm"}, MaxOther <- 2, MaxGeneration <- 1

\* Result bodies a publisher may bring: what the ledger recorded, or something else
Results == [facts : {"recorded", "other"}, rest : {1, 2}]

\* Two starters with two commands; three starters with one
ModelDispatch == INSTANCE ProviderDispatch WITH
  Starters <- {x1, x2}, Commands <- {y1, y2}, Bodies <- Results, Service <- "model", MaxFaults <- 2
McpDispatch == INSTANCE ProviderDispatch WITH
  Starters <- {x1, x2, x3}, Commands <- {y1}, Bodies <- Results, Service <- "mcp", MaxFaults <- 1

\* Two hosts of one object, with two commands, one of which rotates the authority
Celld == INSTANCE CelldBridge WITH
  Hosts <- {x1, x2}, Ids <- {"c", "rotate"}, Rotate <- "rotate", Inputs <- {"x", "y"},
  MaximumAttempts <- 2, MaxCalls <- 2, MaxFaults <- 1
CelldCalls == INSTANCE CelldBridge WITH
  Hosts <- {x1, x2}, Ids <- {"c", "rotate"}, Rotate <- "rotate", Inputs <- {"x"},
  MaximumAttempts <- 2, MaxCalls <- 1, MaxFaults <- 2

\* The machine of a tool call alone, under every replay policy
Both == {[id |-> TRUE, commitID |-> TRUE]}
CommitOnly == {[id |-> FALSE, commitID |-> TRUE]}

Machine == INSTANCE McpMachine WITH
  Policies <- {"safe", "idempotency_key", "never", "confirm"}, MaxAutomaticRetries <- 1,
  MaxConfirmationRetries <- 1, MaxChunks <- 1, MaxEvents <- 26

\* Two workers and a tool that must not be replayed; one worker and a confirmed replay
Never == INSTANCE McpGateway WITH
  Workers <- {x1, x2}, Answers <- Both, Policies <- {"never"}, MaxAutomaticRetries <- 0,
  MaxConfirmationRetries <- 0, MaxChunks <- 1, MaxEvents <- 12, MaxFaults <- 1
Confirm == INSTANCE McpGateway WITH
  Workers <- {x1}, Answers <- CommitOnly, Policies <- {"confirm"}, MaxAutomaticRetries <- 0,
  MaxConfirmationRetries <- 1, MaxChunks <- 1, MaxEvents <- 23, MaxFaults <- 0

\* One worker, a crash or a lease that runs out, and a provider that keeps a ledger or not
Resting == INSTANCE McpGateway WITH
  Workers <- {x1}, Answers <- Both, Policies <- {"never"}, MaxAutomaticRetries <- 0,
  MaxConfirmationRetries <- 0, MaxChunks <- 1, MaxEvents <- 12, MaxFaults <- 1

\* A server that samples and elicits, or samples and lists the roots
MethodOf(r) == CASE r = sample -> "sampling" [] r = elicit -> "elicitation" [] OTHER -> "roots"

Serving == INSTANCE McpServerRequests WITH
  Workers <- {x1, x2}, Requests <- {sample, elicit}, Method <- MethodOf, MaxRequests <- 1,
  MaxChunks <- 1, MaxFaults <- 1
Ending == INSTANCE McpServerRequests WITH
  Workers <- {x1, x2}, Requests <- {sample, roots}, Method <- MethodOf, MaxRequests <- 1,
  MaxChunks <- 0, MaxFaults <- 1

\* Two owners of a model effect that may be retried but not retrieved; two generations, a fault
\* and retrieval
Model == INSTANCE ModelGateway WITH
  owner <- modelOwner, Owners <- {x1, x2}, MaxEvents <- 6, MaxPreDispatchRetries <- 1,
  Retrieval <- FALSE, MaxTakeovers <- 0, MaxFaults <- 1
Takeover == INSTANCE ModelGateway WITH
  owner <- modelOwner, Owners <- {x1, x2}, MaxEvents <- 5, MaxPreDispatchRetries <- 0,
  Retrieval <- TRUE, MaxTakeovers <- 1, MaxFaults <- 1

\* Two invocations, quota for one: a storage crash, or two generations
Crashing == INSTANCE NativeQuota WITH
  Invocations <- {y1, y2}, Callers <- {x1, x2}, Limit <- 1, MaxGen <- 1, MaximumRecords <- 6,
  MaxCrashes <- 1
Rotating == INSTANCE NativeQuota WITH
  Invocations <- {y1, y2}, Callers <- {x1, x2}, Limit <- 1, MaxGen <- 2, MaximumRecords <- 6,
  MaxCrashes <- 0

ASSUME ModelDispatch!ServiceAssumption /\ McpDispatch!ServiceAssumption
ASSUME Celld!RotateAssumption /\ CelldCalls!RotateAssumption
ASSUME Machine!RegistrationAccepted /\ Never!RegistrationAccepted /\ Confirm!RegistrationAccepted
ASSUME Resting!RegistrationAccepted /\ Resting!AnswersAccepted
ASSUME Never!AnswersAccepted /\ Confirm!AnswersAccepted
ASSUME Serving!RequestsAccepted /\ Ending!RequestsAccepted
ASSUME Model!BudgetAssumption /\ Takeover!BudgetAssumption
ASSUME Crashing!LimitAssumption /\ Rotating!LimitAssumption

dispatchVars == <<entry, starter, published, reader, seen>>
celldVars == <<object, host, calls>>
mcpVars == <<start, claim, run, tomb>>
requestVars == <<parent, request, active, required, reconciling, count, child, asked, audits>>
modelVars == <<stage, modelOwner, quota, decision, gen>>
quotaVars == <<state, caller, live, session>>
ledgerVars == <<stable, epoch>>
gatewayVars ==
  <<part, vars, faults, ledgerVars, provider, durable, answers, slot, fence, worker, effect,
    dispatchVars, celldVars, mcpVars, requestVars, modelVars, quotaVars>>

NoDispatch == entry = 0 /\ starter = 0 /\ published = 0 /\ reader = 0 /\ seen = 0
NoCelld == object = 0 /\ host = 0 /\ calls = 0
NoMcp == start = 0 /\ claim = 0 /\ run = 0 /\ tomb = 0
NoRequests ==
  /\ parent = 0 /\ request = 0 /\ active = 0 /\ required = 0 /\ reconciling = 0 /\ count = 0
  /\ child = 0 /\ asked = 0 /\ audits = 0
NoModel == stage = 0 /\ modelOwner = 0 /\ quota = 0 /\ decision = 0 /\ gen = 0
NoNative == state = 0 /\ caller = 0 /\ live = 0 /\ session = 0
NoLedger == stable = 0 /\ epoch = 0
NoTurn == slot = 0 /\ fence = 0 /\ worker = 0

\* What a part has of its own, and nothing of the others
DispatchOnly ==
  /\ durable = 0 /\ answers = 0 /\ NoTurn /\ effect = 0 /\ NoCelld /\ NoMcp /\ NoRequests
  /\ NoModel /\ NoNative
CelldOnly ==
  /\ NoLedger /\ provider = 0 /\ NoTurn /\ effect = 0 /\ NoDispatch /\ NoMcp /\ NoRequests
  /\ NoModel /\ NoNative
McpOnly ==
  /\ NoLedger /\ provider = 0 /\ durable = 0 /\ answers = 0 /\ NoDispatch /\ NoCelld
  /\ NoRequests /\ NoModel /\ NoNative
RequestsOnly ==
  /\ NoLedger /\ provider = 0 /\ durable = 0 /\ effect = 0 /\ NoDispatch /\ NoCelld /\ NoMcp
  /\ NoModel /\ NoNative
ModelOnly ==
  /\ NoLedger /\ answers = 0 /\ NoTurn /\ effect = 0 /\ NoDispatch /\ NoCelld /\ NoMcp
  /\ NoRequests /\ NoNative
QuotaOnly ==
  /\ faults = 0 /\ provider = 0 /\ durable = 0 /\ answers = 0 /\ NoTurn /\ effect = 0
  /\ NoDispatch /\ NoCelld /\ NoMcp /\ NoRequests /\ NoModel

PartInit ==
  /\ part \in Parts
  /\ IF part = "confirming" THEN Confirming!Init ELSE Init
  /\ CASE part \in {"broker", "confirming"} ->
            /\ faults = 0 /\ NoLedger /\ provider = 0 /\ durable = 0 /\ answers = 0 /\ NoTurn
            /\ effect = 0 /\ NoDispatch /\ NoCelld /\ NoMcp /\ NoRequests /\ NoModel /\ NoNative
       [] part = "model dispatch" -> ModelDispatch!Init /\ DispatchOnly
       [] part = "mcp dispatch" -> McpDispatch!Init /\ DispatchOnly
       [] part = "celld"        -> Celld!Init /\ CelldOnly
       [] part = "celld calls"  -> CelldCalls!Init /\ CelldOnly
       [] part = "machine"      -> Machine!MachineInit /\ faults = 0 /\ NoTurn /\ NoMcp /\ McpOnly
       [] part = "never"        -> Never!Init /\ McpOnly
       [] part = "confirm"      -> Confirm!Init /\ McpOnly
       [] part = "resting"      -> Resting!Init /\ McpOnly
       [] part = "serving"      -> Serving!Init /\ RequestsOnly
       [] part = "ending"       -> Ending!Init /\ RequestsOnly
       [] part = "model"        -> Model!Init /\ ModelOnly
       [] part = "takeover"     -> Takeover!Init /\ ModelOnly
       [] part = "crashing"     -> Crashing!Init /\ QuotaOnly
       [] part = "rotating"     -> Rotating!Init /\ QuotaOnly

PartNext ==
  \/ /\ \/ part = "broker" /\ Next
        \/ part = "confirming" /\ Confirming!Next
     /\ UNCHANGED <<part, faults, ledgerVars, provider, durable, answers, slot, fence, worker,
                    effect, dispatchVars, celldVars, mcpVars, requestVars, modelVars, quotaVars>>
  \/ /\ \/ part = "model dispatch" /\ ModelDispatch!Next
        \/ part = "mcp dispatch" /\ McpDispatch!Next
     /\ UNCHANGED <<part, vars, durable, answers, slot, fence, worker, effect, celldVars, mcpVars,
                    requestVars, modelVars, quotaVars>>
  \/ /\ \/ part = "celld" /\ Celld!Next
        \/ part = "celld calls" /\ CelldCalls!Next
     /\ UNCHANGED <<part, vars, ledgerVars, provider, slot, fence, worker, effect, dispatchVars,
                    mcpVars, requestVars, modelVars, quotaVars>>
  \/ /\ \/ part = "machine" /\ Machine!MachineNext /\ UNCHANGED <<faults, slot, fence, worker, mcpVars>>
        \/ part = "never" /\ Never!Next
        \/ part = "confirm" /\ Confirm!Next
        \/ part = "resting" /\ Resting!Next
     /\ UNCHANGED <<part, vars, ledgerVars, provider, durable, answers, dispatchVars, celldVars,
                    requestVars, modelVars, quotaVars>>
  \/ /\ \/ part = "serving" /\ Serving!Next
        \/ part = "ending" /\ Ending!Next
     /\ UNCHANGED <<part, vars, ledgerVars, provider, durable, effect, dispatchVars, celldVars,
                    mcpVars, modelVars, quotaVars>>
  \/ /\ \/ part = "model" /\ Model!Next
        \/ part = "takeover" /\ Takeover!Next
     /\ UNCHANGED <<part, vars, ledgerVars, answers, slot, fence, worker, effect, dispatchVars,
                    celldVars, mcpVars, requestVars, quotaVars>>
  \/ /\ \/ part = "crashing" /\ Crashing!Next
        \/ part = "rotating" /\ Rotating!Next
     /\ UNCHANGED <<part, vars, faults, provider, durable, answers, slot, fence, worker, effect,
                    dispatchVars, celldVars, mcpVars, requestVars, modelVars>>

PartSpec == PartInit /\ [][PartNext]_gatewayVars

\* Callers of celld repeat their calls; the supervising loop executes and recovers a tool call
\* and asks its ledger again, recovery of a server's requests runs again after every failure;
\* transports, flushes, brokers and providers come to their end, and leases run out.
celldAll == <<celldVars, durable, answers, faults>>
mcpAll == <<effect, mcpVars, slot, fence, worker, faults>>
requestsAll == <<requestVars, slot, fence, answers, worker, faults>>

CelldFairness ==
  /\ WF_celldAll(part = "celld calls" /\ CelldCalls!Flush)
  /\ \A h \in {x1, x2} : WF_celldAll(part = "celld calls" /\ CelldCalls!HostStep(h))

McpFairness ==
  /\ WF_mcpAll(part = "resting" /\ Resting!Execute(x1))
  /\ WF_mcpAll(part = "resting" /\ Resting!CancelSteps(x1))
  /\ WF_mcpAll(part = "resting" /\ Resting!RecoverSteps(x1))
  /\ SF_mcpAll(part = "resting" /\ Resting!Answered(x1))
  /\ WF_mcpAll(part = "resting" /\ Resting!ProviderSteps(1))
  /\ WF_mcpAll(part = "resting" /\ Resting!StartLeaseExpires(1))
  /\ WF_mcpAll(part = "resting" /\ Resting!ClaimLeaseExpires(1))

RequestFairness ==
  /\ \A w \in {x1, x2} :
       /\ WF_requestsAll(part = "ending" /\ Ending!HandleSteps(w))
       /\ WF_requestsAll(part = "ending" /\ Ending!ReconcileSteps(w))
       /\ WF_requestsAll(part = "ending" /\ Ending!AuditSteps(w))
  /\ SF_requestsAll(part = "ending" /\ \E w \in {x1, x2} : Ending!ReconcileServerRequests(w))
  /\ SF_requestsAll(part = "ending" /\ \E w \in {x1, x2} : Ending!FlushAudit(w))
  /\ WF_requestsAll(part = "ending" /\ required # None /\ Ending!RequestCancel)
  /\ WF_requestsAll(part = "ending" /\ Ending!ResolveCancellation)
  /\ \A r \in {sample, roots} : /\ WF_requestsAll(part = "ending" /\ Ending!ChildEnds(r))
                                /\ WF_requestsAll(part = "ending" /\ Ending!LeaseExpires(r))

FairPartSpec == PartSpec /\ CelldFairness /\ McpFairness /\ RequestFairness

Symmetry == Permutations({x1, x2}) \cup Permutations({y1, y2})

----------------------------------------------------------------------------
\* The provider is called at most once for an attempt whoever holds its claim and whatever the
\* storage forgets; what the ledger says of it is true, and a result that was shown agrees with
\* a committed fact and with every other showing of it.  The invocations the provider may have
\* served never cost more than the quota, and an answered reservation outlives a crash.
LedgerTrue ==
  /\ part = "model dispatch" => /\ ModelDispatch!StartedOnce /\ ModelDispatch!TerminalIsTrue
                                /\ ModelDispatch!ReadersAgree /\ ModelDispatch!SeenAsRecorded
  /\ part = "mcp dispatch" => /\ McpDispatch!AbsentMeansUnsent /\ McpDispatch!TerminalIsTrue
                              /\ McpDispatch!EntryDecodes
  /\ part = "crashing" => Crashing!SpendWithinLimit /\ Crashing!PublishedIsKept

\* A command of a celld object is applied once whatever is lost, repeated or raced; what was
\* answered is durable, was authorized by the state it was committed on, and a callback whose
\* commit was applied is not evaluated again.
CommandsOnce ==
  part = "celld" => /\ Celld!AppliedOnce /\ Celld!AnswersAreDurable /\ Celld!ReplayIsFenced
                    /\ Celld!NoCallbackReplay


\* At most one model request reaches the provider; a stored cancellation means none did; quota
\* is settled for the stored snapshot, given back only when the provider has done nothing, and
\* as the operator decided; and the event budget leaves room to cancel and to classify.
ModelSound ==
  /\ part = "model" => /\ Model!SentOnce /\ Model!SettledIsDurable /\ Model!DecisionStands
                       /\ Model!BudgetSuffices
  /\ part = "takeover" => Takeover!CancelledNeverSent /\ Takeover!ReleaseIsDeserved


\* The gateway implements the machine: its workers only ever store what an event of McpMachine
\* leads to, whatever they read before and whoever stored in between.
GatewayImplementsMachine ==
  [][part = "never" => Never!ImplementsMachine]_gatewayVars

\* Every call of a celld object that began is answered, or told that its authority is gone or
\* its identifier taken, although each attempt may lose a race or a reply; a tool call ends or
\* waits for its user, and what its provider committed and keeps in its ledger is settled.
CallsComeToRest ==
  /\ \A h \in {x1, x2} : part = "celld calls" /\ CelldCalls!Begun(h)
                         ~> part = "celld calls" /\ CelldCalls!Ended(h)
  /\ <>[](part = "resting" => Resting!AtRest)
  /\ part = "resting" /\ Resting!CommittedInLedger ~> part = "resting" /\ effect.state = "completed"

\* A request of a server whose owner is gone does not stop its parent for good; a child, and a
\* parent, that must be cancelled are; what was decided reaches the audit sink.
ServerRequestsEnd ==
  /\ part = "ending" /\ active # None
     ~> part = "ending" /\ (active = None \/ parent.state # "running")
  /\ part = "ending" /\ reconciling # None ~> part = "ending" /\ reconciling = None
  /\ part = "ending" /\ required # None ~> part = "ending" /\ required = None
  /\ \A n \in 1 .. 2 : part = "ending" /\ n \in audits.pending
                        ~> part = "ending" /\ n \in audits.delivered
=============================================================================
