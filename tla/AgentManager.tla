---------------------------- MODULE AgentManager ----------------------------
(***************************************************************************)
(* The process-shard manager of agentd (internal/agent/manager.go).        *)
(*                                                                         *)
(* Manager.Acquire places a session on a workerd shard, launching one if   *)
(* none fits.  Launches and stops run outside manager.mu; every action     *)
(* below is one critical section, or the completion of one external call.  *)
(* A shard process is named by its shard generation, which is never used   *)
(* twice; its shard ID may be reused by a retried launch of its scope.     *)
(***************************************************************************)
EXTENDS Integers, FiniteSets, Sequences, FiniteSetsExt, SequencesExt

CONSTANTS
  Callers,          \* goroutines calling the manager
  Requests,         \* placement requests (records, see RequestOK)
  MaximumSessions,  \* limits.MaximumSessions
  Watermark,        \* limits.AdmissionMemoryWatermarkBytes
  MaximumLifetime,  \* limits.MaximumLifetime
  MaxGeneration,    \* bound: shard generations, and the last one there is
  MaxEpoch,         \* bound: stop attempts that fail retryably, per process
  MaxSequence,      \* bound: observation sequences
  MaxNow,           \* bound: clock
  MaxCalls          \* bound: calls begun

ScopeStrength == ("shared" :> 0) @@ ("tenant" :> 1) @@ ("session" :> 2)
IsolationStrength == ("none" :> 0) @@ ("nsjail" :> 1) @@ ("firecracker" :> 2)
Minimum ==
  ("platform" :> <<0, 0>>) @@ ("tenant" :> <<1, 0>>) @@
  ("signed" :> <<1, 1>>) @@ ("unreviewed" :> <<2, 2>>)

ValidateProfile(r) ==
  /\ ScopeStrength[r.scope] >= Minimum[r.trust][1]
  /\ IsolationStrength[r.isolation] >= Minimum[r.trust][2]

RequestOK ==
  \A r \in Requests :
    /\ DOMAIN r = {"session", "tenant", "generation", "trust", "scope",
                   "isolation", "runtime", "memory"}
    /\ r.generation \in Nat \ {0} /\ r.memory \in Nat \ {0}

BoundsOK ==
  /\ {MaximumSessions, Watermark, MaximumLifetime, MaxGeneration} \subseteq Nat \ {0}
  /\ {MaxEpoch, MaxSequence, MaxNow, MaxCalls} \subseteq Nat

VARIABLES
  shards,       \* manager.shards, by shard ID
  placements,   \* manager.placements
  latest,       \* manager.latestGenerations
  released,     \* manager.releasedGenerations
  identity,     \* manager.requestIdentities
  cleanups,     \* manager.releaseCleanups
  pendingSession, pendingScope,  \* the launch a session or a scope waits for
  retryShard,   \* manager.retryShardIDs
  nextShard,    \* manager.nextShardSequence
  nextGeneration, \* manager.nextShardGeneration
  launch,       \* launchPending of each shard generation
  stop,         \* stopPending of each shard generation, newest epoch
  process,      \* external: the OS process of each shard generation
  closed,       \* manager.closed
  gate,         \* manager.shutdownGate is free
  call,         \* what each goroutine is doing
  now, calls,
  answers       \* history: internal errors returned, and clean shutdowns

manager == <<shards, placements, latest, released, identity, cleanups,
             pendingSession, pendingScope, retryShard, nextShard,
             nextGeneration, launch, stop, closed>>
vars == <<shards, placements, latest, released, identity, cleanups,
          pendingSession, pendingScope, retryShard, nextShard, nextGeneration,
          launch, stop, process, closed, gate, call, now, calls, answers>>

Sessions == {r.session : r \in Requests}
Generations == 1..MaxGeneration
None == 0
NoOne == "none"

ScopeKey(r) ==
  <<r.scope, r.isolation, CASE r.scope = "tenant" -> r.tenant
                            [] r.scope = "session" -> r.session
                            [] OTHER -> NoOne>>
Scopes == {ScopeKey(r) : r \in Requests}
Fingerprint(r) ==
  [tenant |-> r.tenant, runtime |-> r.runtime, scope |-> r.scope,
   isolation |-> r.isolation, memory |-> r.memory]
Fingerprints == {Fingerprint(r) : r \in Requests}
NoFingerprint == [memory |-> 0]

NoShard == [generation |-> None]
Shard ==
  [generation : Generations, scope : Scopes, sessions : SUBSET Sessions,
   resident : Nat, rss : Nat, sequence : 0..MaxSequence,
   draining : BOOLEAN, created : 0..MaxNow]
NoPlacement == [shard |-> None, generation |-> 0]
Placement == [shard : Generations, generation : Nat]

\* launchPending: waiters counts the goroutines in waitForLaunch.
LaunchPhases == {"none", "starting", "rejecting", "failed", "ready"}
NoLaunch == [phase |-> "none", shard |-> None, scope |-> <<NoOne, NoOne, NoOne>>,
             sessions |-> {}, waiters |-> 0, abandoned |-> FALSE,
             adopted |-> FALSE, cleanup |-> 0, created |-> 0]
Finished(g) == launch[g].phase \in {"failed", "ready"}

\* stopPending: "tracked" until startOnce fires; "stopped" is deleted.
StopStates == {"none", "tracked", "running", "failed", "terminal", "stopped"}
NoStop == [epoch |-> 0, state |-> "none"]
Tracked(st) == st.state \in {"tracked", "running", "failed", "terminal"}

Idle == [pc |-> "idle"]
\* A goroutine waits at "launch" (waitForLaunch), "barrier" (another launch of
\* its session or scope), "stop" (executeTrackedStop) or "drain" (Shutdown).
Looping(r, at) == [pc |-> "loop", req |-> r, at |-> at]
AtLaunch(r, at, g) == [pc |-> "launch", req |-> r, at |-> at, on |-> g]
AtBarrier(r, at, g) == [pc |-> "barrier", req |-> r, at |-> at, on |-> g]
AtStop(kind, r, at, stops, failed) ==
  [pc |-> "stop", kind |-> kind, req |-> r, at |-> at, on |-> stops, failed |-> failed]

Become(c, state) == call' = [call EXCEPT ![c] = state]
Return(c) == Become(c, Idle)
ReturnInternal(c) == Return(c) /\ answers' = [answers EXCEPT !.internal = TRUE]
-----------------------------------------------------------------------------
(* Stop epochs.                                                            *)

\* selectStopEpochLocked: join, replay a terminal result, or a fresh epoch.
SelectStopEpoch(st) ==
  IF st.state \in {"none", "stopped", "failed"}
  THEN [epoch |-> st.epoch + 1, state |-> "tracked"]
  ELSE st

\* startTrackedStop of one epoch, under its sync.Once.
Started(st, epoch) ==
  IF st.epoch = epoch /\ st.state = "tracked" THEN [st EXCEPT !.state = "running"] ELSE st

StartStop(stops, g) == [stops EXCEPT ![g] = Started(SelectStopEpoch(@), SelectStopEpoch(@).epoch)]
TrackStops(stops, gs) ==
  [g \in Generations |-> IF g \in gs THEN SelectStopEpoch(stops[g]) ELSE stops[g]]
Handle(stops, g) == <<g, stops[g].epoch>>

EpochDone(h) ==
  \/ stop[h[1]].epoch > h[2]
  \/ stop[h[1]].state \in {"failed", "terminal", "stopped"}
EpochFailed(h) == stop[h[1]].epoch > h[2] \/ stop[h[1]].state # "stopped"

StopReturns(g, state) ==
  /\ stop[g].state = "running"
  /\ state = "failed" => stop[g].epoch < MaxEpoch
  /\ stop' = [stop EXCEPT ![g].state = state]
  /\ process' = [process EXCEPT ![g] =
       CASE state = "stopped" -> "gone"
         [] state = "terminal" -> "quarantined"
         [] OTHER -> @]
  /\ UNCHANGED <<shards, placements, latest, released, identity, cleanups,
                 pendingSession, pendingScope, retryShard, nextShard,
                 nextGeneration, launch, closed, gate, call, now, calls, answers>>

\* executeTrackedStop returns to its caller, which goes on to its next stop.
AwaitStop(c) ==
  /\ call[c].pc = "stop"
  /\ EpochDone(Head(call[c].on))
  /\ LET rest == Tail(call[c].on)
         failed == call[c].failed \/ EpochFailed(Head(call[c].on))
     IN  IF rest # << >>
         THEN /\ stop' = [stop EXCEPT ![Head(rest)[1]] = Started(@, Head(rest)[2])]
              /\ Become(c, [call[c] EXCEPT !.on = rest, !.failed = failed])
              /\ UNCHANGED <<gate, answers>>
         ELSE /\ UNCHANGED stop
              /\ IF call[c].kind = "acquire" /\ ~failed
                 THEN Become(c, Looping(call[c].req, call[c].at))
                 ELSE Return(c)
              /\ gate' = (gate \/ call[c].kind = "shutdown")
              /\ answers' = [answers EXCEPT !.drained = @ \/ (call[c].kind = "shutdown" /\ ~failed)]
  /\ UNCHANGED <<shards, placements, latest, released, identity, cleanups,
                 pendingSession, pendingScope, retryShard, nextShard,
                 nextGeneration, launch, process, closed, now, calls>>

\* The context ends while stops are awaited; Acquire still starts the others.
CancelStop(c) ==
  /\ call[c].pc = "stop" /\ call[c].kind # "observe"
  /\ stop' = IF call[c].kind = "acquire"
             THEN [g \in Generations |->
                     IF \E h \in Range(call[c].on) : h[1] = g
                     THEN Started(stop[g], stop[g].epoch) ELSE stop[g]]
             ELSE stop
  /\ Return(c)
  /\ gate' = (gate \/ call[c].kind = "shutdown")
  /\ UNCHANGED <<shards, placements, latest, released, identity, cleanups,
                 pendingSession, pendingScope, retryShard, nextShard,
                 nextGeneration, launch, process, closed, now, calls, answers>>
-----------------------------------------------------------------------------
(* Acquire.                                                                *)

BeginAcquire(c, r) ==
  /\ call[c] = Idle /\ calls < MaxCalls
  /\ ValidateProfile(r)
  /\ r.memory <= Watermark
  /\ Become(c, Looping(r, now))
  /\ calls' = calls + 1
  /\ UNCHANGED <<manager, process, gate, now, answers>>

\* The checks at the head of the loop that return at once.
Refused(r) ==
  \/ closed
  \/ /\ pendingSession[r.session] = None
     /\ \/ r.generation < latest[r.session]
        \/ r.generation = released[r.session]
        \/ /\ r.generation = latest[r.session]
           /\ \/ identity[r.session] # Fingerprint(r)
              \/ placements[r.session] # NoPlacement

JoinLaunch(c, r, g) ==
  /\ launch' = [launch EXCEPT ![g].waiters = @ + 1, ![g].sessions = @ \cup {r.session}]
  /\ Become(c, AtLaunch(r, call[c].at, g))

\* The session already waits for a launch: join it, or wait for its end.
AcquirePending(c) ==
  /\ call[c].pc = "loop" /\ ~closed
  /\ LET r == call[c].req
         g == pendingSession[r.session]
     IN  /\ g # None
         /\ IF /\ ~launch[g].abandoned
               /\ launch[g].scope = ScopeKey(r)
               /\ latest[r.session] = r.generation
               /\ released[r.session] # r.generation
               /\ identity[r.session] = Fingerprint(r)
            THEN JoinLaunch(c, r, g)
            ELSE Become(c, AtBarrier(r, call[c].at, g)) /\ UNCHANGED launch
  /\ UNCHANGED <<shards, placements, latest, released, identity, cleanups,
                 pendingSession, pendingScope, retryShard, nextShard,
                 nextGeneration, stop, closed, process, gate, now, calls, answers>>

\* A newer generation detaches the session from the shard it was placed on.
Supersedes(r) == r.generation > latest[r.session]
OldShard(r) == IF Supersedes(r) THEN placements[r.session].shard ELSE None
Detach(sh, s, memory, sessionScope) ==
  [sh EXCEPT !.sessions = @ \ {s}, !.resident = @ - memory, !.draining = @ \/ sessionScope]
Detached(r) ==
  LET o == OldShard(r)
  IN  IF o = None \/ shards[o] = NoShard
      THEN shards
      ELSE [shards EXCEPT ![o] = Detach(@, r.session, identity[r.session].memory,
                                        identity[r.session].scope = "session")]
Drained(sh) == sh # NoShard /\ sh.draining /\ sh.sessions = {}
Replaced(r) == {o \in {OldShard(r)} \ {None} : Drained(Detached(r)[o])}

Admit(r) ==
  /\ latest' = [latest EXCEPT ![r.session] = r.generation]
  /\ identity' = [identity EXCEPT ![r.session] = Fingerprint(r)]
  /\ placements' = [placements EXCEPT ![r.session] = IF Supersedes(r) THEN NoPlacement ELSE @]

\* The memory account of the old shard would go below zero: an internal error.
Underflows(r) ==
  LET o == OldShard(r)
  IN  o # None /\ shards[o] # NoShard /\ shards[o].resident < identity[r.session].memory

AcquireReturns(c) ==
  /\ call[c].pc = "loop"
  /\ LET r == call[c].req IN
       /\ Refused(r) \/ (pendingSession[r.session] = None /\ Underflows(r))
       /\ answers' = [answers EXCEPT !.internal = @ \/ ~Refused(r)]
       /\ IF Refused(r)
          THEN UNCHANGED <<latest, identity, placements, shards>>
          ELSE /\ Admit(r)
               /\ shards' = [shards EXCEPT ![OldShard(r)].sessions = @ \ {r.session}]
  /\ Return(c)
  /\ UNCHANGED <<released, cleanups, pendingSession, pendingScope, retryShard, nextShard,
                 nextGeneration, launch, stop, closed, process, gate, now, calls>>

Proceeds(c) ==
  /\ call[c].pc = "loop"
  /\ ~Refused(call[c].req)
  /\ pendingSession[call[c].req.session] = None
  /\ ~Underflows(call[c].req)

\* The shard of the replaced placement is empty: stop it before placing.
AcquireReplaces(c) ==
  /\ Proceeds(c)
  /\ LET r == call[c].req
         o == OldShard(r)
         g == shards[o].generation
     IN  /\ Replaced(r) # {}
         /\ Admit(r)
         /\ shards' = [Detached(r) EXCEPT ![o] = NoShard]
         /\ stop' = StartStop(stop, g)
         /\ Become(c, AtStop("acquire", r, call[c].at, <<Handle(stop', g)>>, FALSE))
  /\ UNCHANGED <<released, cleanups, pendingSession, pendingScope, retryShard,
                 nextShard, nextGeneration, launch, closed, process, gate, now, calls, answers>>

PriorStops(scope) == {g \in Generations : Tracked(stop[g]) /\ launch[g].scope = scope}
\* The order of shardProcessKey: shard ID, then generation.
FirstStop(gs) ==
  CHOOSE g \in gs : \A h \in gs :
    \/ launch[g].shard < launch[h].shard
    \/ launch[g].shard = launch[h].shard /\ g <= h

\* Another process of this scope is still being stopped: wait, or retry it.
AcquireAwaitsPrior(c) ==
  /\ Proceeds(c)
  /\ LET r == call[c].req
         g == FirstStop(PriorStops(ScopeKey(r)))
     IN  /\ Replaced(r) = {} /\ PriorStops(ScopeKey(r)) # {}
         /\ Admit(r)
         /\ shards' = Detached(r)
         /\ stop' = StartStop(stop, g)
         /\ Become(c, AtStop("acquire", r, call[c].at, <<Handle(stop', g)>>, FALSE))
  /\ UNCHANGED <<released, cleanups, pendingSession, pendingScope, retryShard,
                 nextShard, nextGeneration, launch, closed, process, gate, now, calls, answers>>

Expired(sh, at) == sh # NoShard /\ at >= sh.created + MaximumLifetime
\* Shards past their lifetime drain; the empty ones leave the map.
Aged(shs, at) == [i \in Generations |->
  IF Expired(shs[i], at) THEN [shs[i] EXCEPT !.draining = TRUE] ELSE shs[i]]
Dead(shs, at) == {i \in Generations : Expired(shs[i], at) /\ shs[i].sessions = {}}

AcquireExpires(c) ==
  /\ Proceeds(c)
  /\ LET r == call[c].req
         dead == Dead(Detached(r), call[c].at)
         gs == {shards[i].generation : i \in dead}
     IN  /\ Replaced(r) = {} /\ PriorStops(ScopeKey(r)) = {} /\ dead # {}
         /\ Admit(r)
         /\ shards' = [i \in Generations |->
                         IF i \in dead THEN NoShard ELSE Aged(Detached(r), call[c].at)[i]]
         /\ \E order \in SetToSeqs(gs) :
              LET tracked == TrackStops(stop, gs) IN
              /\ stop' = [tracked EXCEPT ![order[1]] = Started(@, @.epoch)]
              /\ Become(c, AtStop("acquire", r, call[c].at,
                                  [i \in DOMAIN order |-> Handle(tracked, order[i])], FALSE))
  /\ UNCHANGED <<released, cleanups, pendingSession, pendingScope, retryShard,
                 nextShard, nextGeneration, launch, closed, process, gate, now, calls, answers>>

Used(sh) == IF sh.rss > sh.resident THEN sh.rss ELSE sh.resident
Candidates(shs, r) ==
  {i \in Generations :
    /\ shs[i] # NoShard
    /\ shs[i].scope = ScopeKey(r)
    /\ ~shs[i].draining
    /\ Cardinality(shs[i].sessions) < MaximumSessions
    /\ r.memory <= (Watermark - Used(shs[i])) % 2^8}   \* unsigned subtraction
\* Fewest sessions first, then the shard ID.
Best(shs, ids) ==
  CHOOSE i \in ids : \A j \in ids :
    \/ Cardinality(shs[i].sessions) < Cardinality(shs[j].sessions)
    \/ Cardinality(shs[i].sessions) = Cardinality(shs[j].sessions) /\ i <= j

NoStopNeeded(r, at) ==
  /\ Replaced(r) = {}
  /\ PriorStops(ScopeKey(r)) = {}
  /\ Dead(Detached(r), at) = {}

AcquirePlaces(c) ==
  /\ Proceeds(c)
  /\ LET r == call[c].req
         shs == Aged(Detached(r), call[c].at)
         i == Best(shs, Candidates(shs, r))
     IN  /\ NoStopNeeded(r, call[c].at) /\ Candidates(shs, r) # {}
         /\ latest' = [latest EXCEPT ![r.session] = r.generation]
         /\ identity' = [identity EXCEPT ![r.session] = Fingerprint(r)]
         /\ shards' = [shs EXCEPT ![i].sessions = @ \cup {r.session},
                                  ![i].resident = @ + r.memory]
         /\ placements' = [placements EXCEPT ![r.session] =
                             [shard |-> i, generation |-> r.generation]]
  /\ Return(c)
  /\ UNCHANGED <<released, cleanups, pendingSession, pendingScope, retryShard, nextShard,
                 nextGeneration, launch, stop, closed, process, gate, now, calls, answers>>

\* No shard fits: join the launch of this scope, or wait for one being dropped.
AcquireJoinsScope(c) ==
  /\ Proceeds(c)
  /\ LET r == call[c].req
         shs == Aged(Detached(r), call[c].at)
         g == pendingScope[ScopeKey(r)]
     IN  /\ NoStopNeeded(r, call[c].at) /\ Candidates(shs, r) = {} /\ g # None
         /\ Admit(r)
         /\ shards' = shs
         /\ IF launch[g].abandoned
            THEN Become(c, AtBarrier(r, call[c].at, g)) /\ UNCHANGED <<launch, pendingSession>>
            ELSE /\ JoinLaunch(c, r, g)
                 /\ pendingSession' = [pendingSession EXCEPT ![r.session] = g]
  /\ UNCHANGED <<released, cleanups, pendingScope, retryShard, nextShard, nextGeneration,
                 stop, closed, process, gate, now, calls, answers>>

\* A retried scope keeps its shard ID; any other takes the next one.
NextShard(id) == IF id = nextShard THEN nextShard + 1 ELSE nextShard

\* A new launch; a retried scope reuses its shard ID under a new generation.
AcquireLaunches(c) ==
  /\ Proceeds(c)
  /\ LET r == call[c].req
         scope == ScopeKey(r)
         shs == Aged(Detached(r), call[c].at)
         g == nextGeneration
         id == IF retryShard[scope] # None THEN retryShard[scope] ELSE nextShard
     IN  /\ NoStopNeeded(r, call[c].at) /\ Candidates(shs, r) = {} /\ pendingScope[scope] = None
         /\ Admit(r)
         /\ shards' = shs
         /\ IF g = None
            THEN /\ Return(c)
                 /\ UNCHANGED <<launch, pendingScope, pendingSession, nextShard, nextGeneration>>
            ELSE /\ nextGeneration' = IF g = MaxGeneration THEN None ELSE g + 1
                 /\ nextShard' = NextShard(id)
                 /\ launch' = [launch EXCEPT ![g] =
                      [NoLaunch EXCEPT !.phase = "starting", !.shard = id, !.scope = scope,
                                       !.sessions = {r.session}, !.waiters = 1,
                                       !.created = call[c].at]]
                 /\ pendingScope' = [pendingScope EXCEPT ![scope] = g]
                 /\ pendingSession' = [pendingSession EXCEPT ![r.session] = g]
                 /\ Become(c, AtLaunch(r, call[c].at, g))
  /\ UNCHANGED <<released, cleanups, retryShard, stop, closed, process, gate, now, calls, answers>>

\* The launch it waited for has ended; or the caller's context has.
BarrierEnds(c) ==
  /\ call[c].pc = "barrier"
  /\ Finished(call[c].on)
  /\ Become(c, Looping(call[c].req, call[c].at))
  /\ UNCHANGED <<manager, process, gate, now, calls, answers>>
CancelBarrier(c) ==
  /\ call[c].pc = "barrier"
  /\ Return(c)
  /\ UNCHANGED <<manager, process, gate, now, calls, answers>>
-----------------------------------------------------------------------------
(* The end of a launch.                                                    *)

\* removeLaunchPendingLocked
WithoutLaunch(g) ==
  /\ pendingScope' = [k \in Scopes |-> IF pendingScope[k] = g THEN None ELSE pendingScope[k]]
  /\ pendingSession' = [s \in Sessions |->
       IF s \in launch[g].sessions /\ pendingSession[s] = g THEN None ELSE pendingSession[s]]

\* transferSuccessfulLaunchLocked, then startTrackedStop if start holds.
Transfer(g, start, waiters) ==
  LET tracked == IF launch[g].cleanup = 0 THEN SelectStopEpoch(stop[g]) ELSE stop[g]
      epoch == IF launch[g].cleanup = 0 THEN tracked.epoch ELSE launch[g].cleanup
  IN  /\ launch' = [launch EXCEPT ![g].abandoned = TRUE, ![g].cleanup = epoch,
                                  ![g].waiters = waiters]
      /\ retryShard' = [retryShard EXCEPT ![launch[g].scope] = launch[g].shard]
      /\ WithoutLaunch(g)
      /\ stop' = [stop EXCEPT ![g] = IF start THEN Started(tracked, epoch) ELSE tracked]

Leave(g) == launch' = [launch EXCEPT ![g].waiters = @ - 1]

LastWaiter(g) == launch[g].waiters = 1 /\ ~launch[g].adopted
TransfersOnCancel(g) == LastWaiter(g) /\ launch[g].phase = "ready"

\* waitForLaunch of a caller whose context ended.
LaunchWaiterCancels(c) ==
  /\ call[c].pc = "launch"
  /\ LET g == call[c].on
         last == LastWaiter(g)
     IN  IF TransfersOnCancel(g)
         THEN Transfer(g, TRUE, 0)
         ELSE /\ launch' = [launch EXCEPT ![g].waiters = @ - 1,
                                          ![g].abandoned = @ \/ (last /\ ~Finished(g))]
              /\ retryShard' = [retryShard EXCEPT ![launch[g].scope] =
                                  IF last THEN launch[g].shard ELSE @]
              /\ UNCHANGED <<pendingScope, pendingSession, stop>>
  /\ Return(c)
  /\ UNCHANGED <<shards, placements, latest, released, identity, cleanups, nextShard,
                 nextGeneration, closed, process, gate, now, calls, answers>>

ClaimStale(r) == latest[r.session] # r.generation \/ released[r.session] = r.generation
ClaimConflicts(r) == identity[r.session] # Fingerprint(r)
ClaimBroken(r, g) == shards[launch[g].shard] # NoShard \/ placements[r.session] # NoPlacement
ClaimValid(r, g) == ~ClaimStale(r) /\ ~ClaimConflicts(r) /\ ~ClaimBroken(r, g)

\* waitForLaunch after done: the launch failed, was closed over, adopted by
\* another caller, or this caller's claim no longer stands.
LaunchWaiterLeaves(c) ==
  /\ call[c].pc = "launch"
  /\ LET g == call[c].on
         r == call[c].req
         unadopted == launch[g].phase = "ready" /\ ~launch[g].adopted
         invalid == ~closed /\ unadopted /\ ~ClaimValid(r, g)
         internal == invalid /\ ~ClaimStale(r) /\ ~ClaimConflicts(r)
     IN  /\ Finished(g)
         /\ launch[g].phase = "failed" \/ closed \/ launch[g].adopted \/ invalid
         /\ IF unadopted /\ (closed \/ launch[g].waiters = 1)
            THEN Transfer(g, TRUE, launch[g].waiters - 1)
            ELSE Leave(g) /\ UNCHANGED <<retryShard, pendingScope, pendingSession, stop>>
         /\ IF launch[g].adopted /\ ~closed
            THEN Become(c, Looping(r, call[c].at)) /\ UNCHANGED answers
            ELSE IF internal THEN ReturnInternal(c) ELSE Return(c) /\ UNCHANGED answers
  /\ UNCHANGED <<shards, placements, latest, released, identity, cleanups, nextShard,
                 nextGeneration, closed, process, gate, now, calls>>

\* waitForLaunch: the first valid claim installs the shard.
LaunchWaiterAdopts(c) ==
  /\ call[c].pc = "launch" /\ ~closed
  /\ LET g == call[c].on
         r == call[c].req
         id == launch[g].shard
         scope == launch[g].scope
     IN  /\ launch[g].phase = "ready" /\ ~launch[g].adopted
         /\ ClaimValid(r, g)
         /\ shards' = [shards EXCEPT ![id] =
              [generation |-> g, scope |-> scope, sessions |-> {r.session},
               resident |-> r.memory, rss |-> 0, sequence |-> 0, draining |-> FALSE,
               created |-> launch[g].created]]
         /\ placements' = [placements EXCEPT ![r.session] =
              [shard |-> id, generation |-> r.generation]]
         /\ launch' = [launch EXCEPT ![g].waiters = @ - 1, ![g].adopted = TRUE]
         /\ retryShard' = [retryShard EXCEPT ![scope] = IF @ = id THEN None ELSE @]
         /\ WithoutLaunch(g)
  /\ Return(c)
  /\ UNCHANGED <<latest, released, identity, cleanups, nextShard, nextGeneration, stop,
                 closed, process, gate, now, calls, answers>>

UnwantedIfClosed(g) == closed
Unwanted(g) == closed \/ launch[g].abandoned \/ launch[g].waiters = 0

\* runLaunch: launcher.Start returned a process that matches its spec.
StartSucceeds(g) ==
  /\ launch[g].phase = "starting"
  /\ process' = [process EXCEPT ![g] = "alive"]
  /\ IF Unwanted(g)
     THEN /\ launch' = [launch EXCEPT ![g].phase = "rejecting"]
          /\ stop' = StartStop(stop, g)
     ELSE launch' = [launch EXCEPT ![g].phase = "ready"] /\ UNCHANGED stop
  /\ UNCHANGED <<shards, placements, latest, released, identity, cleanups,
                 pendingSession, pendingScope, retryShard, nextShard,
                 nextGeneration, closed, gate, call, now, calls, answers>>

\* runLaunch: a process came back with an error, or with another identity.
StartRejected(g) ==
  /\ launch[g].phase = "starting"
  /\ process' = [process EXCEPT ![g] = "alive"]
  /\ launch' = [launch EXCEPT ![g].phase = "rejecting"]
  /\ stop' = StartStop(stop, g)
  /\ UNCHANGED <<shards, placements, latest, released, identity, cleanups,
                 pendingSession, pendingScope, retryShard, nextShard,
                 nextGeneration, closed, gate, call, now, calls, answers>>

LaunchFails(g) ==
  /\ launch' = [launch EXCEPT ![g].phase = "failed"]
  /\ retryShard' = [retryShard EXCEPT ![launch[g].scope] = launch[g].shard]
  /\ WithoutLaunch(g)
  /\ UNCHANGED <<shards, placements, latest, released, identity, cleanups, nextShard,
                 nextGeneration, stop, closed, process, gate, call, now, calls, answers>>

\* runLaunch: no process came back.
StartFails(g) == launch[g].phase = "starting" /\ LaunchFails(g)
\* runLaunch: the stop of the rejected process ended, whatever its result.
RejectionEnds(g) ==
  /\ launch[g].phase = "rejecting"
  /\ EpochDone(<<g, 1>>)
  /\ LaunchFails(g)
-----------------------------------------------------------------------------
(* Release, Observe, Shutdown.                                             *)

CleanupPending(r) ==
  LET k == cleanups[r.session]
  IN  k.placement = r.generation /\ Tracked(stop[k.key])

\* Release of the current generation; every other call is refused.
ReleaseUnplaced(c, r) ==
  /\ call[c] = Idle /\ calls < MaxCalls /\ ~closed
  /\ r.generation = latest[r.session]
  /\ placements[r.session] = NoPlacement
  /\ released' = [released EXCEPT ![r.session] = r.generation]
  /\ IF cleanups[r.session].key # None /\ CleanupPending(r)
     THEN LET g == cleanups[r.session].key IN
          /\ stop' = StartStop(stop, g)
          /\ Become(c, AtStop("release", r, now, <<Handle(stop', g)>>, FALSE))
     ELSE UNCHANGED <<stop, call>>
  /\ calls' = calls + 1
  /\ UNCHANGED <<shards, placements, latest, identity, cleanups, pendingSession,
                 pendingScope, retryShard, nextShard, nextGeneration, launch,
                 closed, process, gate, now, answers>>

Release(c, r) ==
  /\ call[c] = Idle /\ calls < MaxCalls /\ ~closed
  /\ r.generation = latest[r.session]
  /\ placements[r.session] # NoPlacement
  /\ placements' = [placements EXCEPT ![r.session] = NoPlacement]
  /\ released' = [released EXCEPT ![r.session] = r.generation]
  /\ LET id == placements[r.session].shard
         fp == identity[r.session]
         sh == Detach(shards[id], r.session, fp.memory, fp.scope = "session")
         g == sh.generation
     IN  IF shards[id] = NoShard
         THEN UNCHANGED <<shards, stop, cleanups, call>>
         ELSE IF Drained(sh)
         THEN /\ shards' = [shards EXCEPT ![id] = NoShard]
              /\ stop' = StartStop(stop, g)
              /\ cleanups' = [cleanups EXCEPT ![r.session] =
                                [placement |-> r.generation, key |-> g]]
              /\ Become(c, AtStop("release", r, now, <<Handle(stop', g)>>, FALSE))
         ELSE /\ shards' = [shards EXCEPT ![id] = sh]
              /\ UNCHANGED <<stop, cleanups, call>>
  /\ calls' = calls + 1
  /\ UNCHANGED <<latest, identity, pendingSession, pendingScope, retryShard, nextShard,
                 nextGeneration, launch, closed, process, gate, now, answers>>

\* Observe: any sample, of this shard's generation and newer than its last.
Observe(c, id, generation, sequence, rss, pressure) ==
  /\ call[c] = Idle /\ calls < MaxCalls /\ ~closed
  /\ shards[id] # NoShard
  /\ generation = shards[id].generation
  /\ sequence > shards[id].sequence
  /\ LET sh == [shards[id] EXCEPT !.sequence = sequence, !.rss = rss,
                                  !.draining = @ \/ pressure \/ rss >= Watermark]
     IN  IF Drained(sh)
         THEN /\ shards' = [shards EXCEPT ![id] = NoShard]
              /\ stop' = StartStop(stop, generation)
              /\ Become(c, AtStop("observe", [session |-> NoOne], now,
                                  <<Handle(stop', generation)>>, FALSE))
         ELSE shards' = [shards EXCEPT ![id] = sh] /\ UNCHANGED <<stop, call>>
  /\ calls' = calls + 1
  /\ UNCHANGED <<placements, latest, released, identity, cleanups, pendingSession,
                 pendingScope, retryShard, nextShard, nextGeneration, launch,
                 closed, process, gate, now, answers>>

PendingLaunches == {pendingScope[k] : k \in Scopes} \ {None}
\* Finished launches nobody has adopted go to the cleanup ledger, unstarted.
ClosedOver == {g \in PendingLaunches : launch[g].phase = "ready" /\ ~launch[g].adopted}
Unfinished == {g \in PendingLaunches : ~Finished(g)}
CloseAdmission ==
  /\ closed' = TRUE
  /\ launch' = [g \in Generations |->
       IF g \in ClosedOver
       THEN [launch[g] EXCEPT !.abandoned = TRUE, !.cleanup = SelectStopEpoch(stop[g]).epoch]
       ELSE launch[g]]
  /\ stop' = TrackStops(stop, ClosedOver)
  /\ retryShard' = [k \in Scopes |->
       IF pendingScope[k] \in ClosedOver THEN launch[pendingScope[k]].shard ELSE retryShard[k]]
  /\ pendingScope' = [k \in Scopes |->
       IF pendingScope[k] \in ClosedOver THEN None ELSE pendingScope[k]]
  /\ pendingSession' = [s \in Sessions |->
       IF pendingSession[s] \in ClosedOver THEN None ELSE pendingSession[s]]

BeginShutdown(c) ==
  /\ call[c] = Idle /\ calls < MaxCalls /\ gate
  /\ gate' = FALSE
  /\ CloseAdmission
  /\ Become(c, [pc |-> "drain", on |-> Unfinished])
  /\ calls' = calls + 1
  /\ UNCHANGED <<shards, placements, latest, released, identity, cleanups, nextShard,
                 nextGeneration, process, now, answers>>

\* Every launch seen unfinished has ended: look again for others.
ShutdownLooksAgain(c) ==
  /\ call[c].pc = "drain" /\ call[c].on # {}
  /\ \A g \in call[c].on : Finished(g)
  /\ CloseAdmission
  /\ Become(c, [call[c] EXCEPT !.on = Unfinished])
  /\ UNCHANGED <<shards, placements, latest, released, identity, cleanups, nextShard,
                 nextGeneration, process, gate, now, calls, answers>>

\* The context of Shutdown ends while it waits for launches.
CancelShutdown(c) ==
  /\ call[c].pc = "drain" /\ call[c].on # {}
  /\ gate' = TRUE
  /\ Return(c)
  /\ UNCHANGED <<manager, process, now, calls, answers>>

KeyOrder(gs) ==
  SetToSortSeq(gs, LAMBDA g, h : \/ launch[g].shard < launch[h].shard
                                 \/ launch[g].shard = launch[h].shard /\ g < h)
\* Every shard and every tracked stop, each epoch selected and started.
ShutdownStops(c) ==
  /\ call[c].pc = "drain" /\ call[c].on = {}
  /\ LET live == {shards[i].generation : i \in {j \in Generations : shards[j] # NoShard}}
         gs == live \cup {g \in Generations : Tracked(stop[g])}
         tracked == TrackStops(stop, gs)
         order == KeyOrder(gs)
     IN  /\ shards' = [i \in Generations |-> NoShard]
         /\ placements' = [s \in Sessions |-> NoPlacement]
         /\ stop' = [g \in Generations |-> Started(tracked[g], tracked[g].epoch)]
         /\ IF gs = {}
            THEN /\ Return(c) /\ gate' = TRUE
                 /\ answers' = [answers EXCEPT !.drained = TRUE]
            ELSE /\ Become(c, AtStop("shutdown", [session |-> NoOne], now,
                              [i \in DOMAIN order |-> Handle(tracked, order[i])], FALSE))
                 /\ UNCHANGED <<gate, answers>>
  /\ UNCHANGED <<latest, released, identity, cleanups, pendingSession, pendingScope,
                 retryShard, nextShard, nextGeneration, launch, closed, process, now, calls>>

Tick == now < MaxNow /\ now' = now + 1
        /\ UNCHANGED <<manager, process, gate, call, calls, answers>>
-----------------------------------------------------------------------------
Init ==
  /\ shards = [i \in Generations |-> NoShard]
  /\ placements = [s \in Sessions |-> NoPlacement]
  /\ latest = [s \in Sessions |-> 0]
  /\ released = [s \in Sessions |-> 0]
  /\ identity = [s \in Sessions |-> NoFingerprint]
  /\ cleanups = [s \in Sessions |-> [placement |-> 0, key |-> None]]
  /\ pendingSession = [s \in Sessions |-> None]
  /\ pendingScope = [k \in Scopes |-> None]
  /\ retryShard = [k \in Scopes |-> None]
  /\ nextShard = 1
  /\ nextGeneration = 1
  /\ launch = [g \in Generations |-> NoLaunch]
  /\ stop = [g \in Generations |-> NoStop]
  /\ process = [g \in Generations |-> "none"]
  /\ closed = FALSE
  /\ gate = TRUE
  /\ call = [c \in Callers |-> Idle]
  /\ now = 0
  /\ calls = 0
  /\ answers = [internal |-> FALSE, drained |-> FALSE]

AcquireStep(c) ==
  \/ AcquireReturns(c) \/ AcquirePending(c)
  \/ AcquireReplaces(c) \/ AcquireAwaitsPrior(c) \/ AcquireExpires(c)
  \/ AcquirePlaces(c) \/ AcquireJoinsScope(c) \/ AcquireLaunches(c)
WaiterStep(c) ==
  \/ BarrierEnds(c) \/ AwaitStop(c)
  \/ LaunchWaiterLeaves(c) \/ LaunchWaiterAdopts(c)
  \/ ShutdownLooksAgain(c) \/ ShutdownStops(c)
LaunchStep(g) ==
  \/ StartSucceeds(g) \/ StartRejected(g) \/ StartFails(g) \/ RejectionEnds(g)
StopStep(g) == \E state \in {"stopped", "failed", "terminal"} : StopReturns(g, state)
BeginCall(c) ==
  \/ \E r \in Requests : BeginAcquire(c, r) \/ ReleaseUnplaced(c, r) \/ Release(c, r)
  \/ \E id \in Generations, g \in Generations, n \in 1..MaxSequence,
        rss \in {Watermark - 1, Watermark}, p \in BOOLEAN : Observe(c, id, g, n, rss, p)
  \/ BeginShutdown(c)
CancelCall(c) == CancelStop(c) \/ CancelBarrier(c) \/ LaunchWaiterCancels(c) \/ CancelShutdown(c)

Next ==
  \/ \E c \in Callers : AcquireStep(c) \/ WaiterStep(c) \/ BeginCall(c) \/ CancelCall(c)
  \/ \E g \in Generations : LaunchStep(g) \/ StopStep(g)
  \/ Tick

Spec == Init /\ [][Next]_vars

-----------------------------------------------------------------------------
(* Properties.                                                             *)

TypeOK ==
  /\ shards \in [Generations -> Shard \cup {NoShard}]
  /\ placements \in [Sessions -> Placement \cup {NoPlacement}]
  /\ identity \in [Sessions -> Fingerprints \cup {NoFingerprint}]
  /\ \A g \in Generations :
       /\ launch[g].phase \in LaunchPhases /\ launch[g].waiters \in 0..Cardinality(Callers)
       /\ stop[g].state \in StopStates /\ stop[g].epoch \in 0..MaxEpoch
  /\ \A s \in Sessions : pendingSession[s] \in Generations \cup {None}

\* Who may call Stop on a process: the launch that has not handed it over, the
\* shard map or the cleanup ledger.
Owners(g) ==
  {o \in {"launch", "shard", "stop"} :
    \/ o = "launch" /\ launch[g].phase = "ready" /\ ~launch[g].adopted /\ ~launch[g].abandoned
    \/ o = "shard" /\ \E i \in Generations : shards[i].generation = g
    \/ o = "stop" /\ Tracked(stop[g])}

\* A live workerd process always has exactly one owner, whatever order a launch
\* ends, its waiters are cancelled, its sessions are released and the manager is
\* shut down in (runLaunch, waitForLaunch, Release, Shutdown).
OwnedOnce ==
  \A g \in Generations :
    /\ process[g] = "alive" => Cardinality(Owners(g)) = 1
    /\ process[g] = "gone" => Owners(g) = {}

\* A session-scoped process is exclusive: no second one of its scope is alive,
\* because Acquire waits for pending stops of the scope before it launches.
SessionScopeExclusive ==
  \A g, h \in Generations :
    /\ process[g] = "alive" /\ process[h] = "alive"
    /\ launch[g].scope = launch[h].scope /\ launch[g].scope[1] = "session"
    => g = h

\* The placement map and the shards agree, and a placement is of the latest
\* generation of its session, which has not been released.
PlacementsCurrent ==
  \A s \in Sessions :
    /\ placements[s] # NoPlacement =>
         /\ shards[placements[s].shard] # NoShard
         /\ s \in shards[placements[s].shard].sessions
         /\ placements[s].generation = latest[s]
         /\ released[s] # latest[s]
    /\ \A i \in Generations :
         shards[i] # NoShard /\ s \in shards[i].sessions => placements[s].shard = i

\* The reservation of a shard is the sum of its sessions' estimates, and a shard
\* that still admits sessions is not above the watermark: the unsigned
\* subtraction of the admission check does not wrap.
MemoryAccounted ==
  \A i \in Generations : shards[i] # NoShard =>
    /\ shards[i].resident = MapThenSumSet(LAMBDA s : identity[s].memory, shards[i].sessions)
    /\ ~shards[i].draining => Used(shards[i]) <= Watermark

\* The branches that report an inconsistent manager are never taken.
NoInternalError == ~answers.internal

\* Once a Shutdown has returned without error no process is left running, not
\* even one whose start returned after admission was closed.
ShutdownComplete ==
  answers.drained => \A g \in Generations : process[g] # "alive" /\ launch[g].phase # "starting"

=============================================================================
