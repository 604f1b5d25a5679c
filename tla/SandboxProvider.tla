--------------------------- MODULE SandboxProvider ----------------------------
(***************************************************************************)
(* The NsJail execution provider (internal/executor/nsjail/                *)
(* provider_linux.go) for one cache key: EnsureSandbox with its            *)
(* single-flight launch, Execute under a launch authority, Stop, Destroy,  *)
(* the goroutines that carry a stop and a destroy on after their caller    *)
(* gave up, and the monitor that notices a sandbox that exits by itself.   *)
(*                                                                         *)
(* A call is one-shot and moves from one critical section of provider.mu   *)
(* to the next; what it does between two of them (probe, launch,           *)
(* handshake, kill, close) is a step of its own, and may fail.  A launch   *)
(* authority is its generation: the tenant is part of the cache key.       *)
(***************************************************************************)
EXTENDS Naturals, FiniteSets

CONSTANTS Calls,          \* the calls made of the provider
          None,           \* no call
          MaxAuthority,   \* launch authority generations are 1..MaxAuthority
          MaxGeneration,  \* bound on the launches
          MaxFaults,      \* bound on the injected and the real failures
          MaxExits        \* bound on the sandboxes that exit by themselves

ProviderBounds ==
  /\ None \notin Calls
  /\ MaxAuthority \in Nat /\ MaxGeneration \in Nat
  /\ MaxFaults \in Nat /\ MaxExits \in Nat

VARIABLES fence,      \* provider.fences[key]: the admitted generation, 0 for none
          current,    \* provider.byKey[key] and its bySlot entry, 0 for none
          inflight,   \* provider.inflight[key]: the call that is launching
          generation, \* provider.nextGeneration
          rec,        \* what is known of each generation
          calls,      \* the calls, with their local variables
          ended,      \* lifecycleAttempt and ensureCall results, by owner
          faults,     \* failures so far
          exits       \* spontaneous exits so far

vars == <<fence, current, inflight, generation, rec, calls, ended, faults, exits>>

Gens == 1..MaxGeneration
Authorities == 1..MaxAuthority

\* A sandboxRecord with its instanceRuntime.  `stop' and `destroy' are the
\* owners of stopAttempt and destroyAttempt, `stopper', `destroyer' and
\* `monitor' the goroutines that work on the record.
NoRecord == [state |-> "none", fence |-> 0, process |-> "none", session |-> "none",
             cancelled |-> FALSE, stop |-> None, destroy |-> None,
             stopper |-> "off", destroyer |-> "off", monitor |-> "off"]

NoCall == [at |-> "idle", op |-> "none", auth |-> 0, gen |-> 0, on |-> None,
           cancelled |-> FALSE, leased |-> "none", answer |-> "none"]

Init ==
  /\ fence = 0 /\ current = 0 /\ inflight = None /\ generation = 0
  /\ rec = [g \in Gens |-> NoRecord]
  /\ calls = [c \in Calls |-> NoCall]
  /\ ended = [c \in Calls |-> [launch |-> "open", stop |-> "open", destroy |-> "open"]]
  /\ faults = 0 /\ exits = 0

--------------------------------------------------------------------------------
(* Answers, handles and the fence.                                         *)

Answered(c, cs, answer) == [cs EXCEPT ![c].at = "done", ![c].answer = answer]

\* HandleIssuer.Issue and Resolve with recordForHandle: the slot of the key is
\* kept from one generation to the next, so a handle is good while its
\* generation is the one in the slot.
Resolves(g) == current = g

\* LaunchFence.Admit and NewLaunchFence
Admits(a) == a >= fence

\* LaunchFence.Authorizes
Authorizes(g, a) == rec[g].fence = a

\* cancelOperations: every operation that runs on the generation's present
\* context sees its own context done.
OperationsCancelled(cs, g) ==
  [c \in Calls |-> [cs[c] EXCEPT !.cancelled = @ \/ (cs[c].at = "operating" /\ cs[c].gen = g)]]

\* A failure of the host, of a peer, or one a fault injector asks for.
Fails == faults < MaxFaults /\ faults' = faults + 1

--------------------------------------------------------------------------------
(* EnsureSandbox.                                                          *)

\* The entry of EnsureSandbox: mode, backend, projection, protocol version and
\* the canonical cache key are in order.
EnsureSandbox(c, a) ==
  /\ calls[c].at = "idle"
  /\ calls' = [calls EXCEPT ![c].at = "probing", ![c].op = "ensure", ![c].auth = a]
  /\ UNCHANGED <<fence, current, inflight, generation, rec, ended, faults, exits>>

\* validateHostCapability and the probe before it: an unavailable host, or a
\* cancelled caller, is turned away before it can fence anything.
ProbeHost(c) ==
  /\ calls[c].at = "probing"
  /\ \/ /\ calls' = [calls EXCEPT ![c].at = "admitting"]
        /\ UNCHANGED faults
     \/ /\ Fails
        /\ calls' = Answered(c, calls, "unavailable")
  /\ UNCHANGED <<fence, current, inflight, generation, rec, ended, exits>>

\* Lines 304-307: the operations context is cancelled and replaced while the
\* record may still run operations.
CallsFenced(a) ==
  IF current # 0 /\ a > fence /\ rec[current].state \in {"ready", "draining"}
    THEN OperationsCancelled(calls, current)
    ELSE calls

\* Lines 288-308: with the provider's fence the record's fence moves up.
RecordsFenced(a) ==
  IF current # 0 /\ a > fence
    THEN [rec EXCEPT ![current].fence = a,
                     ![current].cancelled = @ /\ rec[current].state \notin {"ready", "draining"}]
    ELSE rec

\* A stale authority is refused and changes nothing.
RefuseStale(c) ==
  /\ calls[c].at = "admitting"
  /\ ~Admits(calls[c].auth)
  /\ calls' = Answered(c, calls, "stale authority")
  /\ UNCHANGED <<fence, current, inflight, generation, rec, ended, faults, exits>>

Admitted(c) ==
  /\ calls[c].at = "admitting"
  /\ Admits(calls[c].auth)
  /\ fence' = calls[c].auth

\* Lines 309-326: what is there is reused, or reported as draining or stopped.
AnswerExisting(c) ==
  /\ Admitted(c)
  /\ current # 0
  /\ rec[current].state \in {"ready", "draining", "stopped"}
  /\ rec' = RecordsFenced(calls[c].auth)
  /\ calls' = [Answered(c, CallsFenced(calls[c].auth), rec[current].state)
                 EXCEPT ![c].gen = IF rec[current].state = "ready" THEN current ELSE 0]
  /\ UNCHANGED <<current, inflight, generation, ended, faults, exits>>

NothingToReuse == current # 0 => rec[current].state = "destroyed"

\* Lines 328-340: another call is launching; wait for it.
JoinLaunch(c) ==
  /\ Admitted(c)
  /\ NothingToReuse
  /\ inflight # None
  /\ rec' = RecordsFenced(calls[c].auth)
  /\ calls' = [calls EXCEPT ![c].at = "joined", ![c].on = inflight]
  /\ UNCHANGED <<current, inflight, generation, ended, faults, exits>>


LaunchFree == inflight = None

\* Lines 342-356: the call becomes the launcher of the next generation.
BeginLaunch(c) ==
  /\ Admitted(c)
  /\ NothingToReuse
  /\ LaunchFree
  /\ generation < MaxGeneration
  /\ rec' = RecordsFenced(calls[c].auth)
  /\ inflight' = c
  /\ generation' = generation + 1
  /\ calls' = [calls EXCEPT ![c].at = "launching", ![c].gen = generation + 1]
  /\ UNCHANGED <<current, ended, faults, exits>>

\* Lines 369-372: the generation space, of which MaxGeneration stands for the
\* end, is used up.
GenerationsExhausted(c) ==
  /\ Admitted(c)
  /\ NothingToReuse
  /\ LaunchFree
  /\ generation = MaxGeneration
  /\ rec' = RecordsFenced(calls[c].auth)
  /\ calls' = Answered(c, calls, "exhausted")
  /\ UNCHANGED <<current, inflight, generation, ended, faults, exits>>

\* The wait of lines 331-339 ends: with the launch's error, or back to the top
\* of the loop; or the caller gives up.
LaunchJoined(c) ==
  /\ calls[c].at = "joined"
  /\ \/ /\ ended[calls[c].on].launch = "failed"
        /\ calls' = Answered(c, calls, "failed")
        /\ UNCHANGED faults
     \/ /\ ended[calls[c].on].launch = "ok"
        /\ calls' = [calls EXCEPT ![c].at = "admitting", ![c].on = None]
        /\ UNCHANGED faults
     \/ /\ Fails
        /\ calls' = Answered(c, calls, "gave up")
  /\ UNCHANGED <<fence, current, inflight, generation, rec, ended, exits>>

\* The deferred publication of the ensureCall, lines 360-367.
LaunchEnds(c, how) ==
  /\ inflight' = IF inflight = c THEN None ELSE inflight
  /\ ended' = [ended EXCEPT ![c].launch = how]

\* Lines 369-432: identity, fault injection, resolver, plan or launcher fail.
\* A launcher that returned an instance with its error has it destroyed.
LaunchFails(c) ==
  /\ calls[c].at = "launching"
  /\ Fails
  /\ LaunchEnds(c, "failed")
  /\ calls' = Answered(c, calls, "failed")
  /\ UNCHANGED <<fence, current, generation, rec, exits>>

\* Lines 434-447: the instance runs and its exit is awaited in the background.
StartInstance(c) ==
  /\ calls[c].at = "launching"
  /\ rec' = [rec EXCEPT ![calls[c].gen].process = "running"]
  /\ calls' = [calls EXCEPT ![c].at = "handshaking"]
  /\ UNCHANGED <<fence, current, inflight, generation, ended, faults, exits>>

\* Lines 447-460: the broker hands over the session, the caller is still there
\* and the process has not exited.
HandshakeDone(c) ==
  /\ calls[c].at = "handshaking"
  /\ rec[calls[c].gen].process = "running"
  /\ rec' = [rec EXCEPT ![calls[c].gen].session = "open"]
  /\ calls' = [calls EXCEPT ![c].at = "publishing"]
  /\ UNCHANGED <<fence, current, inflight, generation, ended, faults, exits>>

\* Lines 461-468: no session, a cancelled caller or an exited process; what the
\* broker handed over is closed and the instance destroyed, and when that fails
\* too, nobody holds the instance any more.
HandshakeFails(c) ==
  /\ calls[c].at = "handshaking"
  /\ \/ rec[calls[c].gen].process = "exited" /\ UNCHANGED faults
     \/ Fails
  /\ \E process \in {"gone"} \cup (IF faults' < MaxFaults THEN {"abandoned"} ELSE {}) :
       rec' = [rec EXCEPT ![calls[c].gen].process = process]
  /\ LaunchEnds(c, "failed")
  /\ calls' = Answered(c, calls, "failed")
  /\ UNCHANGED <<fence, current, generation, exits>>

PublishedFence(c) == fence

\* Lines 470-502: the record is published under the fence as it is now, which
\* may no longer authorize the call that launched.
Publish(c) ==
  /\ calls[c].at = "publishing"
  /\ LET g == calls[c].gen
     IN /\ rec' = [rec EXCEPT ![g].state = "ready", ![g].fence = PublishedFence(c),
                              ![g].monitor = "watching"]
        /\ current' = g
        /\ calls' = Answered(c, calls, IF fence = calls[c].auth THEN "ready" ELSE "stale authority")
  /\ LaunchEnds(c, "ok")
  /\ UNCHANGED <<fence, generation, faults, exits>>

--------------------------------------------------------------------------------
(* Execute.                                                                *)

\* The first critical section of Execute leases the session to a caller that
\* holds the handle of generation g and launch authority a.
Execute(c, g, a) ==
  /\ calls[c].at = "idle"
  /\ rec[g].state # "none"
  /\ LET called == [calls EXCEPT ![c].op = "execute", ![c].gen = g, ![c].auth = a]
         refused(answer) == Answered(c, called, answer)
     IN calls' = CASE ~Resolves(g) -> refused("stale handle")
                   [] Resolves(g) /\ ~Authorizes(g, a) -> refused("stale authority")
                   [] Resolves(g) /\ Authorizes(g, a) /\ rec[g].state # "ready" -> refused(rec[g].state)
                   [] OTHER -> [called EXCEPT ![c].at = "operating",
                                              ![c].cancelled = rec[g].cancelled,
                                              ![c].leased = rec[g].session]
  /\ UNCHANGED <<fence, current, inflight, generation, rec, ended, faults, exits>>

\* The operation returns and both fences are checked again.
OperationEnds(c) ==
  /\ calls[c].at = "operating"
  /\ LET g == calls[c].gen
         good == Resolves(g) /\ Authorizes(g, calls[c].auth) /\ rec[g].state = "ready"
     IN calls' = Answered(c, calls, IF good THEN "ok" ELSE "fenced")
  /\ UNCHANGED <<fence, current, inflight, generation, rec, ended, faults, exits>>

--------------------------------------------------------------------------------
(* Stop.                                                                   *)

\* Stop and Destroy are called with a handle; Destroy begins with Stop.
BeginStop(c, g, op) ==
  /\ calls[c].at = "idle"
  /\ rec[g].state # "none"
  /\ calls' = [calls EXCEPT ![c].at = "stop", ![c].op = op, ![c].gen = g]
  /\ UNCHANGED <<fence, current, inflight, generation, rec, ended, faults, exits>>

\* What the caller of Stop does with its result: Destroy goes on when it is nil.
StopReturns(c, answer) ==
  IF answer = "ok" /\ calls[c].op = "destroy"
    THEN [calls EXCEPT ![c].at = "destroy", ![c].on = None]
    ELSE Answered(c, calls, answer)

\* Lines 566-592: nothing to stop, an attempt to join, or an attempt to begin.
Stop(c) ==
  /\ calls[c].at = "stop"
  /\ LET g == calls[c].gen IN
     \/ /\ ~Resolves(g)
        /\ calls' = Answered(c, calls, "stale handle")
        /\ UNCHANGED rec
     \/ /\ Resolves(g)
        /\ rec[g].state \in {"stopped", "destroyed"}
        /\ calls' = StopReturns(c, "ok")
        /\ UNCHANGED rec
     \/ /\ Resolves(g)
        /\ rec[g].state \in {"ready", "draining"}
        /\ rec[g].stop # None
        /\ calls' = [calls EXCEPT ![c].at = "stopping", ![c].on = rec[g].stop]
        /\ UNCHANGED rec
     \/ /\ Resolves(g)
        /\ rec[g].state \in {"ready", "draining"}
        /\ rec[g].stop = None
        /\ rec' = [rec EXCEPT ![g].stop = c, ![g].state = "draining"]
        /\ calls' = [calls EXCEPT ![c].at = "draining"]
  /\ UNCHANGED <<fence, current, inflight, generation, ended, faults, exits>>

\* Lines 594-611: the caller is cancelled, or a fault injected, before the kill:
\* the sandbox goes back to ready unless it has exited meanwhile.
StopAbandoned(c) ==
  /\ calls[c].at = "draining"
  /\ Fails
  /\ LET g == calls[c].gen IN
     IF rec[g].process = "exited"
       THEN /\ calls' = [calls EXCEPT ![c].at = "closing"]
            /\ UNCHANGED <<rec, ended>>
       ELSE /\ rec' = [rec EXCEPT ![g].state = "ready", ![g].stop = None]
            /\ ended' = [ended EXCEPT ![c].stop = "failed"]
            /\ calls' = Answered(c, calls, "failed")
  /\ UNCHANGED <<fence, current, inflight, generation, exits>>

\* closeSession: idempotent, and retried by the next caller when it failed.
CloseSession(g, closed) ==
  /\ \/ closed /\ UNCHANGED faults
     \/ ~closed /\ rec[g].session = "open" /\ Fails

SessionAfter(g, closed) == IF closed THEN "closed" ELSE rec[g].session

\* Lines 613-620: of a sandbox that exited while its stop was abandoned the
\* session is closed and the record stopped.
StopExited(c) ==
  /\ calls[c].at = "closing"
  /\ LET g == calls[c].gen IN
     \E closed \in BOOLEAN :
       /\ CloseSession(g, closed)
       /\ rec' = [rec EXCEPT ![g].state = "stopped", ![g].stop = None,
                             ![g].session = SessionAfter(g, closed)]
  /\ ended' = [ended EXCEPT ![c].stop = "failed"]
  /\ calls' = Answered(c, calls, "failed")
  /\ UNCHANGED <<fence, current, inflight, generation, exits>>

\* Lines 623-628: operations are cancelled and the stop goes on in the
\* background, whatever becomes of the caller.
StopProceeds(c) ==
  /\ calls[c].at = "draining"
  /\ LET g == calls[c].gen
     IN /\ rec' = [rec EXCEPT ![g].stopper = "killing", ![g].cancelled = TRUE]
        /\ calls' = [OperationsCancelled(calls, g) EXCEPT ![c].at = "stopping", ![c].on = c]
  /\ UNCHANGED <<fence, current, inflight, generation, ended, faults, exits>>

\* Instance.Kill, line 629: a failed kill may still have signalled nothing.
StopperKills(g) ==
  /\ rec[g].stopper = "killing"
  /\ \/ rec' = [rec EXCEPT ![g].stopper = "killed"] /\ UNCHANGED faults
     \/ rec' = [rec EXCEPT ![g].stopper = "kill failed"] /\ Fails
  /\ UNCHANGED <<fence, current, inflight, generation, calls, ended, exits>>

\* Lines 630-633: after a kill the exit is awaited; then the session is closed.
StopperCloses(g) ==
  /\ \/ rec[g].stopper = "killed" /\ rec[g].process = "exited"
     \/ rec[g].stopper = "kill failed"
  /\ \E closed \in BOOLEAN :
       /\ CloseSession(g, closed)
       /\ rec' = [rec EXCEPT ![g].session = SessionAfter(g, closed),
                             ![g].stopper = IF closed /\ rec[g].stopper = "killed" THEN "ok" ELSE "failed"]
  /\ UNCHANGED <<fence, current, inflight, generation, calls, ended, exits>>

\* attempt.err and close(attempt.done)
StopAttemptEnds(g) == ended' = [ended EXCEPT ![rec[g].stop].stop = rec[g].stopper]

\* Lines 635-644
StopperEnds(g) ==
  /\ rec[g].stopper \in {"ok", "failed"}
  /\ StopAttemptEnds(g)
  /\ rec' = [rec EXCEPT ![g].stopper = "off", ![g].stop = None,
                        ![g].state = IF rec[g].stopper = "ok" THEN "stopped" ELSE "draining"]
  /\ UNCHANGED <<fence, current, inflight, generation, calls, faults, exits>>

\* waitLifecycleAttempt: the attempt's result, or the caller's own context.
AttemptWaited(c) ==
  /\ \/ /\ calls[c].at = "stopping"
        /\ ended[calls[c].on].stop # "open"
        /\ calls' = StopReturns(c, ended[calls[c].on].stop)
        /\ UNCHANGED faults
     \/ /\ calls[c].at = "destroying"
        /\ ended[calls[c].on].destroy # "open"
        /\ calls' = Answered(c, calls, ended[calls[c].on].destroy)
        /\ UNCHANGED faults
     \/ /\ calls[c].at \in {"stopping", "destroying"}
        /\ Fails
        /\ calls' = Answered(c, calls, "gave up")
  /\ UNCHANGED <<fence, current, inflight, generation, rec, ended, exits>>

--------------------------------------------------------------------------------
(* Destroy.                                                                *)

\* Lines 658-681, once Stop has returned nil.
Destroy(c) ==
  /\ calls[c].at = "destroy"
  /\ LET g == calls[c].gen IN
     \/ /\ ~Resolves(g)
        /\ calls' = Answered(c, calls, "stale handle")
        /\ UNCHANGED rec
     \/ /\ Resolves(g)
        /\ rec[g].state = "destroyed"
        /\ calls' = Answered(c, calls, "ok")
        /\ UNCHANGED rec
     \/ /\ Resolves(g)
        /\ rec[g].state # "destroyed"
        /\ rec[g].destroy # None
        /\ calls' = [calls EXCEPT ![c].at = "destroying", ![c].on = rec[g].destroy]
        /\ UNCHANGED rec
     \/ /\ Resolves(g)
        /\ rec[g].state # "destroyed"
        /\ rec[g].destroy = None
        /\ rec' = [rec EXCEPT ![g].destroy = c]
        /\ calls' = [calls EXCEPT ![c].at = "releasing"]
  /\ UNCHANGED <<fence, current, inflight, generation, ended, faults, exits>>

\* Lines 683-690
DestroyAbandoned(c) ==
  /\ calls[c].at = "releasing"
  /\ Fails
  /\ rec' = [rec EXCEPT ![calls[c].gen].destroy = None]
  /\ ended' = [ended EXCEPT ![c].destroy = "failed"]
  /\ calls' = Answered(c, calls, "failed")
  /\ UNCHANGED <<fence, current, inflight, generation, exits>>

\* Line 691
DestroyProceeds(c) ==
  /\ calls[c].at = "releasing"
  /\ rec' = [rec EXCEPT ![calls[c].gen].destroyer = "removing"]
  /\ calls' = [calls EXCEPT ![c].at = "destroying", ![c].on = c]
  /\ UNCHANGED <<fence, current, inflight, generation, ended, faults, exits>>

\* Instance.Destroy, line 692
DestroyerRemoves(g) ==
  /\ rec[g].destroyer = "removing"
  /\ \/ /\ rec' = [rec EXCEPT ![g].destroyer = "removed", ![g].process = "gone"]
        /\ UNCHANGED faults
     \/ /\ Fails
        /\ rec' = [rec EXCEPT ![g].destroyer = "remove failed"]
  /\ UNCHANGED <<fence, current, inflight, generation, calls, ended, exits>>

DestroyOutcome(g, closed) ==
  IF closed /\ rec[g].destroyer = "removed" THEN "ok" ELSE "failed"

\* Line 693
DestroyerCloses(g) ==
  /\ rec[g].destroyer \in {"removed", "remove failed"}
  /\ \E closed \in BOOLEAN :
       /\ CloseSession(g, closed)
       /\ rec' = [rec EXCEPT ![g].session = SessionAfter(g, closed),
                             ![g].destroyer = DestroyOutcome(g, closed)]
  /\ UNCHANGED <<fence, current, inflight, generation, calls, ended, exits>>

\* Lines 694-701
DestroyerEnds(g) ==
  /\ rec[g].destroyer \in {"ok", "failed"}
  /\ ended' = [ended EXCEPT ![rec[g].destroy].destroy = rec[g].destroyer]
  /\ rec' = [rec EXCEPT ![g].destroyer = "off", ![g].destroy = None,
                        ![g].state = IF rec[g].destroyer = "ok" THEN "destroyed" ELSE @]
  /\ UNCHANGED <<fence, current, inflight, generation, calls, faults, exits>>

--------------------------------------------------------------------------------
(* The process and its monitor.                                            *)

\* The NsJail process ends, killed or by itself (instance.Wait returns).
ProcessExits(g) ==
  /\ rec[g].process = "running"
  /\ \/ rec[g].stopper = "killed" /\ UNCHANGED exits
     \/ rec[g].stopper # "killed" /\ exits < MaxExits /\ exits' = exits + 1
  /\ rec' = [rec EXCEPT ![g].process = "exited"]
  /\ UNCHANGED <<fence, current, inflight, generation, calls, ended, faults>>

MonitorStops(g) == current = g /\ rec[g].state = "ready"

\* monitor, first part: a ready record of an exited process is stopped.
MonitorSees(g) ==
  /\ rec[g].monitor = "watching"
  /\ rec[g].process \in {"exited", "gone"}
  /\ IF MonitorStops(g)
       THEN /\ rec' = [rec EXCEPT ![g].monitor = "closing", ![g].state = "stopped",
                                  ![g].cancelled = TRUE]
            /\ calls' = OperationsCancelled(calls, g)
       ELSE /\ rec' = [rec EXCEPT ![g].monitor = "off"]
            /\ UNCHANGED calls
  /\ UNCHANGED <<fence, current, inflight, generation, ended, faults, exits>>

\* monitor, second part, outside the mutex; its error is dropped.
MonitorCloses(g) ==
  /\ rec[g].monitor = "closing"
  /\ \E closed \in BOOLEAN :
       /\ CloseSession(g, closed)
       /\ rec' = [rec EXCEPT ![g].monitor = "off", ![g].session = SessionAfter(g, closed)]
  /\ UNCHANGED <<fence, current, inflight, generation, calls, ended, exits>>

--------------------------------------------------------------------------------
CallSteps(c) ==
  \/ ProbeHost(c) \/ RefuseStale(c) \/ AnswerExisting(c) \/ JoinLaunch(c)
  \/ BeginLaunch(c) \/ GenerationsExhausted(c) \/ LaunchJoined(c) \/ LaunchFails(c) \/ StartInstance(c)
  \/ HandshakeDone(c) \/ HandshakeFails(c) \/ Publish(c)
  \/ OperationEnds(c)
  \/ Stop(c) \/ StopAbandoned(c) \/ StopExited(c) \/ StopProceeds(c) \/ AttemptWaited(c)
  \/ Destroy(c) \/ DestroyAbandoned(c) \/ DestroyProceeds(c)

HostSteps(g) ==
  \/ StopperKills(g) \/ StopperCloses(g) \/ StopperEnds(g)
  \/ DestroyerRemoves(g) \/ DestroyerCloses(g) \/ DestroyerEnds(g)
  \/ ProcessExits(g) \/ MonitorSees(g) \/ MonitorCloses(g)

Next ==
  \/ \E c \in Calls :
       \/ \E a \in Authorities : EnsureSandbox(c, a)
       \/ \E g \in Gens, a \in Authorities : Execute(c, g, a)
       \/ \E g \in Gens, op \in {"stop", "destroy"} : BeginStop(c, g, op)
       \/ CallSteps(c)
  \/ \E g \in Gens : HostSteps(g)

Spec == Init /\ [][Next]_vars

--------------------------------------------------------------------------------
TypeOK ==
  /\ fence \in 0..MaxAuthority /\ current \in 0..MaxGeneration
  /\ inflight \in Calls \cup {None} /\ generation \in 0..MaxGeneration
  /\ \A g \in Gens :
       /\ rec[g].state \in {"none", "ready", "draining", "stopped", "destroyed"}
       /\ rec[g].process \in {"none", "running", "exited", "gone", "abandoned"}
       /\ rec[g].session \in {"none", "open", "closed"}
  /\ \A c \in Calls : calls[c].gen \in 0..MaxGeneration /\ calls[c].auth \in 0..MaxAuthority

\* The record in the slot is always fenced at the newest authority the provider
\* has admitted, also when that authority arrived while the sandbox was still
\* being launched for an older one (provider_linux.go:473-480, 301-303).
PublishedFenceIsCurrent == current # 0 => rec[current].fence = fence

\* While a sandbox is up or draining, an operation that runs under an authority
\* that has been superseded has its context cancelled
\* (provider_linux.go:304-307).
SupersededOperationsCancelled ==
  \A c \in Calls :
    /\ calls[c].at = "operating"
    /\ rec[calls[c].gen].state \in {"ready", "draining"}
    /\ rec[calls[c].gen].fence # calls[c].auth
    => calls[c].cancelled

\* However calls, stops, destroys and exits interleave, at most one instance of
\* the sandbox is up, apart from those whose failed launch could not be cleaned
\* up (provider_linux.go:328-356, 461-468).
OneInstance == Cardinality({g \in Gens : rec[g].process \in {"running", "exited"}}) <= 1

\* A destroyed sandbox has no instance and no open control session left,
\* whichever of stop, destroy and monitor closed it (provider_linux.go:692-696).
DestroyedIsReleased ==
  \A g \in Gens : rec[g].state = "destroyed" =>
                    rec[g].process = "gone" /\ rec[g].session = "closed"

\* What every execution provider promises about one sandbox slot: a generation is
\* published only when the one before is destroyed; it drains, may be taken back to ready
\* when the stop that drained it is abandoned, stops once, and is destroyed only then.
LifecyclePublish(g) ==
  /\ rec[g].state = "none" /\ rec'[g].state = "ready"
  /\ g > current /\ current' = g
  /\ current # 0 => rec[current].state = "destroyed"

LifecycleSteps ==
  {<<"ready", "draining">>, <<"draining", "ready">>, <<"ready", "stopped">>,
   <<"draining", "stopped">>, <<"stopped", "destroyed">>}

\* The provider implements this lifecycle: whatever a step does, it moves at most one
\* generation, the published one or a new one, along the promised way
\* (internal/executor/types.go, LifecycleState and Provider).
LifecycleImplemented ==
  \/ \E g \in Gens :
       /\ \/ LifecyclePublish(g)
          \/ /\ <<rec[g].state, rec'[g].state>> \in LifecycleSteps
             /\ current = g /\ UNCHANGED current
       /\ \A h \in Gens \ {g} : rec'[h].state = rec[h].state
  \/ /\ \A g \in Gens : rec'[g].state = rec[g].state
     /\ UNCHANGED current

================================================================================
