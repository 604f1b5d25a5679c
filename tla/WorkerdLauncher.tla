--------------------------- MODULE WorkerdLauncher ---------------------------
(***************************************************************************)
(* The workerd process launcher (internal/agent/workerd_launcher_linux.go, *)
(* workerd_observer_linux.go): Ensure starts one process per shard         *)
(* generation and shares it between callers, Stop and Close end processes  *)
(* in stop epochs, and one observer per published process feeds a sink     *)
(* that may stop the process it is told about.                             *)
(*                                                                         *)
(* One record per start gathers the pending launch, the instance, its      *)
(* cgroup lease and its observer.  Actions are critical sections under     *)
(* launcher.mu and the returns of the calls made outside it.  What a lease *)
(* does is the module WorkerdCgroup; here destroying one ends in one of    *)
(* Cleanups.                                                               *)
(***************************************************************************)
EXTENDS Integers, FiniteSets, Sequences, TLC, FiniteSetsExt

CONSTANTS
  Callers,          \* goroutines that call Ensure, Stop and Close
  Requests,         \* WorkerdEnsureRequest: shard, generation, arguments
  HistoryCapacity,  \* launcher.historyCapacity
  Observed,         \* whether there is an observation sink
  MaxLaunches,      \* bound: starts
  MaxEpochs,        \* bound: stop epochs of a process, all but the last of which may fail
  MaxRounds,        \* bound: rounds of Close
  MaxCalls          \* bound: calls begun

LauncherBounds ==
  /\ {HistoryCapacity, MaxLaunches, MaxEpochs, MaxRounds, MaxCalls} \subseteq Nat
  /\ Observed \in BOOLEAN
  /\ \A r \in Requests : r.generation \in Nat \ {0}

VARIABLES
  start,        \* the starts, in order: pending launch, instance, lease, observer
  caller,       \* what each caller is doing
  latest,       \* launcher.latestGenerations
  retired,      \* launcher.retiredGenerations
  identities,   \* launcher.launchIdentities: arguments of <<shard, generation>>
  current,      \* launcher.current
  closed,       \* launcher.closed
  round,        \* launcher.closeOperation: its rounds, and where the last one is
  terminalErr,  \* launcher.terminalCloseErr # nil
  cgroupsClosed, executable, \* launcher.cgroupsClosed, launcher.executable # nil
  calls         \* calls begun

state == <<latest, retired, identities, current>>
closing == <<closed, round, terminalErr, cgroupsClosed, executable>>
vars == <<start, caller, state, closing, calls>>

Shards == {r.shard : r \in Requests}
Starts == 1..Len(start)
Key(r) == <<r.shard, r.generation>>
None == 0

\* How destroying a lease, or a process group, ends: it is still owned, it is
\* gone, or it is gone with an error that stays.
Cleanups == {"failed", "gone", "terminal"}

NewStart(r) ==
  [req |-> r, pc |-> "residuals", waiters |-> 1, abandoned |-> FALSE, cancelled |-> FALSE,
   done |-> FALSE, result |-> "error", published |-> FALSE,
   lease |-> "none", process |-> "none", tracked |-> FALSE, exited |-> FALSE, exitStop |-> FALSE,
   gone |-> FALSE, stopRequested |-> FALSE, stop |-> <<>>, awaits |-> 0,
   observer |-> "none", observerCancelled |-> FALSE]

IdleCaller == [pc |-> "idle", req |-> CHOOSE r \in Requests : TRUE, waits |-> {}, got |-> None]

Init ==
  /\ start = <<>>
  /\ caller = [c \in Callers |-> IdleCaller]
  /\ latest = [s \in Shards |-> 0]
  /\ retired = [s \in Shards |-> 0]
  /\ identities = << >>
  /\ current = [s \in Shards |-> None]
  /\ closed = FALSE
  /\ round = [n |-> 0, pc |-> "none", pendings |-> {}, stops |-> {}, failed |-> FALSE]
  /\ terminalErr = FALSE /\ cgroupsClosed = FALSE /\ executable = TRUE
  /\ calls = 0

Pending(a) == ~start[a].done
PendingOf(k) == {a \in Starts : Pending(a) /\ Key(start[a].req) = k}
PendingIn(s) == {a \in Starts : Pending(a) /\ start[a].req.shard = s}
ShardOf(a) == start[a].req.shard

-----------------------------------------------------------------------------
\* Stop epochs

\* What the epochs of a start came to; an epoch is begun, runs, and ends.
LastEpoch(i) == i.stop[Len(i.stop)]

\* beginWorkerdStop joins the epoch that runs, or the last one if it settled
\* the process; otherwise it begins another.
Settled(i) == i.stop # <<>> /\ (LastEpoch(i) # "failed" \/ i.gone)

BeginStop(i) == IF Settled(i) THEN i ELSE [i EXCEPT !.stop = Append(@, "begun")]

Epoch(a) == <<a, Len(BeginStop(start[a]).stop)>>
EpochEnded(e) == start[e[1]].stop[e[2]] \in Cleanups
EpochFailed(e) == start[e[1]].stop[e[2]] # "gone"

Retire(s, g) == retired' = [retired EXCEPT ![s] = Max({@, g})]

\* The epoch cancels the observer and does not join it: the observer may be
\* inside a sink that waits for this very epoch.
StopBegins(a) ==
  /\ start[a].stop # <<>> /\ LastEpoch(start[a]) = "begun"
  /\ start' = [start EXCEPT ![a].observerCancelled = TRUE,
                            ![a].stop[Len(start[a].stop)] = "running"]
  /\ UNCHANGED <<caller, state, closing, calls>>

Unjoined(a) == TRUE

Vacated(a) == [current EXCEPT ![ShardOf(a)] = IF @ = a THEN None ELSE @]

\* Then it destroys the lease (or signals the process group).  A process that
\* is gone leaves the tables in one critical section.
StopDestroys(a) ==
  /\ start[a].stop # <<>> /\ LastEpoch(start[a]) = "running" /\ ~start[a].gone
  /\ Unjoined(a)
  /\ \/ /\ Len(start[a].stop) < MaxEpochs
        /\ start' = [start EXCEPT ![a].stop[Len(start[a].stop)] = "failed"]
        /\ UNCHANGED current
     \/ /\ start' = [start EXCEPT ![a].gone = TRUE, ![a].tracked = FALSE,
                                  ![a].lease = "destroyed", ![a].process = "gone"]
        /\ current' = Vacated(a)
  /\ UNCHANGED <<caller, latest, retired, identities, closing, calls>>

\* Its identity is closed, and the epoch is over.
StopEnds(a) ==
  /\ start[a].gone /\ LastEpoch(start[a]) = "running"
  /\ \E outcome \in {"gone", "terminal"} :
       /\ start' = [start EXCEPT ![a].stop[Len(start[a].stop)] = outcome]
       /\ terminalErr' = (terminalErr \/ outcome = "terminal")
  /\ UNCHANGED <<caller, state, closed, round, cgroupsClosed, executable, calls>>

-----------------------------------------------------------------------------
\* Ensure

BeginEnsure(c, r) ==
  /\ caller[c].pc = "idle" /\ calls < MaxCalls
  /\ calls' = calls + 1
  /\ caller' = [caller EXCEPT ![c] = [@ EXCEPT !.pc = "ensures", !.req = r, !.got = None]]
  /\ UNCHANGED <<start, state, closing>>

Return(c, a) == [caller EXCEPT ![c] = [@ EXCEPT !.pc = "idle", !.waits = {}, !.got = a]]

\* Mutant of Stale.
OlderOnly(r) == latest[r.shard] > r.generation

Stale(r) == retired[r.shard] >= r.generation \/ latest[r.shard] > r.generation

\* What a start is known by: its arguments, once its key was used.
Conflicts(r) == Key(r) \in DOMAIN identities /\ identities[Key(r)] # r.arguments

EnsureRefused(r) ==
  \/ closed
  \/ latest[r.shard] = 0 /\ Cardinality({s \in Shards : latest[s] # 0}) >= HistoryCapacity
  \/ Stale(r)
  \/ Conflicts(r)

EnsureRefuses(c) ==
  /\ caller[c].pc = "ensures" /\ EnsureRefused(caller[c].req)
  /\ caller' = Return(c, None)
  /\ UNCHANGED <<start, state, closing, calls>>

\* The key is being started: share the start, or wait for an abandoned one to
\* be cleaned up.
EnsureJoins(c) ==
  /\ caller[c].pc = "ensures" /\ ~EnsureRefused(caller[c].req)
  /\ \E a \in PendingOf(Key(caller[c].req)) :
       IF start[a].abandoned
       THEN /\ caller' = [caller EXCEPT ![c].pc = "blocked", ![c].waits = {<<a, 0>>}]
            /\ UNCHANGED start
       ELSE /\ caller' = [caller EXCEPT ![c].pc = "waits", ![c].waits = {<<a, 0>>}]
            /\ start' = [start EXCEPT ![a].waiters = @ + 1]
  /\ UNCHANGED <<state, closing, calls>>

Unavailable(i) == i.exited \/ i.gone \/ i.stop # <<>> \/ i.stopRequested

Serving(r) ==
  {a \in {current[r.shard]} \ {None} : Key(start[a].req) = Key(r) /\ ~Unavailable(start[a])}

EnsureReturnsCurrent(c) ==
  /\ caller[c].pc = "ensures" /\ ~EnsureRefused(caller[c].req)
  /\ PendingOf(Key(caller[c].req)) = {}
  /\ \E a \in Serving(caller[c].req) : caller' = Return(c, a)
  /\ UNCHANGED <<start, state, closing, calls>>

Startable(c) ==
  /\ caller[c].pc = "ensures" /\ ~EnsureRefused(caller[c].req)
  /\ PendingOf(Key(caller[c].req)) = {}
  /\ Serving(caller[c].req) = {}

\* Another generation of the shard is being started.
Earlier(s) == PendingIn(s)

EnsureAwaitsEarlier(c) ==
  /\ Startable(c)
  /\ \E a \in Earlier(caller[c].req.shard) :
       caller' = [caller EXCEPT ![c].pc = "blocked", ![c].waits = {<<a, 0>>}]
  /\ UNCHANGED <<start, state, closing, calls>>

\* Processes of the shard that are not known to be gone are retired and
\* stopped, and Ensure starts over when they are.
Unresolved(s) == {a \in Starts : start[a].tracked /\ ShardOf(a) = s /\ ~start[a].gone}

EnsureStopsUnresolved(c) ==
  LET s == caller[c].req.shard
      u == Unresolved(s)
  IN /\ Startable(c) /\ Earlier(s) = {} /\ u # {}
     /\ Retire(s, Max({start[a].req.generation : a \in u}))
     /\ start' = [a \in Starts |->
          IF a \in u THEN BeginStop([start[a] EXCEPT !.stopRequested = TRUE]) ELSE start[a]]
     /\ caller' = [caller EXCEPT ![c].pc = "drains", ![c].waits = {Epoch(a) : a \in u}]
     /\ UNCHANGED <<latest, identities, current, closing, calls>>

Forget(r) ==
  LET kept == {k \in DOMAIN identities :
                 ~(r.generation > latest[r.shard] /\ k[1] = r.shard /\ k[2] < r.generation)}
  IN [k \in kept \cup {Key(r)} |-> IF k = Key(r) THEN r.arguments ELSE identities[k]]

\* The table of pending starts has room: it holds one per known shard.
EnsureLaunches(c) ==
  LET r == caller[c].req
  IN /\ Startable(c) /\ Earlier(r.shard) = {} /\ Unresolved(r.shard) = {}
     /\ Len(start) < MaxLaunches
     /\ identities' = Forget(r)
     /\ latest' = [latest EXCEPT ![r.shard] = Max({@, r.generation})]
     /\ start' = Append(start, NewStart(r))
     /\ caller' = [caller EXCEPT ![c].pc = "waits", ![c].waits = {<<Len(start) + 1, 0>>}]
     /\ UNCHANGED <<retired, current, closing, calls>>

Result(a) == IF start[a].result = "handle" THEN a ELSE None

\* The shared start is over.
WaitEnds(c) ==
  /\ caller[c].pc = "waits"
  /\ \E e \in caller[c].waits : start[e[1]].done /\ caller' = Return(c, Result(e[1]))
  /\ UNCHANGED <<start, state, closing, calls>>

\* The caller's context ends: it leaves the start, and the last one to leave
\* abandons it.  If the start is over already, the caller takes its result.
LeaveStart(i) ==
  LET left == i.waiters - 1
  IN [i EXCEPT !.waiters = left, !.abandoned = (left = 0), !.cancelled = @ \/ left = 0]

CancelWait(c) ==
  /\ caller[c].pc = "waits"
  /\ \E e \in caller[c].waits :
       /\ Pending(e[1])
       /\ start' = [start EXCEPT ![e[1]] = LeaveStart(@)]
  /\ caller' = Return(c, None)
  /\ UNCHANGED <<state, closing, calls>>

BlockEnds(c) ==
  /\ caller[c].pc = "blocked"
  /\ \A e \in caller[c].waits : start[e[1]].done
  /\ caller' = [caller EXCEPT ![c].pc = "ensures", ![c].waits = {}]
  /\ UNCHANGED <<start, state, closing, calls>>

\* All stops are over: Ensure starts over, or fails; Stop returns.
DrainEnds(c) ==
  /\ caller[c].pc \in {"drains", "stops"}
  /\ \A e \in caller[c].waits : EpochEnded(e)
  /\ caller' = IF caller[c].pc = "stops" \/ \E e \in caller[c].waits : EpochFailed(e)
               THEN Return(c, None)
               ELSE [caller EXCEPT ![c].pc = "ensures", ![c].waits = {}]
  /\ UNCHANGED <<start, state, closing, calls>>

CancelBlocked(c) ==
  /\ caller[c].pc \in {"blocked", "drains", "stops", "closes"}
  /\ caller' = Return(c, None)
  /\ UNCHANGED <<start, state, closing, calls>>

-----------------------------------------------------------------------------
\* runLaunch

Launching(a, pc) == start[a].pc = pc /\ Pending(a)

\* Leases of earlier starts of the shard that could not be destroyed go first.
Residuals(s) == {b \in Starts : start[b].lease = "allocated" /\ ShardOf(b) = s}

CleanResidual(a) ==
  /\ Launching(a, "residuals") /\ Residuals(ShardOf(a)) # {}
  /\ LET b == Min(Residuals(ShardOf(a)))
     IN \E outcome \in Cleanups :
          /\ start' = [start EXCEPT ![b].lease = IF outcome = "failed" THEN @ ELSE "destroyed",
                                    ![a].pc = IF outcome = "gone" THEN @ ELSE "finishes"]
          /\ terminalErr' = (terminalErr \/ outcome = "terminal")
  /\ UNCHANGED <<caller, state, closed, round, cgroupsClosed, executable, calls>>

\* prepare gives a lease, nothing, or a lease that is only good for cleanup.
PrepareLease(a) ==
  /\ Launching(a, "residuals") /\ Residuals(ShardOf(a)) = {}
  /\ \/ ~start[a].cancelled /\ start' = [start EXCEPT ![a].pc = "starts", ![a].lease = "allocated"]
     \/ start' = [start EXCEPT ![a].pc = "cleans", ![a].lease = "allocated"]
     \/ start' = [start EXCEPT ![a].pc = "finishes"]
  /\ UNCHANGED <<caller, state, closing, calls>>

\* The process starts inside the leaf; its identity is captured, and the lease
\* passes from the allocations to the instance.
StartProcess(a) ==
  /\ Launching(a, "starts")
  /\ \/ start' = [start EXCEPT ![a].pc = "cleans"]
     \/ /\ ~start[a].cancelled /\ executable
        /\ \E captured \in BOOLEAN :
             start' = [start EXCEPT ![a].pc = IF captured THEN "probes" ELSE "stops",
                         ![a].lease = "instance", ![a].process = "running", ![a].tracked = TRUE]
  /\ UNCHANGED <<caller, state, closing, calls>>

\* The readiness probe, its deadline, the cancellation of the start and the
\* exit of the process race.
ProbeEnds(a) ==
  /\ Launching(a, "probes")
  /\ \/ ~start[a].exited /\ start' = [start EXCEPT ![a].pc = "ready"]
     \/ start' = [start EXCEPT ![a].pc = "stops"]
  /\ UNCHANGED <<caller, state, closing, calls>>

Unpublishable(a) ==
  \/ start[a].abandoned \/ closed \/ start[a].exited
  \/ latest[ShardOf(a)] # start[a].req.generation

\* The first check, without the exit of the process.
CheckReady(a) ==
  /\ Launching(a, "ready")
  /\ start' = [start EXCEPT ![a].pc =
       IF start[a].abandoned \/ closed \/ latest[ShardOf(a)] # start[a].req.generation
       THEN "stops" ELSE "publishes"]
  /\ UNCHANGED <<caller, state, closing, calls>>

\* The second, under both mutexes: the process becomes current, and is
\* observed unless it is being stopped.
Publish(a) ==
  /\ Launching(a, "publishes")
  /\ IF Unpublishable(a)
     THEN start' = [start EXCEPT ![a].pc = "stops"] /\ UNCHANGED current
     ELSE /\ current' = [current EXCEPT ![ShardOf(a)] = a]
          /\ start' = [start EXCEPT ![a].pc = "finishes", ![a].result = "handle",
               ![a].published = TRUE,
               ![a].observer = IF Observed /\ start[a].stop = <<>> /\ ~start[a].stopRequested
                               THEN "ticks" ELSE "none"]
  /\ UNCHANGED <<caller, latest, retired, identities, closing, calls>>

LaunchStops(a) ==
  /\ Launching(a, "stops")
  /\ start' = [start EXCEPT ![a] = [BeginStop(@) EXCEPT !.pc = "stopping",
                                                     !.awaits = Epoch(a)[2]]]
  /\ UNCHANGED <<caller, state, closing, calls>>

LaunchStopped(a) ==
  /\ Launching(a, "stopping") /\ EpochEnded(<<a, start[a].awaits>>)
  /\ start' = [start EXCEPT ![a].pc = "finishes"]
  /\ UNCHANGED <<caller, state, closing, calls>>

\* The deferred destroy of a lease that never got a process.
CleanLease(a) ==
  /\ Launching(a, "cleans")
  /\ \E outcome \in Cleanups :
       /\ start' = [start EXCEPT ![a].pc = "finishes",
                                 ![a].lease = IF outcome = "failed" THEN @ ELSE "destroyed"]
       /\ terminalErr' = (terminalErr \/ outcome = "terminal")
  /\ UNCHANGED <<caller, state, closed, round, cgroupsClosed, executable, calls>>

\* The deferred completion, in a critical section of its own: a launcher that
\* closed meanwhile gives out no handle.
FinalResult(i) == IF closed THEN "error" ELSE i.result

FinishLaunch(a) ==
  /\ Launching(a, "finishes")
  /\ start' = [start EXCEPT ![a].done = TRUE, ![a].result = FinalResult(start[a])]
  /\ UNCHANGED <<caller, state, closing, calls>>

Launch(a) ==
  \/ CleanResidual(a) \/ PrepareLease(a) \/ StartProcess(a) \/ ProbeEnds(a) \/ CheckReady(a)
  \/ Publish(a) \/ LaunchStops(a) \/ LaunchStopped(a) \/ CleanLease(a) \/ FinishLaunch(a)

-----------------------------------------------------------------------------
\* Exits, observations, Stop

\* process.Wait returns: the generation of a current process is retired.
ProcessExits(a) ==
  /\ start[a].process = "running"
  /\ start' = [start EXCEPT ![a].process = "exited", ![a].exited = TRUE, ![a].exitStop = TRUE]
  /\ IF current[ShardOf(a)] = a THEN Retire(ShardOf(a), start[a].req.generation)
     ELSE UNCHANGED retired
  /\ UNCHANGED <<caller, latest, identities, current, closing, calls>>

\* What the leader left behind is stopped.
ExitStops(a) ==
  /\ start[a].exitStop
  /\ start' = [start EXCEPT ![a] = [BeginStop(@) EXCEPT !.exitStop = FALSE]]
  /\ UNCHANGED <<caller, state, closing, calls>>

\* Handle.Stop, of a caller or of the sink: a process that is gone answers
\* with its last epoch, any other is taken out of service first.
HandleStop(a) ==
  IF start[a].gone
  THEN UNCHANGED retired
  ELSE IF current[ShardOf(a)] = a THEN Retire(ShardOf(a), start[a].req.generation)
  ELSE UNCHANGED retired

HandleStopped(a) ==
  IF start[a].gone THEN start[a] ELSE BeginStop([start[a] EXCEPT !.stopRequested = TRUE])

CallStop(c) ==
  LET a == caller[c].got
  IN /\ caller[c].pc = "idle" /\ a # None /\ calls < MaxCalls
     /\ calls' = calls + 1
     /\ HandleStop(a)
     /\ start' = [start EXCEPT ![a] = HandleStopped(a)]
     /\ caller' = [caller EXCEPT ![c].pc = "stops", ![c].waits = {Epoch(a)}]
     /\ UNCHANGED <<latest, identities, current, closing>>

\* A tick samples the leaf and the process and hands the observation to the
\* sink; a sample that can never succeed again ends the observer, any other
\* failure waits for the next tick.
ObserverTicks(a) ==
  /\ start[a].observer = "ticks"
  /\ \/ start' = [start EXCEPT ![a].observer = "done"]
     \/ /\ ~start[a].observerCancelled /\ ~start[a].gone
        /\ start' = [start EXCEPT ![a].observer = "sink"]
  /\ UNCHANGED <<caller, state, closing, calls>>

\* The sink accepts it, does not know the shard yet, or fails.
SinkReturns(a) ==
  /\ \/ start[a].observer = "sink"
     \/ start[a].observer = "draining" /\ EpochEnded(<<a, start[a].awaits>>)
  /\ \E next \in {"ticks", "done"} : start' = [start EXCEPT ![a].observer = next]
  /\ UNCHANGED <<caller, state, closing, calls>>

\* The sink decides to drain the shard and stops the process from within.
SinkStops(a) ==
  /\ start[a].observer = "sink"
  /\ HandleStop(a)
  /\ start' = [start EXCEPT ![a] = [HandleStopped(a) EXCEPT !.observer = "draining",
                                                          !.awaits = Epoch(a)[2]]]
  /\ UNCHANGED <<caller, latest, identities, current, closing, calls>>

-----------------------------------------------------------------------------
\* Close

Owned == {a \in Starts : start[a].tracked \/ start[a].lease = "allocated"}
Retryable == Owned # {} \/ ~cgroupsClosed

StartsRound == round.pc = "none" \/ (round.pc = "failed" /\ Retryable)

\* The first call, or one after a round that left something behind, begins a
\* round; every other joins it.
CallClose(c) ==
  /\ caller[c].pc = "idle" /\ calls < MaxCalls
  /\ calls' = calls + 1
  /\ caller' = [caller EXCEPT ![c].pc = "closes", ![c].waits = {}]
  /\ IF StartsRound
     THEN /\ round.n < MaxRounds
          /\ closed' = TRUE
          /\ start' = [a \in Starts |-> IF Pending(a) THEN [start[a] EXCEPT !.cancelled = TRUE] ELSE start[a]]
          /\ round' = [n |-> round.n + 1, pc |-> "joins", pendings |-> {a \in Starts : Pending(a)},
                       stops |-> {}, failed |-> FALSE]
     ELSE UNCHANGED <<closed, start, round>>
  /\ UNCHANGED <<state, terminalErr, cgroupsClosed, executable>>

Joined == \A a \in round.pendings : start[a].done

CloseStops ==
  LET tracked == {a \in Starts : start[a].tracked}
  IN /\ round.pc = "joins" /\ Joined
     /\ start' = [a \in Starts |-> IF a \in tracked THEN BeginStop(start[a]) ELSE start[a]]
     /\ round' = [round EXCEPT !.pc = "stops", !.stops = {Epoch(a) : a \in tracked}]
     /\ UNCHANGED <<caller, state, closed, terminalErr, cgroupsClosed, executable, calls>>

\* Then the leases nobody started a process in.
CloseResiduals ==
  /\ round.pc = "stops" /\ \A e \in round.stops : EpochEnded(e)
  /\ LET allocated == {a \in Starts : start[a].lease = "allocated"}
     IN \E outcome \in [allocated -> Cleanups] :
          /\ start' = [a \in Starts |->
               IF a \in allocated /\ outcome[a] # "failed"
               THEN [start[a] EXCEPT !.lease = "destroyed"] ELSE start[a]]
          /\ terminalErr' = (terminalErr \/ \E a \in allocated : outcome[a] = "terminal")
          /\ round' = [round EXCEPT !.pc = "observers", !.failed =
               \/ \E e \in round.stops : EpochFailed(e)
               \/ \E a \in allocated : outcome[a] # "gone"]
  /\ UNCHANGED <<caller, state, closed, cgroupsClosed, executable, calls>>

\* The observers are joined, the controller is closed once nothing is owned,
\* the executable is closed, and the round says how it went.
ObserversJoined == \A a \in Starts : start[a].observer \in {"none", "done"}

CloseEnds ==
  /\ round.pc = "observers" /\ ObserversJoined
  /\ \E poisoned \in BOOLEAN :
       LET closes == Owned = {} /\ ~cgroupsClosed
           failed == round.failed \/ (Owned # {} /\ ~cgroupsClosed)
           complete == Owned = {} /\ cgroupsClosed'
       IN /\ cgroupsClosed' = (cgroupsClosed \/ closes)
          /\ terminalErr' = (terminalErr \/ (closes /\ poisoned))
          /\ round' = [round EXCEPT !.pc =
               IF (failed /\ ~complete) \/ terminalErr' THEN "failed" ELSE "closed"]
  /\ executable' = FALSE
  /\ UNCHANGED <<start, caller, state, closed, calls>>

CloseReturns(c) ==
  /\ caller[c].pc = "closes" /\ round.pc \in {"failed", "closed"}
  /\ caller' = Return(c, None)
  /\ UNCHANGED <<start, state, closing, calls>>

-----------------------------------------------------------------------------
Resume(c) ==
  \/ EnsureRefuses(c) \/ EnsureJoins(c) \/ EnsureReturnsCurrent(c) \/ EnsureAwaitsEarlier(c)
  \/ EnsureStopsUnresolved(c) \/ EnsureLaunches(c)
  \/ WaitEnds(c) \/ BlockEnds(c) \/ DrainEnds(c) \/ CloseReturns(c)

Stopping(a) == StopBegins(a) \/ StopDestroys(a) \/ StopEnds(a) \/ ExitStops(a)
Observing(a) == SinkReturns(a) \/ SinkStops(a) \/ ObserverTicks(a)
Closing == CloseStops \/ CloseResiduals \/ CloseEnds

Next ==
  \/ \E c \in Callers :
       \/ \E r \in Requests : BeginEnsure(c, r)
       \/ Resume(c) \/ CancelWait(c) \/ CancelBlocked(c) \/ CallStop(c) \/ CallClose(c)
  \/ \E a \in Starts : Launch(a) \/ Stopping(a) \/ Observing(a) \/ ProcessExits(a)
  \/ Closing

Spec == Init /\ [][Next]_vars

-----------------------------------------------------------------------------
\* Every variable keeps its type.
TypeOK ==
  /\ \A a \in Starts :
       /\ start[a].req \in Requests /\ start[a].waiters \in 0..Cardinality(Callers)
       /\ start[a].lease \in {"none", "allocated", "instance", "destroyed"}
       /\ start[a].process \in {"none", "running", "exited", "gone"}
       /\ start[a].observer \in {"none", "ticks", "sink", "draining", "done"}
       /\ \A k \in DOMAIN start[a].stop :
            start[a].stop[k] \in Cleanups \cup {"begun", "running"}
  /\ \A s \in Shards : current[s] \in Starts \cup {None}
  /\ \A s \in Shards : retired[s] <= latest[s]
  /\ {closed, terminalErr, cgroupsClosed, executable} \subseteq BOOLEAN

Alive(a) == start[a].process \in {"running", "exited"}

\* A shard never has two processes at once, whatever generations its callers
\* ask for: the earlier one is known to be gone before another is started.
OneProcessPerShard ==
  \A a, b \in Starts : Alive(a) /\ Alive(b) /\ ShardOf(a) = ShardOf(b) => a = b

\* A generation is served by one process at most: once published it is never
\* started again, and a published process is the newest generation asked for.
PublishedOnce ==
  /\ \A a, b \in Starts :
       start[a].published /\ start[b].published /\ Key(start[a].req) = Key(start[b].req) => a = b
  /\ \A s \in Shards : current[s] # None =>
       LET g == start[current[s]].req.generation
       IN g = latest[s] \/ g <= retired[s]

\* The handle an Ensure returns is for the key and the arguments it asked for.
HandleAsAsked ==
  \A c \in Callers :
    caller[c].got # None => start[caller[c].got].req = caller[c].req

\* A start whose process is taken to replace another finds no other: the
\* replacement in runLaunch has nothing left to stop.
ReplacementDrained ==
  \A a \in Starts : Launching(a, "publishes") => current[ShardOf(a)] = None

\* A Close that returned success left no process, no lease, no observer and no
\* pending start behind; no start finds the executable closed.
ClosedClean ==
  /\ round.pc = "closed" =>
       \A a \in Starts :
         /\ ~Alive(a) /\ start[a].done
         /\ start[a].lease \in {"none", "destroyed"}
         /\ start[a].observer \in {"none", "done"}
  /\ \A a \in Starts : Launching(a, "starts") => executable

=============================================================================
