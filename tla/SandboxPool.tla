------------------------------ MODULE SandboxPool ------------------------------
(***************************************************************************)
(* The per-session sandboxes of the harness agent                          *)
(* (harness/sandbox/agent: pool.go, run.go, serve.go and the instance part *)
(* of launch.go).  HTTP requests run scripts, each in the sandbox of its   *)
(* chat session; the pool launches, relaunches, evicts and reaps the       *)
(* sandboxd instances behind them, a session may be deleted at any moment, *)
(* and the agent shuts down.  sandboxd may exit or stop answering, and the *)
(* answer to an accepted spawn may be lost.                                *)
(***************************************************************************)
EXTENDS Naturals, Sequences, SequencesExt, FiniteSets

CONSTANTS Sessions,       \* the session keys (safeDirectory of the session id)
          Runs,           \* POST /v1/run requests
          Limit,          \* pool.limit: --max-sessions
          Budget,         \* pool.budget: --ledger-budget
          MaxChunks,      \* the longest stdin, in chunks
          LedgerCap,      \* sandboxd's maximumIdempotencyKeys
          MaxFaults,      \* bound on exits, lost answers, refusals and failed launches
          MaxDeletes,     \* bound on DELETE /v1/sessions/{session}
          MayReap,        \* whether sessions grow idle
          MayStop,        \* whether the agent is asked to stop
          None

\* The spawn, the chunks, the close and the cancel of one run.
LongestRun == MaxChunks + 3

PoolBounds ==
  /\ Limit \in Nat \ {0} /\ Budget \in Nat \ {0}
  /\ MaxChunks \in Nat /\ MaxFaults \in Nat /\ MaxDeletes \in Nat
  /\ LedgerCap >= Budget + LongestRun - 1

VARIABLES sessions,   \* pool.sessions
          closed,     \* pool.closed
          boxes,      \* every sessionSandbox, named by the run that created it
          lru,        \* the pooled sandboxes by lastUsed, the oldest first
          runs,
          stops,      \* the stop calls that have not taken the sandbox's lock
          agent,      \* where runServe is
          spent       \* the bounded events so far

vars == <<sessions, closed, boxes, lru, runs, stops, agent, spent>>

\* `exec' is whether the pool holds an executor, `alive' whether its sandboxd
\* runs; `keyed' is the executor's count and `ledger' the keys sandboxd holds.
NoBox ==
  [key |-> None, gen |-> 0, exec |-> FALSE, alive |-> FALSE, keyed |-> 0,
   ledger |-> 0, lock |-> None, busy |-> 0]

\* `tried' is the number of exec.run calls of the run, `left' the stdin chunks
\* still to send, `code' the failure it reports, `gone' whether its context is
\* cancelled, `met' the generation at which it took the lock, `starts' how often
\* sandboxd started its script.
NoRun ==
  [at |-> "idle", box |-> None, tried |-> 0, left |-> 0, streams |-> FALSE, code |-> "none",
   spawned |-> FALSE, gone |-> FALSE, note |-> FALSE, met |-> 0, starts |-> 0]

Init ==
  /\ sessions = [k \in Sessions |-> None]
  /\ closed = FALSE
  /\ boxes = [r \in Runs |-> NoBox]
  /\ lru = <<>>
  /\ runs = [r \in Runs |-> NoRun]
  /\ stops = {}
  /\ agent = "serving"
  /\ spent = [faults |-> 0, deletes |-> 0]

Pooled == {sessions[k] : k \in Sessions} \ {None}
Box(r) == boxes[runs[r].box]
Fault == spent.faults < MaxFaults /\ spent' = [spent EXCEPT !.faults = @ + 1]
At(r, phase) == runs[r].at = phase
Used(b, order) == Append(Remove(order, b), b)
Forget(b, order) == Remove(order, b)

--------------------------------------------------------------------------------
(* acquire and release, under the pool's mutex. *)

\* idleVictimLocked: the least recently used sandbox with no run in flight.
Victims == {i \in DOMAIN lru : boxes[lru[i]].busy = 0}

idleVictim == IF Victims = {} THEN None ELSE lru[CHOOSE i \in Victims : \A j \in Victims : i <= j]
Full == Cardinality(Pooled) >= Limit

\* validateRunRequest turns a bad request away before a sandbox is launched.
Reject(r) ==
  /\ At(r, "idle") /\ agent = "serving"
  /\ runs' = [runs EXCEPT ![r].at = "done", ![r].code = "invalid"]
  /\ UNCHANGED <<sessions, closed, boxes, lru, stops, agent, spent>>

AcquireKnown(r, k) ==
  /\ sessions[k] # None
  /\ boxes' = [boxes EXCEPT ![sessions[k]].busy = @ + 1]
  /\ lru' = Used(sessions[k], lru)
  /\ runs' = [runs EXCEPT ![r].at = "acquired", ![r].box = sessions[k]]
  /\ UNCHANGED <<sessions, stops>>

\* The evicted sandbox leaves the pool and is stopped by a goroutine.
AcquireNew(r, k) ==
  /\ sessions[k] = None
  /\ ~Full \/ idleVictim # None
  /\ LET evicted == IF Full THEN {idleVictim} ELSE {}
     IN  /\ sessions' = [s \in Sessions |-> IF s = k THEN r
                                            ELSE IF sessions[s] \in evicted THEN None
                                            ELSE sessions[s]]
         /\ stops' = stops \cup {[box |-> b, by |-> "evict"] : b \in evicted}
         /\ lru' = Append(SelectSeq(lru, LAMBDA b : b \notin evicted), r)
  /\ boxes' = [boxes EXCEPT ![r] = [NoBox EXCEPT !.key = k, !.busy = 1]]
  /\ runs' = [runs EXCEPT ![r].at = "acquired", ![r].box = r]

AcquireRefused(r, k) ==
  /\ closed \/ (sessions[k] = None /\ Full /\ idleVictim = None)
  /\ runs' = [runs EXCEPT ![r].at = "done", ![r].code = "busy"]
  /\ UNCHANGED <<sessions, boxes, lru, stops>>

\* A request with `chunks' chunks of stdin reaches pool.run.
Acquire(r, k) ==
  /\ At(r, "arrived")
  /\ \/ ~closed /\ (AcquireKnown(r, k) \/ AcquireNew(r, k))
     \/ AcquireRefused(r, k)
  /\ UNCHANGED <<closed, agent, spent>>

Arrive(r) ==
  /\ At(r, "idle") /\ agent = "serving"
  /\ \E chunks \in 0..MaxChunks :
        runs' = [runs EXCEPT ![r].at = "arrived", ![r].left = chunks, ![r].streams = chunks > 0]
  /\ UNCHANGED <<sessions, closed, boxes, lru, stops, agent, spent>>

Release(r) ==
  /\ At(r, "unlocked")
  /\ boxes' = [boxes EXCEPT ![runs[r].box].busy = @ - 1]
  /\ lru' = IF runs[r].box \in Pooled THEN Used(runs[r].box, lru) ELSE lru
  /\ runs' = [runs EXCEPT ![r].at = "done"]
  /\ UNCHANGED <<sessions, closed, stops, agent, spent>>

--------------------------------------------------------------------------------
(* pool.run under the sandbox's own mutex: ensure, relaunch and launch. *)

Lock(r) ==
  /\ At(r, "acquired") /\ Box(r).lock = None
  /\ boxes' = [boxes EXCEPT ![runs[r].box].lock = r]
  /\ runs' = [runs EXCEPT ![r].at = "ensure", ![r].met = Box(r).gen]
  /\ UNCHANGED <<sessions, closed, lru, stops, agent, spent>>

OverBudget(b) == boxes[b].keyed >= Budget

\* ensure: keep the executor, or clear it away and launch the next generation.
\* A note is left when an earlier generation of the sandbox existed.
Ensure(r) ==
  /\ At(r, "ensure")
  /\ LET b == runs[r].box
         keep == boxes[b].exec /\ boxes[b].alive /\ ~OverBudget(b)
     IN  /\ runs' = [runs EXCEPT ![r].at = IF keep THEN "spawn"
                                           ELSE IF boxes[b].exec /\ boxes[b].alive THEN "stopping"
                                           ELSE "launching",
                                 ![r].tried = IF keep THEN 1 ELSE @,
                                 ![r].note = ~keep /\ boxes[b].gen > 0]
         /\ boxes' = IF boxes[b].exec /\ ~boxes[b].alive
                     THEN [boxes EXCEPT ![b].exec = FALSE] ELSE boxes
  /\ UNCHANGED <<sessions, closed, lru, stops, agent, spent>>

\* relaunch, its first half: instance.stop ends the running sandboxd.
StopInstance(r) ==
  /\ At(r, "stopping")
  /\ boxes' = [boxes EXCEPT ![runs[r].box].exec = FALSE, ![runs[r].box].alive = FALSE]
  /\ runs' = [runs EXCEPT ![r].at = "launching"]
  /\ UNCHANGED <<sessions, closed, lru, stops, agent, spent>>

\* What a run does with a fresh generation: run the script, unless it may have
\* run already, in which case the failure is reported.
AfterLaunch(r) == IF runs[r].spawned THEN "unlock" ELSE "spawn"

\* launch spends a generation number; a failure leaves nothing behind.
Launch(r) ==
  /\ At(r, "launching")
  /\ boxes' = [boxes EXCEPT ![runs[r].box].gen = @ + 1, ![runs[r].box].exec = TRUE,
                            ![runs[r].box].alive = TRUE, ![runs[r].box].keyed = 0,
                            ![runs[r].box].ledger = 0]
  /\ runs' = [runs EXCEPT ![r].at = AfterLaunch(r),
                          ![r].tried = IF runs[r].spawned THEN @ ELSE @ + 1]
  /\ UNCHANGED <<sessions, closed, lru, stops, agent, spent>>

LaunchFails(r) ==
  /\ At(r, "launching") /\ Fault
  /\ boxes' = [boxes EXCEPT ![runs[r].box].gen = @ + 1]
  /\ runs' = [runs EXCEPT ![r].at = "unlock",
                          ![r].code = IF runs[r].spawned THEN @ ELSE "launch"]
  /\ UNCHANGED <<sessions, closed, lru, stops, agent>>

Unlock(r) ==
  /\ At(r, "unlock")
  /\ boxes' = [boxes EXCEPT ![runs[r].box].lock = None]
  /\ runs' = [runs EXCEPT ![r].at = "unlocked"]
  /\ UNCHANGED <<sessions, closed, lru, stops, agent, spent>>

--------------------------------------------------------------------------------
(* executor.run: spawn, feedStdin and collect.                             *)

\* shouldRelaunch: a fresh generation cures a full ledger and a silent sandboxd.
shouldRelaunch(code) == code \in {"exhausted", "unavailable", "deadline"}

\* The codes of a failed spawn that do not prove that nothing was started.
SpawnUnknown == {"unavailable", "deadline"}

\* exec.run failed: pool.run relaunches after the first attempt, retries when
\* nothing can have started, and otherwise reports.
Failed(r, code, spawned) ==
  LET again == shouldRelaunch(code) /\ ~runs[r].gone /\ runs[r].tried = 1
  IN  [runs EXCEPT ![r].code = IF again /\ ~spawned THEN "none" ELSE code,
                   ![r].spawned = spawned,
                   ![r].note = @ \/ again,
                   ![r].at = IF again THEN "stopping" ELSE "unlock"]

\* Every keyed RPC is counted before it is sent; one that arrives takes a key.
Send(r, keys, arrives) ==
  [boxes EXCEPT ![runs[r].box].keyed = @ + keys, ![runs[r].box].ledger = @ + arrives]

Spawn(r) ==
  /\ At(r, "spawn") /\ Box(r).alive
  /\ boxes' = Send(r, 1, 1)
  /\ runs' = [runs EXCEPT ![r].at = IF runs[r].streams THEN "feed" ELSE "collect",
                          ![r].starts = @ + 1, ![r].spawned = TRUE]
  /\ UNCHANGED <<sessions, closed, lru, stops, agent, spent>>

\* sandboxd started the script and the answer did not come back.
SpawnAnswerLost(r) ==
  /\ At(r, "spawn") /\ Box(r).alive /\ Fault
  /\ boxes' = Send(r, 1, 1)
  /\ \E code \in {"unavailable", "deadline"} \cup (IF runs[r].gone THEN {"cancelled"} ELSE {}) :
        runs' = [Failed(r, code, code \in SpawnUnknown) EXCEPT ![r].starts = @ + 1]
  /\ UNCHANGED <<sessions, closed, lru, stops, agent>>

\* sandboxd refuses: its ledger or its process table is full, or the permit is
\* rejected.
SpawnRefused(r) ==
  /\ At(r, "spawn") /\ Box(r).alive /\ Fault
  /\ boxes' = Send(r, 1, 1)
  /\ \E code \in {"exhausted", "other"} : runs' = Failed(r, code, FALSE)
  /\ UNCHANGED <<sessions, closed, lru, stops, agent>>

\* The request never reached sandboxd: it has exited, or the caller is gone.
SpawnUndelivered(r) ==
  /\ At(r, "spawn")
  /\ \/ ~Box(r).alive /\ runs' = Failed(r, "unavailable", "unavailable" \in SpawnUnknown)
     \/ runs[r].gone /\ runs' = Failed(r, "cancelled", FALSE)
  /\ boxes' = Send(r, 1, 0)
  /\ UNCHANGED <<sessions, closed, lru, stops, agent, spent>>

\* One chunk, or the close after the last one.
Counted(n) == n

Feed(r) ==
  /\ At(r, "feed") /\ Box(r).alive /\ ~runs[r].gone
  /\ boxes' = Send(r, Counted(1), 1)
  /\ runs' = [runs EXCEPT ![r].left = IF @ = 0 THEN 0 ELSE @ - 1,
                          ![r].at = IF runs[r].left = 0 THEN "collect" ELSE @]
  /\ UNCHANGED <<sessions, closed, lru, stops, agent, spent>>

\* A failed write is the script's business, unless the caller is gone.
FeedFails(r) ==
  /\ At(r, "feed")
  /\ \/ /\ runs[r].gone
        /\ boxes' = Send(r, Counted(1) + 1, IF Box(r).alive THEN 1 ELSE 0)
        /\ runs' = Failed(r, "cancelled", TRUE)
        /\ UNCHANGED spent
     \/ /\ ~runs[r].gone /\ ~Box(r).alive
        /\ boxes' = Send(r, Counted(1), 0)
        /\ runs' = [runs EXCEPT ![r].at = "collect"]
        /\ UNCHANGED spent
     \/ /\ ~runs[r].gone /\ Box(r).alive /\ Fault
        /\ boxes' = Send(r, Counted(1), 1)
        /\ runs' = [runs EXCEPT ![r].at = "collect"]
  /\ UNCHANGED <<sessions, closed, lru, stops, agent>>

\* collect sees the exit event.
CollectExit(r) ==
  /\ At(r, "collect") /\ Box(r).alive
  /\ runs' = [runs EXCEPT ![r].at = "unlock", ![r].code = "ok"]
  /\ UNCHANGED <<sessions, closed, boxes, lru, stops, agent, spent>>

\* It gives up: the caller is gone, the process outlives its deadline, sandboxd
\* reports an error, or the attachment fails.  All but the reported error cancel.
CollectFails(r) ==
  /\ At(r, "collect")
  /\ \/ /\ runs[r].gone
        /\ boxes' = Send(r, 1, IF Box(r).alive THEN 1 ELSE 0)
        /\ runs' = Failed(r, "cancelled", TRUE)
        /\ UNCHANGED spent
     \/ /\ ~Box(r).alive
        /\ boxes' = Send(r, 1, 0)
        /\ runs' = Failed(r, "unavailable", TRUE)
        /\ UNCHANGED spent
     \/ /\ Box(r).alive /\ Fault
        /\ \E code \in {"unavailable", "deadline", "other"} : runs' = Failed(r, code, TRUE)
        /\ boxes' = Send(r, 1, 1)
     \/ /\ Box(r).alive /\ Fault
        /\ runs' = Failed(r, "other", TRUE)
        /\ UNCHANGED boxes
  /\ UNCHANGED <<sessions, closed, lru, stops, agent>>

--------------------------------------------------------------------------------
(* sandboxSession.stop, deletion, eviction, the reaper and shutdown.        *)

Exits(b) ==
  /\ boxes[b].alive /\ Fault
  /\ boxes' = [boxes EXCEPT ![b].alive = FALSE]
  /\ UNCHANGED <<sessions, closed, lru, runs, stops, agent>>

\* stop waits for the sandbox's lock and ends its sandboxd, if it has one.
Stop(s) ==
  /\ s \in stops /\ boxes[s.box].lock = None
  /\ boxes' = [boxes EXCEPT ![s.box].exec = FALSE,
                            ![s.box].alive = IF boxes[s.box].exec THEN FALSE ELSE @]
  /\ stops' = stops \ {s}
  /\ UNCHANGED <<sessions, closed, lru, runs, agent, spent>>

closeSession(k) ==
  /\ agent = "serving" /\ sessions[k] # None
  /\ spent.deletes < MaxDeletes
  /\ spent' = [spent EXCEPT !.deletes = @ + 1]
  /\ sessions' = [sessions EXCEPT ![k] = None]
  /\ lru' = Forget(sessions[k], lru)
  /\ stops' = stops \cup {[box |-> sessions[k], by |-> "delete"]}
  /\ UNCHANGED <<closed, boxes, runs, agent>>

\* reap: every sandbox idle for too long, that is, the idle ones among the
\* least recently used.
reap ==
  /\ MayReap /\ agent \in {"serving", "draining"} /\ \A s \in stops : s.by # "reap"
  /\ \E n \in DOMAIN lru :
       LET victims == {lru[i] : i \in Victims \cap 1..n}
       IN  /\ victims # {}
           /\ sessions' = [k \in Sessions |-> IF sessions[k] \in victims THEN None ELSE sessions[k]]
           /\ lru' = SelectSeq(lru, LAMBDA b : b \notin victims)
           /\ stops' = stops \cup {[box |-> b, by |-> "reap"] : b \in victims}
  /\ UNCHANGED <<closed, boxes, runs, agent, spent>>

ClientGone(r) ==
  /\ ~At(r, "idle") /\ ~At(r, "done") /\ ~runs[r].gone /\ Fault
  /\ runs' = [runs EXCEPT ![r].gone = TRUE]
  /\ UNCHANGED <<sessions, closed, boxes, lru, stops, agent>>

\* runServe: a signal or the backend's EOF cancels every request.
BeginShutdown ==
  /\ MayStop /\ agent = "serving"
  /\ agent' = "draining"
  /\ runs' = [r \in Runs |-> [runs[r] EXCEPT !.gone = TRUE]]
  /\ UNCHANGED <<sessions, closed, boxes, lru, stops, spent>>

\* pool.close, after the handlers returned or five seconds passed.
close ==
  /\ agent = "draining"
  /\ agent' = "closing"
  /\ closed' = TRUE
  /\ stops' = stops \cup {[box |-> b, by |-> "close"] : b \in Pooled}
  /\ sessions' = [k \in Sessions |-> None]
  /\ lru' = <<>>
  /\ UNCHANGED <<boxes, runs, spent>>

\* close has waited for its stops; runServe returns.
CloseDone ==
  /\ agent = "closing" /\ \A s \in stops : s.by # "close"
  /\ agent' = "stopped"
  /\ UNCHANGED <<sessions, closed, boxes, lru, runs, stops, spent>>

--------------------------------------------------------------------------------

RunStep(r) ==
  \/ \E k \in Sessions : Acquire(r, k)
  \/ Lock(r) \/ Ensure(r) \/ StopInstance(r) \/ Launch(r) \/ LaunchFails(r)
  \/ Spawn(r) \/ SpawnAnswerLost(r) \/ SpawnRefused(r) \/ SpawnUndelivered(r)
  \/ Feed(r) \/ FeedFails(r) \/ CollectExit(r) \/ CollectFails(r)
  \/ Unlock(r) \/ Release(r)

Next ==
  /\ agent # "stopped"
  /\ \/ \E r \in Runs : Reject(r) \/ Arrive(r) \/ RunStep(r) \/ ClientGone(r) \/ Exits(r)
     \/ \E s \in stops : Stop(s)
     \/ \E k \in Sessions : closeSession(k)
     \/ reap \/ BeginShutdown \/ close \/ CloseDone

Spec == Init /\ [][Next]_vars

--------------------------------------------------------------------------------
(* Properties.                                                              *)

TypeOK ==
  /\ sessions \in [Sessions -> Runs \cup {None}]
  /\ lru \in Seq(Runs)
  /\ \A r \in Runs : boxes[r].lock \in Runs \cup {None} /\ boxes[r].busy \in Nat
  /\ stops \subseteq [box : Runs, by : {"evict", "delete", "reap", "close"}]

\* The script of a request is started at most once, whatever answers are lost
\* and however often the pool relaunches the sandbox behind it.
NeverTwice == \A r \in Runs : runs[r].starts <= 1

\* A request that was told its script ran to its end had it started, and one
\* whose failure the pool would retry had not.
ToldTheTruth ==
  \A r \in Runs : /\ runs[r].code = "ok" => runs[r].starts = 1
                  /\ runs[r].at = "launching" /\ ~runs[r].spawned => runs[r].starts = 0

\* The ledger of a generation never fills up: the count the pool keeps is never
\* behind sandboxd's, and the pool rotates the generation before a run that
\* might not fit.
LedgerRoom == \A b \in Runs : boxes[b].ledger <= LedgerCap

\* A sandboxd that runs is the one its sandbox's executor drives: no generation
\* is left running when the next one starts.
NoneLeftRunning == \A b \in Runs : boxes[b].alive => boxes[b].exec

\* The pool keeps at most --max-sessions sandboxes.
WithinLimit == Cardinality(Pooled) <= Limit

\* Every running sandboxd has someone who will stop it: its sandbox is pooled,
\* a stop is on its way, or a run still uses it.
Owned ==
  \A b \in Runs : boxes[b].alive =>
    \/ b \in Pooled
    \/ \E s \in stops : s.box = b
    \/ boxes[b].busy > 0

\* A session's sandbox is used by one run at a time, and only by runs that
\* acquired it.
OneRunPerSandbox ==
  \A r \in Runs : runs[r].at \in {"ensure", "stopping", "launching", "spawn", "feed", "collect", "unlock"}
                    => Box(r).lock = r /\ Box(r).busy > 0

\* A run that ends well in another generation than the one it found carries a
\* note that /workspace was reset.
ResetsAreTold ==
  \A r \in Runs : (runs[r].code = "ok" /\ At(r, "unlock") /\ runs[r].met > 0 /\ Box(r).gen # runs[r].met)
                    => runs[r].note

===============================================================================
