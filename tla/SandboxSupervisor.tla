-------------------------- MODULE SandboxSupervisor --------------------------
(***************************************************************************)
(* The process side of the sandbox supervisor: idempotent spawns that      *)
(* share one runner start, terminations competing for a process under its  *)
(* control lock, exits, and the fence that closes the sandbox.             *)
(*                                                                         *)
(* A request is a record [request, process, command, body]; its digest is  *)
(* the record itself.  process[i] is the i-th process the runner started   *)
(* together with its record, which exists once "registered" holds.         *)
(***************************************************************************)
EXTENDS Naturals, Sequences, FiniteSets

CONSTANTS
    Callers,        \* goroutines that call Spawn
    Requests,       \* the spawn requests they may make
    Commands,       \* the logical commands of the allowlist
    Terminations,   \* the reasons other than a fence to end a process
    MaxGeneration,  \* bound on fences: generations 2 .. MaxGeneration
    MaxFailures,    \* bound on failed starts and failed signals
    None

VARIABLES
    sup,        \* generation, fenced, and the four identity tables
    thr,        \* per caller: where its Spawn is, and what it returned
    process,    \* the started processes and their records
    control,    \* per process: who holds controlMu, and with what
    pending,    \* per process: terminations waiting for controlMu
    fence,      \* per generation: records that Fence call has still to kill
    failures

vars == <<sup, thr, process, control, pending, fence, failures>>

RequestIDs == {r.request : r \in Requests}
ProcessIDs == {r.process : r \in Requests}
Generations == 2 .. MaxGeneration
MaxProcesses == Cardinality(Callers)

priority(reason) ==
    CASE reason = "fenced" -> 5
      [] reason = "output_limit" -> 4
      [] reason = "deadline" -> 3
      [] reason = "canceled" -> 2
      [] OTHER -> 0

Free == [held |-> FALSE, reason |-> "", signal |-> "", previous |-> "", previousSignal |-> ""]

Idle == [pc |-> "idle", request |-> None, call |-> None, process |-> 0, answer |-> ""]

Init ==
    /\ sup = [generation |-> 1, fenced |-> FALSE,
              requests |-> [q \in RequestIDs |-> 0], processIDs |-> [p \in ProcessIDs |-> 0],
              inflightReq |-> [q \in RequestIDs |-> None],
              inflightProc |-> [p \in ProcessIDs |-> None]]
    /\ thr = [c \in Callers |-> Idle]
    /\ process = << >>
    /\ control = [i \in 1 .. MaxProcesses |-> Free]
    /\ pending = [i \in 1 .. MaxProcesses |-> {}]
    /\ fence = [g \in Generations |-> {}]
    /\ failures = 0

-----------------------------------------------------------------------------
(* Spawn.                                                                  *)

\* The recorded process of a request, under either of its identities.
Recorded(r) == {sup.requests[r.request], sup.processIDs[r.process]} \ {0}

\* The calls in flight under either identity of a request.
InFlight(r) == {sup.inflightReq[r.request], sup.inflightProc[r.process]} \ {None}

Return(c, r, answer, i) ==
    thr' = [thr EXCEPT ![c] = [Idle EXCEPT !.pc = "done", !.request = r,
                                           !.answer = answer, !.process = i]]

SpawnFenced(c, r) ==
    /\ sup.fenced
    /\ Return(c, r, "fenced", 0)
    /\ UNCHANGED sup

SpawnReused(c, r) ==
    /\ ~sup.fenced
    /\ Recorded(r) # {}
    /\ IF sup.requests[r.request] # 0
         THEN LET i == sup.requests[r.request] IN
              IF process[i].request = r THEN Return(c, r, "ok", i) ELSE Return(c, r, "conflict", 0)
         ELSE LET i == sup.processIDs[r.process] IN
              IF process[i].request = r THEN Return(c, r, "ok", i) ELSE Return(c, r, "conflict", 0)
    /\ UNCHANGED sup

SpawnJoins(c, r) ==
    /\ ~sup.fenced
    /\ Recorded(r) = {}
    /\ InFlight(r) # {}
    /\ LET d == IF sup.inflightReq[r.request] # None
                THEN sup.inflightReq[r.request] ELSE sup.inflightProc[r.process] IN
       IF thr[d].request = r
         THEN thr' = [thr EXCEPT ![c] = [Idle EXCEPT !.pc = "waiting", !.request = r, !.call = d]]
         ELSE Return(c, r, "conflict", 0)
    /\ UNCHANGED sup

SpawnBegins(c, r) ==
    /\ ~sup.fenced
    /\ Recorded(r) = {}
    /\ InFlight(r) = {}
    /\ IF r.command \in Commands
         THEN /\ thr' = [thr EXCEPT ![c] = [Idle EXCEPT !.pc = "starting", !.request = r]]
              /\ sup' = [sup EXCEPT !.inflightReq[r.request] = c, !.inflightProc[r.process] = c]
         ELSE Return(c, r, "denied", 0) /\ UNCHANGED sup

Spawn(c) ==
    /\ thr[c].pc = "idle"
    /\ \E r \in Requests :
         SpawnFenced(c, r) \/ SpawnReused(c, r) \/ SpawnJoins(c, r) \/ SpawnBegins(c, r)
    /\ UNCHANGED <<process, control, pending, fence, failures>>

\* The tables without the call a thread registered.
WithoutCall(r) ==
    [sup EXCEPT !.inflightReq[r.request] = None, !.inflightProc[r.process] = None]

StartFails(c) ==
    /\ thr[c].pc = "starting"
    /\ failures < MaxFailures
    /\ failures' = failures + 1
    /\ sup' = WithoutCall(thr[c].request)
    /\ Return(c, thr[c].request, "failed", 0)
    /\ UNCHANGED <<process, control, pending, fence>>

NewProcess(r) ==
    [request |-> r, alive |-> TRUE, killed |-> FALSE, unkillable |-> FALSE, registered |-> FALSE,
     generation |-> 0, reason |-> "", signal |-> "", delivered |-> {},
     terminal |-> FALSE, result |-> ""]

StartSucceeds(c) ==
    /\ thr[c].pc = "starting"
    /\ process' = Append(process, NewProcess(thr[c].request))
    /\ thr' = [thr EXCEPT ![c].pc = "started", ![c].process = Len(process) + 1]
    /\ UNCHANGED <<sup, control, pending, fence, failures>>

\* The supervisor may have been fenced while the runner started the process:
\* the call then fails and the process is killed.
Register(c) ==
    /\ thr[c].pc = "started"
    /\ IF sup.fenced
         THEN /\ sup' = WithoutCall(thr[c].request)
              /\ thr' = [thr EXCEPT ![c].pc = "abandoning"]
              /\ UNCHANGED process
         ELSE /\ process' = [process EXCEPT ![thr[c].process].registered = TRUE,
                                            ![thr[c].process].generation = sup.generation]
              /\ thr' = [thr EXCEPT ![c].pc = "registered"]
              /\ UNCHANGED sup
    /\ UNCHANGED <<control, pending, fence, failures>>

\* SignalGroup(kill) of a process that gets no record; its error is dropped.
Abandon(c) ==
    /\ thr[c].pc = "abandoning"
    /\ LET i == thr[c].process IN
       \/ process' = [process EXCEPT ![i].killed = TRUE] /\ UNCHANGED failures
       \/ /\ failures < MaxFailures
          /\ failures' = failures + 1
          /\ process' = [process EXCEPT ![i].unkillable = TRUE]
    /\ Return(c, thr[c].request, "fenced", 0)
    /\ UNCHANGED <<sup, control, pending, fence>>

RecordIdentity(c) ==
    /\ thr[c].pc = "registered"
    /\ LET r == thr[c].request IN
       sup' = [WithoutCall(r) EXCEPT !.requests[r.request] = thr[c].process,
                                     !.processIDs[r.process] = thr[c].process]
    /\ Return(c, thr[c].request, "ok", thr[c].process)
    /\ UNCHANGED <<process, control, pending, fence, failures>>

\* A call is finished when done is closed, which a fenced call does before it
\* kills its process.
Finished(d) == thr[d].pc \in {"done", "abandoning"}

\* A duplicate returns what the call it joined returns, or its own context ends.
WaitEnds(c) ==
    /\ thr[c].pc = "waiting"
    /\ LET d == thr[c].call IN
       /\ Finished(d)
       /\ Return(c, thr[c].request, IF thr[d].pc = "done" THEN thr[d].answer ELSE "fenced",
                 IF thr[d].answer = "ok" THEN thr[d].process ELSE 0)
    /\ UNCHANGED <<sup, process, control, pending, fence, failures>>

WaitCanceled(c) ==
    /\ thr[c].pc = "waiting"
    /\ Return(c, thr[c].request, "canceled", 0)
    /\ UNCHANGED <<sup, process, control, pending, fence, failures>>

-----------------------------------------------------------------------------
(* Terminations and exits.                                                 *)

\* A handle resolves while its generation is the supervisor's.
processForHandle(i) ==
    /\ i \in 1 .. Len(process)
    /\ process[i].registered
    /\ process[i].generation = sup.generation

\* Some Spawn returned the handle of this process.
Held(i) == \E c \in Callers : thr[c].answer = "ok" /\ thr[c].process = i

Signal(i) ==
    /\ Held(i)
    /\ processForHandle(i)
    /\ \E reason \in Terminations \cap {"", "canceled"} :
         pending' = [pending EXCEPT ![i] =
                       @ \cup {<<reason, IF reason = "" THEN "term" ELSE "cancel">>}]
    /\ UNCHANGED <<sup, thr, process, control, fence, failures>>

\* The deadline goroutine or a stream that met the output limit.
Internal(i) ==
    /\ i \in 1 .. Len(process)
    /\ process[i].registered
    /\ ~process[i].terminal
    /\ \E reason \in Terminations \cap {"deadline", "output_limit"} :
         pending' = [pending EXCEPT ![i] = @ \cup {<<reason, "kill">>}]
    /\ UNCHANGED <<sup, thr, process, control, fence, failures>>

Replaces(reason, previous) == reason # "" /\ priority(reason) >= priority(previous)

\* terminate up to the signal: controlMu is taken, a terminal record refuses,
\* and the reason is recorded if it is at least as strong as the present one.
TerminateBegins(i) ==
    /\ ~control[i].held
    /\ \E t \in pending[i] :
         /\ pending' = [pending EXCEPT ![i] = @ \ {t}]
         /\ IF process[i].terminal
              THEN UNCHANGED <<process, control>>
              ELSE /\ control' = [control EXCEPT ![i] =
                        [held |-> TRUE, reason |-> t[1], signal |-> t[2],
                         previous |-> process[i].reason, previousSignal |-> process[i].signal]]
                   /\ process' = IF Replaces(t[1], process[i].reason)
                                 THEN [process EXCEPT ![i].reason = t[1], ![i].signal = t[2]]
                                 ELSE process
    /\ UNCHANGED <<sup, thr, fence, failures>>

TerminateSignals(i) ==
    /\ control[i].held
    /\ control' = [control EXCEPT ![i] = Free]
    /\ process' = [process EXCEPT ![i].killed = @ \/ control[i].signal # "term",
                                  ![i].delivered = @ \cup {control[i].reason}]
    /\ UNCHANGED <<sup, thr, pending, fence, failures>>

\* SignalGroup fails: the earlier reason comes back unless the exit was taken.
\* Mutant of Restored: the reason is cleared, whatever it was.
RestoredToNone(i) == [process[i] EXCEPT !.reason = "", !.signal = "", !.unkillable = TRUE]
Restored(i) ==
    IF process[i].terminal
      THEN [process[i] EXCEPT !.unkillable = TRUE]
      ELSE [process[i] EXCEPT !.reason = control[i].previous,
                              !.signal = control[i].previousSignal, !.unkillable = TRUE]

TerminateFails(i) ==
    /\ control[i].held
    /\ failures < MaxFailures
    /\ failures' = failures + 1
    /\ control' = [control EXCEPT ![i] = Free]
    /\ process' = [process EXCEPT ![i] = Restored(i)]
    /\ UNCHANGED <<sup, thr, pending, fence>>

\* The process ends, killed or of itself.
Dies(i) ==
    /\ i \in 1 .. Len(process)
    /\ process[i].alive
    /\ process' = [process EXCEPT ![i].alive = FALSE]
    /\ UNCHANGED <<sup, thr, control, pending, fence, failures>>

\* The exit goroutine, once both streams and the process have ended.
Exit(i) ==
    /\ i \in 1 .. Len(process)
    /\ process[i].registered /\ ~process[i].alive /\ ~process[i].terminal
    /\ \E own \in {"signaled", "failed", "exited"} :
         process' = [process EXCEPT ![i].terminal = TRUE,
                                    ![i].result = IF process[i].reason # "" THEN process[i].reason ELSE own]
    /\ UNCHANGED <<sup, thr, control, pending, fence, failures>>

-----------------------------------------------------------------------------
(* Fence.                                                                  *)

\* The records a fence kills: every process in the supervisor's table.
Fenceable == {i \in 1 .. Len(process) : process[i].registered}

Fence(g) ==
    /\ g > sup.generation
    /\ sup' = [sup EXCEPT !.generation = g, !.fenced = TRUE]
    /\ fence' = [fence EXCEPT ![g] = Fenceable]
    /\ UNCHANGED <<thr, process, control, pending, failures>>

\* One record after another enters terminate.
FenceTerminates(g) ==
    /\ \E i \in fence[g] :
         /\ fence' = [fence EXCEPT ![g] = @ \ {i}]
         /\ pending' = [pending EXCEPT ![i] = @ \cup {<<"fenced", "kill">>}]
    /\ UNCHANGED <<sup, thr, process, control, failures>>

-----------------------------------------------------------------------------
SpawnStep(c) ==
    \/ StartSucceeds(c)
    \/ Register(c)
    \/ Abandon(c)
    \/ RecordIdentity(c)
    \/ WaitEnds(c)

TerminateStep(i) == TerminateBegins(i) \/ TerminateSignals(i)

Next ==
    \/ \E c \in Callers : Spawn(c) \/ StartFails(c) \/ WaitCanceled(c) \/ SpawnStep(c)
    \/ \E i \in 1 .. MaxProcesses :
         Signal(i) \/ Internal(i) \/ TerminateStep(i) \/ TerminateFails(i) \/ Dies(i) \/ Exit(i)
    \/ \E g \in Generations : Fence(g) \/ FenceTerminates(g)

Spec == Init /\ [][Next]_vars

-----------------------------------------------------------------------------
(* Properties.                                                             *)

\* "Concurrent duplicates share one runner start": a request ID and a process
\* ID never have two processes, whatever calls race and fail before.
OneStart ==
    \A i, j \in 1 .. Len(process) :
        \/ i = j
        \/ /\ process[i].request.request # process[j].request.request
           /\ process[i].request.process # process[j].request.process

\* Fence "invalidates every issued handle": in a fenced sandbox no handle
\* resolves, also not that of a start the fence overtook.
NoHandleAfterFence == sup.fenced => \A i \in 1 .. Len(process) : ~processForHandle(i)

\* A fence leaves no process behind: when it has gone through its records,
\* every process that still lives has been sent a kill, unless signalling it
\* failed, is about to be sent one, or is still in the hands of its Spawn.
FenceKills ==
    sup.fenced => \A i \in 1 .. Len(process) :
        \/ ~process[i].alive
        \/ process[i].killed \/ process[i].unkillable
        \/ process[i].terminal
        \/ <<"fenced", "kill">> \in pending[i] \/ control[i].held
        \/ \E g \in Generations : i \in fence[g]
        \/ \E c \in Callers : thr[c].process = i /\ thr[c].pc \in {"started", "abandoning"}

\* The reported reason is at least as strong as every termination that was
\* delivered before the exit was taken: a cancel that comes after a fence, or
\* one that fails, does not hide it.
StrongestReason ==
    \A i \in 1 .. Len(process) :
        process'[i].terminal /\ ~process[i].terminal =>
            \A reason \in process[i].delivered : priority(process'[i].result) >= priority(reason)

=============================================================================
