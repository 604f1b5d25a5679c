---------------------------- MODULE NsjailLauncher -----------------------------
(***************************************************************************)
(* The NsJail launcher (internal/executor/nsjail/launcher_linux.go).       *)
(* Launchers of several processes materialize generations of one sandbox   *)
(* identity.  What admits a launch is a directory made with an exclusive   *)
(* mkdir, and identity directories are shared and removed when empty, so   *)
(* every step is one or two system calls that interleave with the others.  *)
(* A started instance is killed and destroyed by concurrent callers whose  *)
(* attempts are shared, fail and are retried.                              *)
(***************************************************************************)
EXTENDS Naturals, FiniteSets, FiniteSetsExt

CONSTANTS Launches,     \* calls of Launcher.Start; a started one is its instance
          Generations,  \* the generations they may start
          Calls,        \* calls of Kill and Destroy
          None,         \* no launch, no call
          MaxFaults     \* bound on failing system calls and cancelled contexts

LauncherBounds == MaxFaults \in Nat /\ None \notin Launches \cup Calls

VARIABLES ident,     \* the inode of the identity directory in each tree, 0: none
          gens,      \* the launch whose generation directory is in each tree
          launch,    \* Start, and the process and handles of the instance
          kill,      \* Instance.Kill
          destroy,   \* Instance.Destroy
          calls,
          faults

vars == <<ident, gens, launch, kill, destroy, calls, faults>>

Trees == {"sandbox", "cgroup"}

NoLaunch ==
  [at |-> "idle", gen |-> 0, held |-> [t \in Trees |-> 0], created |-> FALSE,
   nonce |-> "none", handles |-> "none", leader |-> "none", spawned |-> FALSE,
   child |-> FALSE, leftovers |-> FALSE]

\* `failing' is the error of the attempt that runs, `err' killErr and destroyErr,
\* what the last attempt ended with.
NoKill == [complete |-> FALSE, at |-> "none", by |-> None, failing |-> FALSE, err |-> FALSE,
           begun |-> 0, ended |-> 0]

NoDestroy ==
  [complete |-> FALSE, at |-> "none", failing |-> FALSE, err |-> FALSE, waits |-> 0,
   cgroupRemoved |-> FALSE, begun |-> 0, ended |-> 0]

NoCall == [at |-> "idle", of |-> None, waits |-> 0, answer |-> "none"]

Init ==
  /\ ident = [t \in Trees |-> 0]
  /\ gens = [t \in Trees |-> [g \in Generations |-> None]]
  /\ launch = [l \in Launches |-> NoLaunch]
  /\ kill = [l \in Launches |-> NoKill]
  /\ destroy = [l \in Launches |-> NoDestroy]
  /\ calls = [c \in Calls |-> NoCall]
  /\ faults = 0

Fails == faults < MaxFaults /\ faults' = faults + 1

instance == <<kill, destroy, calls>>
files == <<ident, gens>>

At(l, stage) == [launch EXCEPT ![l].at = stage]

\* An inode that nobody holds.
FreshInode(t) ==
  Min((1..(Cardinality(Launches) + 1)) \ ({ident[t]} \cup {launch[l].held[t] : l \in Launches}))

Empty(t) == \A g \in Generations : gens[t][g] = None

\* unlinkat(AT_REMOVEDIR) of the identity directory: only an empty one goes.
IdentityRemoved(t) == IF Empty(t) THEN [ident EXCEPT ![t] = 0] ELSE ident

\* cgroup.events: something still runs in the cgroup of generation g.
Populated(g) == gens["cgroup"][g] # None /\ launch[gens["cgroup"][g]].child

--------------------------------------------------------------------------------
(* Start: materialization.                                                 *)

\* Lines 128-282: the plan and every artifact are checked before anything is
\* written.
Start(l, g) ==
  /\ launch[l].at = "idle"
  /\ \/ /\ launch' = [launch EXCEPT ![l].at = "mkdir sandbox", ![l].gen = g]
        /\ UNCHANGED faults
     \/ /\ Fails
        /\ launch' = At(l, "failed")
  /\ UNCHANGED <<files, instance>>

\* The failure of a step: before the generation directory exists Start returns,
\* afterwards it cleans up, and once the nonce is registered it revokes first.
OnFailure(l, t) == IF t = "sandbox" THEN "failed" ELSE "clean cgroup"

MkdirStage(t) == IF t = "sandbox" THEN "mkdir sandbox" ELSE "mkdir cgroup"
OpenStage(t) == IF t = "sandbox" THEN "open sandbox" ELSE "open cgroup"
UndoStage(t) == IF t = "sandbox" THEN "undo sandbox" ELSE "undo cgroup"
CreateStage(t) == IF t = "sandbox" THEN "create sandbox" ELSE "create cgroup"

\* ensurePrivateDirectory: mkdirat, where an existing directory is accepted.
MkdirIdentity(l, t) ==
  /\ launch[l].at = MkdirStage(t)
  /\ launch' = [launch EXCEPT ![l].at = OpenStage(t), ![l].created = (ident[t] = 0)]
  /\ ident' = [ident EXCEPT ![t] = IF @ = 0 THEN FreshInode(t) ELSE @]
  /\ UNCHANGED <<gens, instance, faults>>

\* ensurePrivateDirectory: openat2, chown, chmod and the exact check.
OpenIdentity(l, t) ==
  /\ launch[l].at = OpenStage(t)
  /\ \/ /\ ident[t] # 0
        /\ launch' = [launch EXCEPT ![l].at = CreateStage(t), ![l].held[t] = ident[t]]
        /\ UNCHANGED faults
     \/ /\ \/ ident[t] = 0 /\ UNCHANGED faults
           \/ ident[t] # 0 /\ Fails
        /\ launch' = At(l, IF launch[l].created THEN UndoStage(t) ELSE OnFailure(l, t))
  /\ UNCHANGED <<files, instance>>

\* ensurePrivateDirectory: what it created it removes again.
UndoIdentity(l, t) ==
  /\ launch[l].at = UndoStage(t)
  /\ ident' = IdentityRemoved(t)
  /\ launch' = At(l, OnFailure(l, t))
  /\ UNCHANGED <<gens, instance, faults>>

\* mkdirat fails in a directory that was removed (ENOENT) and on a name that
\* exists (EEXIST).
MayCreate(l, t) == launch[l].held[t] = ident[t] /\ gens[t][launch[l].gen] = None

\* createPrivateDirectoryExclusive of the generation: the admission in the
\* sandbox tree.
CreateGeneration(l, t) ==
  /\ launch[l].at = CreateStage(t)
  /\ \/ /\ MayCreate(l, t)
        /\ gens' = [gens EXCEPT ![t][launch[l].gen] = l]
        /\ launch' = At(l, IF t = "sandbox" THEN "write config" ELSE "hold")
        /\ UNCHANGED faults
     \/ /\ \/ ~MayCreate(l, t) /\ UNCHANGED faults
           \/ MayCreate(l, t) /\ Fails
        /\ launch' = At(l, OnFailure(l, t))
        /\ UNCHANGED gens
  /\ UNCHANGED <<ident, instance>>

\* The stages of Start that touch nothing another launch sees: the workspace and
\* control directories and the configuration, the duplicated handles, and the
\* second check of context, plan and configuration.
PrivateStages ==
  [s \in {"write config", "hold", "verify"} |->
     CASE s = "write config" -> "mkdir cgroup" [] s = "hold" -> "verify" [] OTHER -> "register"]

PrivateStep(l) ==
  /\ launch[l].at \in DOMAIN PrivateStages
  /\ \/ /\ launch' = [launch EXCEPT ![l].at = PrivateStages[@],
                                    ![l].handles = IF launch[l].at = "hold" THEN "open" ELSE @]
        /\ UNCHANGED faults
     \/ /\ Fails
        /\ launch' = At(l, "clean cgroup")
  /\ UNCHANGED <<files, instance>>

RegisterNonce(l) ==
  /\ launch[l].at = "register"
  /\ \/ /\ launch' = [launch EXCEPT ![l].at = "exec", ![l].nonce = "registered"]
        /\ UNCHANGED faults
     \/ /\ Fails
        /\ launch' = At(l, "clean cgroup")
  /\ UNCHANGED <<files, instance>>

\* The pipe and osProcessStarter.Start.  A process whose pidfd cannot be opened
\* is killed with its group and reaped; what it already started in its cgroup is
\* not in that group.
Exec(l) ==
  /\ launch[l].at = "exec"
  /\ \/ /\ launch' = [launch EXCEPT ![l].at = "running", ![l].leader = "alive"]
        /\ UNCHANGED faults
     \/ /\ Fails
        /\ \E spawned \in BOOLEAN :
             launch' = [launch EXCEPT ![l].at = "revoke", ![l].leader = "dead",
                                      ![l].spawned = spawned, ![l].child = spawned]
  /\ UNCHANGED <<files, instance>>

\* revokeRegisteredNonce goes on to the cleanup whether or not the revocation
\* was confirmed in time.
RevokeNonce(l) ==
  /\ launch[l].at = "revoke"
  /\ \/ /\ launch' = [launch EXCEPT ![l].at = "clean cgroup", ![l].nonce = "revoked"]
        /\ UNCHANGED faults
     \/ /\ Fails
        /\ launch' = [launch EXCEPT ![l].at = "clean cgroup", ![l].leftovers = TRUE]
  /\ UNCHANGED <<files, instance>>

--------------------------------------------------------------------------------
(* cleanupGeneration, by name.                                             *)

Abandoned(l) == [launch EXCEPT ![l].at = "failed", ![l].leftovers = TRUE,
                               ![l].handles = IF @ = "open" THEN "closed" ELSE @]

\* What follows a cgroup directory that was not removed: the error is returned
\* and the admission directory stays.
AfterCgroup(l) == {"failed"}

CleanCgroup(l) ==
  /\ launch[l].at = "clean cgroup"
  /\ LET g == launch[l].gen IN
     \/ /\ ~Populated(g)
        /\ gens' = [gens EXCEPT !["cgroup"][g] = None]
        /\ launch' = At(l, IF ident["cgroup"] = 0 THEN "clean sandbox" ELSE "clean cgroup identity")
        /\ UNCHANGED faults
     \/ /\ \/ Populated(g) /\ UNCHANGED faults
           \/ ~Populated(g) /\ Fails
        /\ \E stage \in AfterCgroup(l) :
             launch' = IF stage = "failed" THEN Abandoned(l) ELSE At(l, stage)
        /\ UNCHANGED gens
  /\ UNCHANGED <<ident, instance>>

CleanCgroupIdentity(l) ==
  /\ launch[l].at = "clean cgroup identity"
  /\ ident' = IdentityRemoved("cgroup")
  /\ launch' = At(l, "clean sandbox")
  /\ UNCHANGED <<gens, instance, faults>>

\* removeTreeBeneath: the contents, then the generation directory.
CleanSandbox(l) ==
  /\ launch[l].at = "clean sandbox"
  /\ \/ /\ gens' = [gens EXCEPT !["sandbox"][launch[l].gen] = None]
        /\ launch' = At(l, "clean sandbox identity")
        /\ UNCHANGED faults
     \/ /\ Fails
        /\ launch' = Abandoned(l)
        /\ UNCHANGED gens
  /\ UNCHANGED <<ident, instance>>

CleanSandboxIdentity(l) ==
  /\ launch[l].at = "clean sandbox identity"
  /\ ident' = IdentityRemoved("sandbox")
  /\ launch' = [launch EXCEPT ![l].at = "failed",
                              ![l].handles = IF @ = "open" THEN "closed" ELSE @]
  /\ UNCHANGED <<gens, instance, faults>>

--------------------------------------------------------------------------------
(* The processes of an instance.                                           *)

\* NsJail starts its one child in the generation's cgroup.
Spawn(l) ==
  /\ launch[l].leader = "alive" /\ ~launch[l].spawned
  /\ launch' = [launch EXCEPT ![l].spawned = TRUE, ![l].child = TRUE]
  /\ UNCHANGED <<files, instance, faults>>

ChildExits(l) ==
  /\ launch[l].child
  /\ launch' = [launch EXCEPT ![l].child = FALSE]
  /\ UNCHANGED <<files, instance, faults>>

\* The leader exits by itself or because it was signalled; waitDone is closed.
LeaderExits(l) ==
  /\ launch[l].leader \in {"alive", "signalled"}
  /\ launch' = [launch EXCEPT ![l].leader = "dead"]
  /\ UNCHANGED <<files, instance, faults>>

--------------------------------------------------------------------------------
(* Kill.                                                                   *)

\* An attempt by a caller, or by the destroyer (None).
NextKill(l, by) ==
  [kill EXCEPT ![l].at = "cgroup", ![l].by = by, ![l].failing = FALSE, ![l].begun = @ + 1]

Kill(c, l) ==
  /\ calls[c].at = "idle" /\ launch[l].at = "running"
  /\ \/ /\ kill[l].complete
        /\ calls' = [calls EXCEPT ![c].at = "done", ![c].of = l, ![c].answer = "killed"]
        /\ UNCHANGED kill
     \/ /\ ~kill[l].complete
        /\ calls' = [calls EXCEPT ![c].at = "killing", ![c].of = l,
                                  ![c].waits = IF kill[l].at = "none" THEN kill[l].begun + 1
                                                                      ELSE kill[l].begun]
        /\ kill' = IF kill[l].at = "none" THEN NextKill(l, c) ELSE kill
  /\ UNCHANGED <<files, launch, destroy, faults>>

KillAnswer(err) == IF err THEN "failed" ELSE "killed"

\* The destroyer goes on after its Kill.
AfterKill(l, err) ==
  [destroy EXCEPT ![l].at = IF err THEN "end" ELSE "wait", ![l].failing = @ \/ err]

\* cgroup.kill, through the handle captured before exec.
KillCgroup(l) ==
  /\ kill[l].at = "cgroup"
  /\ \/ /\ launch' = [launch EXCEPT ![l].child = FALSE]
        /\ kill' = [kill EXCEPT ![l].at = "leader"]
        /\ UNCHANGED faults
     \/ /\ Fails
        /\ kill' = [kill EXCEPT ![l].at = "leader", ![l].failing = TRUE]
        /\ UNCHANGED launch
  /\ UNCHANGED <<files, destroy, calls>>

\* The joined errors of both signals.
KillOutcome(l, failed) == kill[l].failing \/ failed

\* The leader is signalled unless it is gone, also when cgroup.kill failed; the
\* attempt ends and its own caller returns.
KillLeader(l) ==
  /\ kill[l].at = "leader"
  /\ \E failed \in BOOLEAN :
       /\ IF failed THEN launch[l].leader = "alive" /\ Fails ELSE UNCHANGED faults
       /\ launch' = [launch EXCEPT ![l].leader = IF ~failed /\ @ = "alive" THEN "signalled" ELSE @]
       /\ LET err == KillOutcome(l, failed) IN
          /\ kill' = [kill EXCEPT ![l].at = "none", ![l].by = None, ![l].err = err,
                                  ![l].ended = @ + 1, ![l].complete = ~err]
          /\ calls' = [c \in Calls |->
                         IF c = kill[l].by THEN [calls[c] EXCEPT !.at = "done", !.answer = KillAnswer(err)]
                                           ELSE calls[c]]
          /\ destroy' = IF destroy[l].at = "killing" /\ kill[l].by = None
                          THEN AfterKill(l, err) ELSE destroy
  /\ UNCHANGED files

\* Those that joined the attempt read killErr once they wake up.
KillReturns(c) ==
  /\ calls[c].at = "killing"
  /\ kill[calls[c].of].ended >= calls[c].waits
  /\ calls' = [calls EXCEPT ![c].at = "done", ![c].answer = KillAnswer(kill[calls[c].of].err)]
  /\ UNCHANGED <<files, launch, kill, destroy, faults>>

\* A caller that joined stops waiting when its context ends.
CallGivesUp(c) ==
  /\ calls[c].at \in {"killing", "destroying"}
  /\ calls[c].at = "killing" => kill[calls[c].of].by # c
  /\ Fails
  /\ calls' = [calls EXCEPT ![c].at = "done", ![c].answer = "gave up"]
  /\ UNCHANGED <<files, launch, kill, destroy>>

--------------------------------------------------------------------------------
(* Destroy.                                                                *)

Destroy(c, l) ==
  /\ calls[c].at = "idle" /\ launch[l].at = "running"
  /\ \/ /\ destroy[l].complete
        /\ calls' = [calls EXCEPT ![c].at = "done", ![c].of = l, ![c].answer = "destroyed"]
        /\ UNCHANGED destroy
     \/ /\ ~destroy[l].complete
        /\ LET joins == destroy[l].at # "none" IN
           /\ calls' = [calls EXCEPT ![c].at = "destroying", ![c].of = l,
                          ![c].waits = IF joins THEN destroy[l].begun ELSE destroy[l].begun + 1]
           /\ destroy' = IF joins THEN destroy
                         ELSE [destroy EXCEPT ![l].at = "revoke", ![l].failing = FALSE,
                                              ![l].begun = @ + 1]
  /\ UNCHANGED <<files, launch, kill, faults>>

DestroyAt(l, stage) == [destroy EXCEPT ![l].at = stage]
DestroyErr(l, stage) == [destroy EXCEPT ![l].at = stage, ![l].failing = TRUE]

\* The nonce is invalidated and its registration revoked; a failure is
\* remembered and the processes are killed all the same.
DestroyerRevokes(l) ==
  /\ destroy[l].at = "revoke"
  /\ \/ /\ launch' = [launch EXCEPT ![l].nonce = "revoked"]
        /\ destroy' = DestroyAt(l, "kill")
        /\ UNCHANGED faults
     \/ /\ Fails
        /\ destroy' = DestroyErr(l, "kill")
        /\ UNCHANGED launch
  /\ UNCHANGED <<files, kill, calls>>

\* Kill with a context that never ends.
DestroyerKills(l) ==
  /\ destroy[l].at = "kill"
  /\ LET joins == kill[l].at # "none" IN
     destroy' = [destroy EXCEPT ![l].at = IF kill[l].complete THEN "wait" ELSE "killing",
                                ![l].waits = IF joins THEN kill[l].begun ELSE kill[l].begun + 1]
  /\ kill' = IF kill[l].complete \/ kill[l].at # "none" THEN kill ELSE NextKill(l, None)
  /\ UNCHANGED <<files, launch, calls, faults>>

DestroyerKilled(l) ==
  /\ destroy[l].at = "killing"
  /\ kill[l].ended >= destroy[l].waits
  /\ destroy' = AfterKill(l, kill[l].err)
  /\ UNCHANGED <<files, launch, kill, calls, faults>>

\* Wait for the leader, then for the cgroup to drain; a drain that takes too
\* long is an error.
DestroyerWaits(l) ==
  /\ destroy[l].at = "wait"
  /\ launch[l].leader = "dead"
  /\ destroy' = CASE destroy[l].cgroupRemoved \/ ~launch[l].child ->
                       DestroyAt(l, IF destroy[l].failing THEN "end" ELSE "remove cgroup")
                  [] OTHER -> DestroyErr(l, "end")
  /\ UNCHANGED <<files, launch, kill, calls, faults>>

\* generationHandles.cleanup: every removal is of the sealed inode, the cgroup
\* first.
RemoveCgroup(l) ==
  /\ destroy[l].at = "remove cgroup"
  /\ LET g == launch[l].gen IN
     \/ /\ destroy[l].cgroupRemoved
        /\ destroy' = DestroyAt(l, "remove cgroup identity")
        /\ UNCHANGED <<gens, faults>>
     \/ /\ ~destroy[l].cgroupRemoved
        /\ gens["cgroup"][g] = l /\ ~launch[l].child
        /\ gens' = [gens EXCEPT !["cgroup"][g] = None]
        /\ destroy' = [destroy EXCEPT ![l].at = "remove cgroup identity",
                                      ![l].cgroupRemoved = TRUE]
        /\ UNCHANGED faults
     \/ /\ ~destroy[l].cgroupRemoved
        /\ Fails
        /\ destroy' = DestroyErr(l, "end")
        /\ UNCHANGED gens
  /\ UNCHANGED <<ident, launch, kill, calls>>

\* verifyDirectoryEntry and rmdir of an identity directory: absent is fine,
\* another inode is an error, a directory in use stays.
RemoveIdentity(l, t, stage, next) ==
  /\ destroy[l].at = stage
  /\ IF ident[t] \notin {0, launch[l].held[t]}
       THEN destroy' = DestroyErr(l, "end") /\ UNCHANGED ident
       ELSE destroy' = DestroyAt(l, next) /\ ident' = IdentityRemoved(t)
  /\ UNCHANGED <<gens, launch, kill, calls, faults>>

RemoveCgroupIdentity(l) ==
  RemoveIdentity(l, "cgroup", "remove cgroup identity", "remove sandbox")

RemoveSandbox(l) ==
  /\ destroy[l].at = "remove sandbox"
  /\ LET g == launch[l].gen IN
     \/ /\ gens["sandbox"][g] = l
        /\ gens' = [gens EXCEPT !["sandbox"][g] = None]
        /\ destroy' = DestroyAt(l, "remove sandbox identity")
        /\ UNCHANGED faults
     \/ /\ gens["sandbox"][g] # l
        /\ destroy' = DestroyErr(l, "end")
        /\ UNCHANGED <<gens, faults>>
     \/ /\ Fails
        /\ destroy' = DestroyErr(l, "end")
        /\ UNCHANGED gens
  /\ UNCHANGED <<ident, launch, kill, calls>>

RemoveSandboxIdentity(l) ==
  RemoveIdentity(l, "sandbox", "remove sandbox identity", "end")

DestroyerEnds(l) ==
  /\ destroy[l].at = "end"
  /\ destroy' = [destroy EXCEPT ![l].at = "none", ![l].complete = ~destroy[l].failing,
                                ![l].err = destroy[l].failing, ![l].ended = @ + 1]
  /\ launch' = [launch EXCEPT ![l].handles = IF destroy[l].failing THEN @ ELSE "closed"]
  /\ UNCHANGED <<files, kill, calls, faults>>

DestroyReturns(c) ==
  /\ calls[c].at = "destroying"
  /\ destroy[calls[c].of].ended >= calls[c].waits
  /\ calls' = [calls EXCEPT ![c].at = "done",
                 ![c].answer = IF destroy[calls[c].of].err THEN "failed" ELSE "destroyed"]
  /\ UNCHANGED <<files, launch, kill, destroy, faults>>

--------------------------------------------------------------------------------
StartStep(l) ==
  \/ \E t \in Trees : \/ MkdirIdentity(l, t) \/ OpenIdentity(l, t)
                      \/ UndoIdentity(l, t) \/ CreateGeneration(l, t)
  \/ PrivateStep(l) \/ RegisterNonce(l) \/ Exec(l) \/ RevokeNonce(l)
  \/ CleanCgroup(l) \/ CleanCgroupIdentity(l) \/ CleanSandbox(l) \/ CleanSandboxIdentity(l)

KillStep(l) == KillCgroup(l) \/ KillLeader(l)

DestroyStep(l) ==
  \/ DestroyerRevokes(l) \/ DestroyerKills(l) \/ DestroyerKilled(l) \/ DestroyerWaits(l)
  \/ RemoveCgroup(l) \/ RemoveCgroupIdentity(l) \/ RemoveSandbox(l)
  \/ RemoveSandboxIdentity(l) \/ DestroyerEnds(l)

Next ==
  \/ \E l \in Launches :
       \/ \E g \in Generations : Start(l, g)
       \/ StartStep(l) \/ KillStep(l) \/ DestroyStep(l)
       \/ Spawn(l) \/ ChildExits(l) \/ LeaderExits(l)
       \/ \E c \in Calls : Kill(c, l) \/ Destroy(c, l)
  \/ \E c \in Calls : KillReturns(c) \/ DestroyReturns(c) \/ CallGivesUp(c)

Spec == Init /\ [][Next]_vars

--------------------------------------------------------------------------------
TypeOK ==
  /\ \A t \in Trees : ident[t] \in 0..(Cardinality(Launches) + 1)
  /\ \A t \in Trees, g \in Generations : gens[t][g] \in Launches \cup {None}

\* While a process of a launch lives, its generation is admitted to nobody else:
\* the admission directory, and for what runs in the cgroup the cgroup
\* directory, are still that launch's (launcher_linux.go:587-590, 1202-1204).
ProcessesAreAdmitted ==
  \A l \in Launches :
    /\ launch[l].leader \in {"alive", "signalled"} \/ launch[l].child =>
         gens["sandbox"][launch[l].gen] = l
    /\ launch[l].child => gens["cgroup"][launch[l].gen] = l

\* The stages of a launch between its admission and the removal of its
\* directories by its own cleanup.
Admitted(l) ==
  \/ launch[l].at \in {"write config", "mkdir cgroup", "open cgroup", "undo cgroup",
                       "create cgroup", "hold", "verify", "register", "exec", "revoke",
                       "clean cgroup", "clean cgroup identity", "clean sandbox"}
  \/ /\ launch[l].at = "running" /\ ~destroy[l].complete
     /\ destroy[l].at \notin {"remove sandbox identity", "end", "none"}

\* No other launch, its cleanup by name included, takes an admitted launch's
\* directory away (launcher_linux.go:1201-1252).
AdmissionHeld == \A l \in Launches : Admitted(l) => gens["sandbox"][launch[l].gen] = l

\* A launch that failed, and an instance that was destroyed, leave nothing of
\* theirs behind: no directory, no open handle, no registered nonce.  Excepted
\* is a cleanup that itself reported an error (launcher_linux.go:298-304,
\* 452-461, 764-820).
NothingLeftBehind ==
  \A l \in Launches :
    (launch[l].at = "failed" /\ ~launch[l].leftovers) \/ destroy[l].complete =>
      /\ \A t \in Trees, g \in Generations : gens[t][g] # l
      /\ launch[l].handles # "open" /\ launch[l].nonce # "registered"
      /\ launch[l].leader \in {"none", "dead"} /\ ~launch[l].child

\* A caller told that the instance was killed finds it so: the cgroup was
\* killed, so only a child started by a leader that is itself about to die can
\* live (launcher_linux.go:692-759).
KilledMeansKilled ==
  \A c \in Calls :
    calls[c].answer = "killed" =>
      /\ kill[calls[c].of].complete
      /\ launch[calls[c].of].leader \in {"signalled", "dead"}

\* The handles of an instance are open whenever an attempt to kill or to destroy
\* it may use them (launcher_linux.go:724-727, 796-812).
HandlesOpenInUse ==
  \A l \in Launches :
    kill[l].at # "none" \/ destroy[l].at # "none" => launch[l].handles = "open"
================================================================================
