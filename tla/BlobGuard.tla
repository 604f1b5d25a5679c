----------------------------- MODULE BlobGuard -----------------------------
(***************************************************************************)
(* The content-addressed blob store of internal/workspace/blob and the     *)
(* guard table that fences its garbage collection (ADR-007: protect before *)
(* reference, two-epoch deletion).                                         *)
(*                                                                         *)
(* Upload, Protect and Delete of ContentStore run as separate calls of     *)
(* concurrent goroutines: each takes the per-key storage gate, makes one   *)
(* object-store call and one guard-table call, and releases the gate.      *)
(* Finalize, Abandon and Sweep are single critical sections of             *)
(* GuardTable.mu.  The writers of durable roots and the root exporter are  *)
(* outside this package; they follow ADR-007 and are marked external.      *)
(***************************************************************************)
EXTENDS Naturals, FiniteSets

CONSTANTS
    Keys,       \* (tenant, digest) pairs: one content-addressed object each
    Permits,    \* protection permit IDs
    Procs,      \* goroutines that call the ContentStore
    Grace,      \* GuardTable.grace
    MaxEpoch,   \* bound: last GC epoch explored
    MaxTime,    \* bound: last clock value explored
    None        \* "no such key, permit, goroutine or deletion"

ASSUME GraceAssumption == Grace \in Nat
ASSUME BoundAssumption == MaxEpoch \in Nat /\ MaxTime \in Nat
ASSUME NoneAssumption == None \notin Keys /\ None \notin Permits /\ None \notin Procs

VARIABLES
    objects,    \* keys whose bytes are in the object store
    guards,     \* GuardTable.guards, with state "absent" for a missing record
    pending,    \* guardRecord.pending
    permits,    \* GuardTable.permits, with state "absent" for a missing record
    lastEpoch,  \* GuardTable.lastEpoch
    clock,      \* wall clock read by the sweeper
    claims,     \* Deletion claims handed out by Sweep; a claim may be retried
    gate,       \* holder of each key's storage gate
    call,       \* the ContentStore call each goroutine is executing
    committed,  \* permits whose durable root transaction committed
    refs,       \* committed permits whose reference is still a root
    visited,    \* keys the current root export has looked at
    marked      \* keys it found referenced

tableVars == <<guards, pending, permits>>
rootVars == <<committed, refs, visited, marked>>
vars == <<objects, guards, pending, permits, lastEpoch, clock, claims, gate,
          call, committed, refs, visited, marked>>

States == {"absent", "live", "candidate", "deleting", "deleted"}
Available == {"live", "candidate"}
Going == {"deleting", "deleted"}

Guard == [state : States, generation : Nat, incarnation : Nat,
          candidateEpoch : Nat, candidateSince : Nat, deletionEpoch : Nat]
Permit == [state : {"absent", "pending", "finalized", "abandoned"},
           key : Keys \cup {None}, incarnation : Nat]
Deletion == [key : Keys, generation : Nat, epoch : Nat]

Idle == [step |-> "idle", key |-> None, permit |-> None,
         generation |-> 0, epoch |-> 0]

UploadCall == [step : {"upload.put", "upload.register"}, key : Keys,
               permit : {None}, generation : {0}, epoch : {0}]
ProtectCall == [step : {"protect.read", "protect.permit"}, key : Keys,
                permit : Permits, generation : {0}, epoch : {0}]
DeleteCall == [step : {"delete.validate", "delete.object", "delete.complete"},
               key : Keys, permit : {None}, generation : Nat, epoch : Nat]
Call == {Idle} \cup UploadCall \cup ProtectCall \cup DeleteCall

TypeOK ==
    /\ objects \subseteq Keys
    /\ guards \in [Keys -> Guard]
    /\ pending \in [Keys -> SUBSET Permits]
    /\ permits \in [Permits -> Permit]
    /\ lastEpoch \in Nat
    /\ clock \in Nat
    /\ claims \subseteq Deletion
    /\ gate \in [Keys -> Procs \cup {None}]
    /\ call \in [Procs -> Call]
    /\ committed \subseteq Permits
    /\ refs \subseteq committed
    /\ visited \subseteq Keys
    /\ marked \subseteq Keys

NoGuard == [state |-> "absent", generation |-> 0, incarnation |-> 0,
            candidateEpoch |-> 0, candidateSince |-> 0, deletionEpoch |-> 0]
NoPermit == [state |-> "absent", key |-> None, incarnation |-> 0]

\* NewGuardTable
Init ==
    /\ objects = {}
    /\ guards = [k \in Keys |-> NoGuard]
    /\ pending = [k \in Keys |-> {}]
    /\ permits = [p \in Permits |-> NoPermit]
    /\ lastEpoch = 0
    /\ clock = 0
    /\ claims = {}
    /\ gate = [k \in Keys |-> None]
    /\ call = [c \in Procs |-> Idle]
    /\ committed = {}
    /\ refs = {}
    /\ visited = {}
    /\ marked = {}

-----------------------------------------------------------------------------
(* The storage gate                                                        *)

\* acquireStorage: one goroutine at a time works on a key's bytes and guard.
\* A waiter whose context is cancelled leaves without having done anything.
Acquire(c, k, req) ==
    /\ call[c].step = "idle"
    /\ gate[k] = None
    /\ gate' = [gate EXCEPT ![k] = c]
    /\ call' = [call EXCEPT ![c] = req]

\* The deferred release of every call.
Return(c) ==
    /\ gate' = [gate EXCEPT ![call[c].key] = None]
    /\ call' = [call EXCEPT ![c] = Idle]

GoTo(c, s) ==
    /\ call' = [call EXCEPT ![c].step = s]
    /\ UNCHANGED gate

-----------------------------------------------------------------------------
(* ContentStore.Upload                                                     *)

BeginUpload(c) ==
    \E k \in Keys :
        /\ Acquire(c, k, [Idle EXCEPT !.step = "upload.put", !.key = k])
        /\ UNCHANGED <<objects, tableVars, lastEpoch, clock, claims, rootVars>>

\* PutIfAbsent; when the object exists its bytes are read back and compared.
UploadPut(c) ==
    /\ call[c].step = "upload.put"
    /\ objects' = objects \cup {call[c].key}
    /\ GoTo(c, "upload.register")
    /\ UNCHANGED <<tableVars, lastEpoch, clock, claims, rootVars>>

\* PutIfAbsent or the read-back fails; the bytes may have been written.
UploadPutFails(c) ==
    /\ call[c].step = "upload.put"
    /\ \/ UNCHANGED objects
       \/ objects' = objects \cup {call[c].key}
    /\ Return(c)
    /\ UNCHANGED <<tableVars, lastEpoch, clock, claims, rootVars>>

\* GuardTable.register: a missing record is created, a deleted one becomes a
\* new incarnation, a live or candidate one is left as it is, and a deleting
\* one refuses.
UploadRegister(c) ==
    LET k == call[c].key
        g == guards[k]
    IN  /\ call[c].step = "upload.register"
        /\ \/ /\ g.state \in {"absent", "deleted"}
              /\ guards' = [guards EXCEPT ![k] =
                    [NoGuard EXCEPT !.state = "live",
                                    !.generation = g.generation + 1,
                                    !.incarnation = g.incarnation + 1]]
              /\ pending' = [pending EXCEPT ![k] = {}]
           \/ /\ g.state \in {"live", "candidate", "deleting"}
              /\ UNCHANGED <<guards, pending>>
        /\ Return(c)
        /\ UNCHANGED <<objects, permits, lastEpoch, clock, claims, rootVars>>

-----------------------------------------------------------------------------
(* ContentStore.Protect                                                    *)

BeginProtect(c) ==
    \E k \in Keys, p \in Permits :
        /\ Acquire(c, k, [Idle EXCEPT !.step = "protect.read", !.key = k,
                                      !.permit = p])
        /\ UNCHANGED <<objects, tableVars, lastEpoch, clock, claims, rootVars>>

\* Read: a missing object ends the call.
ProtectRead(c) ==
    /\ call[c].step = "protect.read"
    /\ \/ call[c].key \in objects /\ GoTo(c, "protect.permit")
       \/ call[c].key \notin objects /\ Return(c)
    /\ UNCHANGED <<objects, tableVars, lastEpoch, clock, claims, rootVars>>

\* Mutant of GrantPermit: a candidate stays a candidate.
GrantPermitKeepsCandidate(k, p) ==
    /\ permits[p].state = "absent"
    /\ guards[k].state \in Available
    /\ guards' = [guards EXCEPT ![k].generation = @ + 1]
    /\ pending' = [pending EXCEPT ![k] = @ \cup {p}]
    /\ permits' = [permits EXCEPT ![p] =
            [state |-> "pending", key |-> k,
             incarnation |-> guards[k].incarnation]]

\* GuardTable.Protect with a permit ID not seen before.
GrantPermit(k, p) ==
    /\ permits[p].state = "absent"
    /\ guards[k].state \in Available
    /\ guards' = [guards EXCEPT ![k].generation = @ + 1,
                                ![k].state = "live",
                                ![k].candidateEpoch = 0,
                                ![k].candidateSince = 0]
    /\ pending' = [pending EXCEPT ![k] = @ \cup {p}]
    /\ permits' = [permits EXCEPT ![p] =
            [state |-> "pending", key |-> k,
             incarnation |-> guards[k].incarnation]]

\* GuardTable.Protect: a known permit is returned again or refused, and a
\* missing or disappearing object refuses; neither changes the table.
ProtectPermit(c) ==
    LET k == call[c].key
        p == call[c].permit
    IN  /\ call[c].step = "protect.permit"
        /\ \/ GrantPermit(k, p)
           \/ /\ permits[p].state # "absent" \/ guards[k].state \notin Available
              /\ UNCHANGED tableVars
        /\ Return(c)
        /\ UNCHANGED <<objects, lastEpoch, clock, claims, rootVars>>

\* GuardTable.Finalize
Finalize(p) ==
    /\ permits[p].state = "pending"
    /\ p \in committed          \* external: the reconciler saw the root commit
    /\ guards[permits[p].key].state \notin {"absent", "deleted"}
    /\ pending' = [pending EXCEPT ![permits[p].key] = @ \ {p}]
    /\ permits' = [permits EXCEPT ![p].state = "finalized"]
    /\ UNCHANGED <<objects, guards, lastEpoch, clock, claims, gate, call, rootVars>>

\* GuardTable.Abandon
Abandon(p) ==
    /\ permits[p].state = "pending"
    /\ p \notin committed       \* external: the root transaction was given up
    /\ pending' = [pending EXCEPT ![permits[p].key] = @ \ {p}]
    /\ permits' = [permits EXCEPT ![p].state = "abandoned"]
    /\ UNCHANGED <<objects, guards, lastEpoch, clock, claims, gate, call, rootVars>>

-----------------------------------------------------------------------------
(* GuardTable.Sweep                                                        *)

Sweepable(k) == guards[k].state \in Available

Retained(k) == k \in marked \/ pending[k] # {}

Expired(k, epoch) ==
    /\ guards[k].state = "candidate"
    /\ epoch > guards[k].candidateEpoch
    /\ clock >= guards[k].candidateSince + Grace

\* What one sweep makes of one guard record.
SweepGuard(k, epoch) ==
    LET g == guards[k]
    IN  IF ~Sweepable(k) THEN g
        ELSE IF Retained(k)
        THEN [g EXCEPT !.state = "live", !.candidateEpoch = 0,
                       !.candidateSince = 0]
        ELSE IF g.state = "live"
        THEN [g EXCEPT !.state = "candidate", !.candidateEpoch = epoch,
                       !.candidateSince = clock]
        ELSE IF Expired(k, epoch)
        THEN [g EXCEPT !.state = "deleting", !.generation = @ + 1,
                       !.deletionEpoch = epoch]
        ELSE g

Doomed(epoch) == {k \in Keys : ~Retained(k) /\ Expired(k, epoch)}

\* Sweep with rootsComplete; the epoch must exceed the last one and every
\* marked key must be available, or the sweep returns an error unchanged.
\* The next export starts only after this sweep.
Sweep ==
    \E epoch \in (lastEpoch + 1) .. MaxEpoch :
        /\ visited = Keys
        /\ \A k \in marked : Sweepable(k)
        /\ lastEpoch' = epoch
        /\ guards' = [k \in Keys |-> SweepGuard(k, epoch)]
        /\ claims' = claims \cup
             {[key |-> k, generation |-> guards[k].generation + 1,
               epoch |-> epoch] : k \in Doomed(epoch)}
        /\ visited' = {}
        /\ marked' = {}
        /\ UNCHANGED <<objects, pending, permits, clock, gate, call, committed, refs>>

-----------------------------------------------------------------------------
(* ContentStore.Delete                                                     *)

DeletionMatchesGuard(c) ==
    LET g == guards[call[c].key]
    IN  g.generation = call[c].generation /\ g.deletionEpoch = call[c].epoch

\* Any claim a sweep ever returned may be executed, again or late.
BeginDelete(c) ==
    \E d \in claims :
        /\ Acquire(c, d.key, [Idle EXCEPT !.step = "delete.validate",
                                          !.key = d.key,
                                          !.generation = d.generation,
                                          !.epoch = d.epoch])
        /\ UNCHANGED <<objects, tableVars, lastEpoch, clock, claims, rootVars>>

\* Mutant of DeleteValidate: the claim's generation is not compared.
DeleteValidateStateOnly(c) ==
    LET valid == guards[call[c].key].state \in Going
    IN  /\ call[c].step = "delete.validate"
        /\ \/ valid /\ GoTo(c, "delete.object")
           \/ ~valid /\ Return(c)
        /\ UNCHANGED <<objects, tableVars, lastEpoch, clock, claims, rootVars>>

\* GuardTable.ValidateDeletion
DeleteValidate(c) ==
    LET valid == guards[call[c].key].state \in Going /\ DeletionMatchesGuard(c)
    IN  /\ call[c].step = "delete.validate"
        /\ \/ valid /\ GoTo(c, "delete.object")
           \/ ~valid /\ Return(c)
        /\ UNCHANGED <<objects, tableVars, lastEpoch, clock, claims, rootVars>>

\* DeleteIfMatch; a missing object counts as deleted.
DeleteObject(c) ==
    /\ call[c].step = "delete.object"
    /\ objects' = objects \ {call[c].key}
    /\ GoTo(c, "delete.complete")
    /\ UNCHANGED <<tableVars, lastEpoch, clock, claims, rootVars>>

\* DeleteIfMatch fails; the bytes may be gone all the same.
DeleteObjectFails(c) ==
    /\ call[c].step = "delete.object"
    /\ \/ UNCHANGED objects
       \/ objects' = objects \ {call[c].key}
    /\ Return(c)
    /\ UNCHANGED <<tableVars, lastEpoch, clock, claims, rootVars>>

\* GuardTable.completeDeletion
DeleteComplete(c) ==
    LET k == call[c].key
    IN  /\ call[c].step = "delete.complete"
        /\ \/ /\ guards[k].state = "deleting" /\ DeletionMatchesGuard(c)
              /\ guards' = [guards EXCEPT ![k].state = "deleted"]
           \/ /\ guards[k].state # "deleting" \/ ~DeletionMatchesGuard(c)
              /\ UNCHANGED guards
        /\ Return(c)
        /\ UNCHANGED <<objects, pending, permits, lastEpoch, clock, claims, rootVars>>

-----------------------------------------------------------------------------
(* The environment: root writers, the root exporter and the clock          *)

\* A root transaction commits a reference together with its pending permit.
CommitReference(p) ==
    /\ permits[p].state = "pending"
    /\ p \notin committed
    /\ committed' = committed \cup {p}
    /\ refs' = refs \cup {p}
    /\ UNCHANGED <<objects, tableVars, lastEpoch, clock, claims, gate, call,
                   visited, marked>>

DropReference(p) ==
    /\ p \in refs
    /\ refs' = refs \ {p}
    /\ UNCHANGED <<objects, tableVars, lastEpoch, clock, claims, gate, call,
                   committed, visited, marked>>

Referenced(k) == \E p \in refs : permits[p].key = k

\* The export walks the roots piecemeal while writers keep committing.
ExportKey(k) ==
    /\ k \notin visited
    /\ visited' = visited \cup {k}
    /\ marked' = IF Referenced(k) THEN marked \cup {k} ELSE marked
    /\ UNCHANGED <<objects, tableVars, lastEpoch, clock, claims, gate, call,
                   committed, refs>>

Tick ==
    /\ clock < MaxTime
    /\ clock' = clock + 1
    /\ UNCHANGED <<objects, tableVars, lastEpoch, claims, gate, call, rootVars>>

-----------------------------------------------------------------------------

CallStep(c) ==
    \/ BeginUpload(c) \/ UploadPut(c) \/ UploadPutFails(c) \/ UploadRegister(c)
    \/ BeginProtect(c) \/ ProtectRead(c) \/ ProtectPermit(c)
    \/ BeginDelete(c) \/ DeleteValidate(c) \/ DeleteObject(c)
    \/ DeleteObjectFails(c) \/ DeleteComplete(c)

PermitStep(p) ==
    \/ Finalize(p) \/ Abandon(p) \/ CommitReference(p) \/ DropReference(p)

Next ==
    \/ \E c \in Procs : CallStep(c)
    \/ \E p \in Permits : PermitStep(p)
    \/ \E k \in Keys : ExportKey(k)
    \/ Sweep
    \/ Tick

Spec == Init /\ [][Next]_vars

-----------------------------------------------------------------------------
(* Properties                                                              *)

\* A key whose guard says live or candidate has its bytes in the object store:
\* no interleaving of Upload, Protect, Delete and Sweep, and no object-store
\* call that fails half way, lets ContentStore hand out a dangling object.
AvailableHasBytes ==
    \A k \in Keys : guards[k].state \in Available => k \in objects

\* A pending permit keeps its object live: Sweep never dooms, and not even
\* suspects, an object a writer has protected (ADR-007, protection wins).
PendingIsLive ==
    \A k \in Keys : pending[k] # {} => guards[k].state = "live"

\* A key referenced by a durable root is never being deleted nor deleted, even
\* when the reference was committed and its permit finalized after the running
\* root export had already passed the key.
ReferencedIsKept ==
    \A k \in Keys : Referenced(k) => guards[k].state \in Available

\* What the export marked is still there when Sweep runs, so the sweep is never
\* refused with ErrMarkedObjectMissing.
MarkedIsAvailable ==
    \A k \in marked : guards[k].state \in Available

\* Blobs are kept: what is available, referenced, protected or marked has its bytes and
\* is not being deleted.
BlobsKept == AvailableHasBytes /\ ReferencedIsKept /\ PendingIsLive /\ MarkedIsAvailable

\* A key's bytes only disappear under a claim a sweep issued for the current
\* incarnation: after a re-upload registered a new incarnation, late or
\* repeated executions of an old claim leave the new bytes alone.
OldClaimsAreHarmless ==
    \A k \in objects \ objects' : \E c \in Procs :
        /\ gate[k] = c
        /\ guards[k].state \in Going
        /\ guards[k].generation = call[c].generation
=============================================================================
