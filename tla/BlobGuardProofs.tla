-------------------------- MODULE BlobGuardProofs --------------------------
(***************************************************************************)
(* Proofs about BlobGuard for any number of keys, permits and goroutines,  *)
(* any grace and any bound.  The argument: the storage gate makes a        *)
(* ContentStore call the only one on its key (GateInv), so what the call   *)
(* established at one step still holds at its next (CallInv); the two      *)
(* together keep bytes and guard in agreement.  The references rest on the *)
(* export started after the last sweep (ExportInv).                        *)
(***************************************************************************)
EXTENDS BlobGuard, TLAPS

\* The storage gate of acquireStorage: a goroutine inside a call holds the gate
\* of the key it works on, so two calls never overlap on one key.
GateInv ==
    \A c \in Procs : call[c].step # "idle" =>
        call[c].key \in Keys /\ gate[call[c].key] = c

\* What a call established before its next step still holds at that step.
CallInv ==
    \A c \in Procs :
        /\ call[c].step = "upload.register" => call[c].key \in objects
        /\ call[c].step \in {"delete.object", "delete.complete"} =>
                guards[call[c].key].state \in Going

\* A referenced candidate that the running export has passed was marked by it.
ExportInv ==
    \A k \in Keys :
        Referenced(k) /\ guards[k].state = "candidate" /\ k \in visited
            => k \in marked

\* A pending permit is recorded, and only there, on the guard of its key.
PermitInv ==
    \A p \in Permits :
        permits[p].state = "pending" =>
            permits[p].key \in Keys /\ p \in pending[permits[p].key]

\* A committed reference was committed under its permit, which was not given up.
CommitInv ==
    \A p \in committed : permits[p].state \in {"pending", "finalized"}

BytesInv ==
    /\ TypeOK
    /\ GateInv
    /\ CallInv
    /\ AvailableHasBytes

RootInv ==
    /\ TypeOK
    /\ PendingIsLive
    /\ PermitInv
    /\ CommitInv
    /\ ReferencedIsKept
    /\ ExportInv
    /\ MarkedIsAvailable

-----------------------------------------------------------------------------
(* Type correctness                                                        *)

\* Every variable of the guard table, the object store and the calls keeps its
\* type; claims name real keys and live references are committed ones.
LEMMA TypeInit == Init => TypeOK
BY GraceAssumption DEF Init, TypeOK, NoGuard, NoPermit, Guard, Permit, Call, States

\* What Register and Sweep write into a guard record is a guard record.
LEMMA GuardTypes ==
    ASSUME NEW g \in Guard, NEW m \in Nat, NEW n \in Nat
    PROVE  /\ [NoGuard EXCEPT !.state = "live", !.generation = g.generation + 1,
                              !.incarnation = g.incarnation + 1] \in Guard
           /\ [g EXCEPT !.state = "live", !.candidateEpoch = 0,
                        !.candidateSince = 0] \in Guard
           /\ [g EXCEPT !.state = "candidate", !.candidateEpoch = m,
                        !.candidateSince = n] \in Guard
           /\ [g EXCEPT !.state = "deleting", !.generation = @ + 1,
                        !.deletionEpoch = m] \in Guard
<1>1. g.generation + 1 \in Nat /\ g.incarnation + 1 \in Nat
  BY DEF Guard
<1>2. [NoGuard EXCEPT !.state = "live", !.generation = g.generation + 1,
                      !.incarnation = g.incarnation + 1] \in Guard
  BY Zenon, <1>1 DEF Guard, States, NoGuard
<1>3. [g EXCEPT !.state = "live", !.candidateEpoch = 0,
                !.candidateSince = 0] \in Guard
  BY Zenon DEF Guard, States
<1>4. [g EXCEPT !.state = "candidate", !.candidateEpoch = m,
                !.candidateSince = n] \in Guard
  BY Zenon DEF Guard, States
<1>5. [g EXCEPT !.state = "deleting", !.generation = @ + 1,
                !.deletionEpoch = m] \in Guard
  BY Zenon, <1>1 DEF Guard, States
<1>6. QED
  BY <1>2, <1>3, <1>4, <1>5

\* A call that is not idle works on a key, and only a protect call on a permit.
LEMMA CallTypes ==
    ASSUME NEW r \in Call
    PROVE  /\ r.step \in {"idle"} <=> r = Idle
           /\ r.step \in {"upload.put", "upload.register"} <=> r \in UploadCall
           /\ r.step \in {"protect.read", "protect.permit"} <=> r \in ProtectCall
           /\ r.step \in {"delete.validate", "delete.object", "delete.complete"}
                <=> r \in DeleteCall
BY DEF Call, Idle, UploadCall, ProtectCall, DeleteCall

\* acquireStorage, the deferred release and a call's move to its next step keep
\* the types of the gates and the calls.
LEMMA GateTypes ==
    ASSUME TypeOK, NEW c \in Procs
    PROVE  /\ \A k \in Keys, req \in Call : Acquire(c, k, req) =>
                gate' \in [Keys -> Procs \cup {None}] /\ call' \in [Procs -> Call]
           /\ Return(c) =>
                gate' \in [Keys -> Procs \cup {None}] /\ call' \in [Procs -> Call]
           /\ \A s : GoTo(c, s) /\ [call[c] EXCEPT !.step = s] \in Call =>
                gate' \in [Keys -> Procs \cup {None}] /\ call' \in [Procs -> Call]
<1>1. Idle \in Call
  BY DEF Call
<1>2. QED
  BY <1>1 DEF Acquire, Return, GoTo, TypeOK

\* Upload, Protect and Delete begin alike: by taking the gate of a key.
LEMMA Begins ==
    ASSUME TypeOK, NEW c \in Procs,
           BeginUpload(c) \/ BeginProtect(c) \/ BeginDelete(c)
    PROVE  \E k \in Keys, req \in Call :
              /\ Acquire(c, k, req)
              /\ req.key = k
              /\ req.step \in {"upload.put", "protect.read", "delete.validate"}
              /\ UNCHANGED <<objects, tableVars, lastEpoch, clock, claims, rootVars>>
<1>1. CASE BeginUpload(c)
  <2>1. PICK k \in Keys :
          Acquire(c, k, [Idle EXCEPT !.step = "upload.put", !.key = k])
    BY Zenon, <1>1 DEF BeginUpload
  <2> DEFINE req == [Idle EXCEPT !.step = "upload.put", !.key = k]
  <2>2. req \in UploadCall /\ req.key = k /\ req.step = "upload.put"
    BY Zenon DEF Idle, UploadCall
  <2> HIDE DEF req
  <2>3. QED
    BY Zenon, <1>1, <2>1, <2>2 DEF BeginUpload, Call, req
<1>2. CASE BeginProtect(c)
  <2>1. PICK k \in Keys, p \in Permits :
          Acquire(c, k, [Idle EXCEPT !.step = "protect.read", !.key = k,
                                     !.permit = p])
    BY Zenon, <1>2 DEF BeginProtect
  <2> DEFINE req == [Idle EXCEPT !.step = "protect.read", !.key = k, !.permit = p]
  <2>2. req \in ProtectCall /\ req.key = k /\ req.step = "protect.read"
    BY Zenon DEF Idle, ProtectCall
  <2> HIDE DEF req
  <2>3. QED
    BY Zenon, <1>2, <2>1, <2>2 DEF BeginProtect, Call, req
<1>3. CASE BeginDelete(c)
  <2>1. PICK d \in claims :
          Acquire(c, d.key, [Idle EXCEPT !.step = "delete.validate",
                                         !.key = d.key,
                                         !.generation = d.generation,
                                         !.epoch = d.epoch])
    BY Zenon, <1>3 DEF BeginDelete
  <2> DEFINE req == [Idle EXCEPT !.step = "delete.validate", !.key = d.key,
                                 !.generation = d.generation, !.epoch = d.epoch]
  <2>2. d \in Deletion /\ d.key \in Keys
    BY DEF TypeOK, Deletion
  <2>3. req \in DeleteCall /\ req.key = d.key /\ req.step = "delete.validate"
    BY Zenon, <2>2 DEF Idle, DeleteCall, Deletion
  <2> HIDE DEF req
  <2>4. QED
    BY Zenon, <1>3, <2>1, <2>2, <2>3 DEF BeginDelete, Call, req
<1>4. QED
  BY <1>1, <1>2, <1>3

\* One step of any goroutine, permit holder, exporter or sweeper keeps the types.
LEMMA TypeStep == TypeOK /\ [Next]_vars => TypeOK'
<1> SUFFICES ASSUME TypeOK, [Next]_vars PROVE TypeOK'
  OBVIOUS
<1> USE DEF TypeOK, tableVars, rootVars
<1>1. ASSUME NEW c \in Procs, CallStep(c) PROVE TypeOK'
  <2> DEFINE GatesOK == gate' \in [Keys -> Procs \cup {None}] /\ call' \in [Procs -> Call]
  <2>0. call[c] \in Call
    OBVIOUS
  <2>1. CASE BeginUpload(c) \/ BeginProtect(c) \/ BeginDelete(c)
    BY <2>1, Begins, GateTypes
  <2>2. CASE UploadPut(c)
    <3>1. call[c] \in UploadCall
      BY <2>0, <2>2, CallTypes DEF UploadPut
    <3>2. [call[c] EXCEPT !.step = "upload.register"] \in UploadCall
      BY <3>1 DEF UploadCall
    <3>3. GatesOK
      BY <2>2, <3>2, GateTypes DEF UploadPut, Call
    <3>4. QED
      BY <2>2, <3>1, <3>3 DEF UploadPut, UploadCall
  <2>3. CASE UploadPutFails(c)
    <3>1. call[c] \in UploadCall
      BY <2>0, <2>3, CallTypes DEF UploadPutFails
    <3>2. GatesOK
      BY <2>3, GateTypes DEF UploadPutFails
    <3>3. QED
      BY <2>3, <3>1, <3>2 DEF UploadPutFails, UploadCall
  <2>4. CASE UploadRegister(c)
    <3>1. GatesOK
      BY <2>4, GateTypes DEF UploadRegister
    <3>2. call[c].key \in Keys
      BY <2>0, <2>4, CallTypes DEF UploadRegister, UploadCall
    <3>3. guards[call[c].key] \in Guard
      BY <3>2
    <3>4. [NoGuard EXCEPT !.state = "live",
                          !.generation = guards[call[c].key].generation + 1,
                          !.incarnation = guards[call[c].key].incarnation + 1]
            \in Guard
      BY Zenon, <3>3, GuardTypes
    <3>5. guards' \in [Keys -> Guard] /\ pending' \in [Keys -> SUBSET Permits]
      BY <2>4, <3>4 DEF UploadRegister
    <3>6. QED
      BY <2>4, <3>1, <3>5 DEF UploadRegister
  <2>6. CASE ProtectRead(c)
    <3>1. [call[c] EXCEPT !.step = "protect.permit"] \in ProtectCall
      BY <2>0, <2>6, CallTypes DEF ProtectRead, ProtectCall
    <3>2. GatesOK
      BY <2>6, <3>1, GateTypes DEF ProtectRead, Call
    <3>3. QED
      BY <2>6, <3>2 DEF ProtectRead
  <2>7. CASE ProtectPermit(c)
    <3>1. call[c] \in ProtectCall
      BY <2>0, <2>7, CallTypes DEF ProtectPermit
    <3>2. GatesOK
      BY <2>7, GateTypes DEF ProtectPermit
    <3>3. ASSUME GrantPermit(call[c].key, call[c].permit)
          PROVE  /\ guards' \in [Keys -> Guard]
                 /\ pending' \in [Keys -> SUBSET Permits]
                 /\ permits' \in [Permits -> Permit]
      BY <3>1, <3>3 DEF GrantPermit, ProtectCall, Guard, States, Permit
    <3>4. QED
      BY <2>7, <3>2, <3>3 DEF ProtectPermit
  <2>9. CASE DeleteValidate(c)
    <3>1. [call[c] EXCEPT !.step = "delete.object"] \in DeleteCall
      BY <2>0, <2>9, CallTypes DEF DeleteValidate, DeleteCall
    <3>2. GatesOK
      BY <2>9, <3>1, GateTypes DEF DeleteValidate, Call
    <3>3. QED
      BY <2>9, <3>2 DEF DeleteValidate
  <2>10. CASE DeleteObject(c)
    <3>1. [call[c] EXCEPT !.step = "delete.complete"] \in DeleteCall
      BY <2>0, <2>10, CallTypes DEF DeleteObject, DeleteCall
    <3>2. GatesOK
      BY <2>10, <3>1, GateTypes DEF DeleteObject, Call
    <3>3. QED
      BY <2>10, <3>2 DEF DeleteObject
  <2>11. CASE DeleteObjectFails(c)
    <3>1. GatesOK
      BY <2>11, GateTypes DEF DeleteObjectFails
    <3>2. QED
      BY <2>11, <3>1 DEF DeleteObjectFails
  <2>12. CASE DeleteComplete(c)
    <3>1. GatesOK
      BY <2>12, GateTypes DEF DeleteComplete
    <3>2. guards' \in [Keys -> Guard]
      BY <2>12 DEF DeleteComplete, Guard, States
    <3>3. QED
      BY <2>12, <3>1, <3>2 DEF DeleteComplete
  <2>13. QED
    BY <1>1, <2>1, <2>2, <2>3, <2>4, <2>6, <2>7, <2>9, <2>10, <2>11, <2>12
       DEF CallStep
<1>2. ASSUME NEW p \in Permits, PermitStep(p) PROVE TypeOK'
  BY <1>2 DEF PermitStep, Finalize, Abandon, CommitReference, DropReference, Permit
<1>3. ASSUME NEW k \in Keys, ExportKey(k) PROVE TypeOK'
  BY <1>3 DEF ExportKey
<1>4. ASSUME Sweep PROVE TypeOK'
  <2>1. PICK epoch \in (lastEpoch + 1) .. MaxEpoch :
          /\ lastEpoch' = epoch
          /\ guards' = [k \in Keys |-> SweepGuard(k, epoch)]
          /\ claims' = claims \cup
               {[key |-> k, generation |-> guards[k].generation + 1,
                 epoch |-> epoch] : k \in Doomed(epoch)}
          /\ visited' = {}
          /\ marked' = {}
          /\ UNCHANGED <<objects, pending, permits, clock, gate, call, committed, refs>>
    BY <1>4 DEF Sweep
  <2>2. epoch \in Nat
    BY <2>1, BoundAssumption
  <2>3. ASSUME NEW k \in Keys PROVE SweepGuard(k, epoch) \in Guard
    BY Zenon, <2>2, GuardTypes DEF SweepGuard
  <2>4. ASSUME NEW k \in Doomed(epoch)
        PROVE [key |-> k, generation |-> guards[k].generation + 1,
               epoch |-> epoch] \in Deletion
    BY <2>2 DEF Doomed, Deletion, Guard
  <2>5. guards' \in [Keys -> Guard]
    BY <2>1, <2>3
  <2>6. claims' \subseteq Deletion
    BY <2>1, <2>4
  <2>7. QED
    BY <2>1, <2>2, <2>5, <2>6
<1>5. CASE Tick
  BY <1>5 DEF Tick
<1>6. CASE UNCHANGED vars
  BY <1>6 DEF vars
<1>7. QED
  BY <1>1, <1>2, <1>3, <1>4, <1>5, <1>6 DEF Next

\* TypeOK holds in every reachable state of the blob store and its guard table.
THEOREM TypeCorrect == Spec => []TypeOK
BY TypeInit, TypeStep, PTL DEF Spec

-----------------------------------------------------------------------------
(* Guards and bytes agree                                                  *)

\* Taking the gate, moving on under it and releasing it keep GateInv.
LEMMA GateStep ==
    ASSUME TypeOK, GateInv, NEW c \in Procs
    PROVE  /\ \A k \in Keys, req \in Call :
                Acquire(c, k, req) /\ req.key = k => GateInv'
           /\ call[c].step # "idle" /\ Return(c) => GateInv'
           /\ \A s : call[c].step # "idle" /\ GoTo(c, s) => GateInv'
<1> USE DEF TypeOK, GateInv
<1>1. ASSUME NEW k \in Keys, NEW req \in Call, Acquire(c, k, req), req.key = k
      PROVE GateInv'
  BY <1>1, NoneAssumption DEF Acquire
<1>2. ASSUME call[c].step # "idle", Return(c) PROVE GateInv'
  BY <1>2 DEF Return, Idle
<1>3. ASSUME NEW s, call[c].step # "idle", GoTo(c, s) PROVE GateInv'
  <2>1. call[c].key \in Keys /\ gate[call[c].key] = c
    BY <1>3
  <2>2. call'[c].key = call[c].key
    BY <1>3 DEF GoTo, Call, Idle, UploadCall, ProtectCall, DeleteCall
  <2>3. QED
    BY <1>3, <2>1, <2>2 DEF GoTo
<1>4. QED
  BY <1>1, <1>2, <1>3

\* While a goroutine is inside a call no other one works on its key.
LEMMA GateExcludes ==
    ASSUME TypeOK, GateInv, NEW c \in Procs, NEW d \in Procs,
           c # d, call[c].step # "idle", call[d].step # "idle"
    PROVE  call[c].key # call[d].key
BY DEF GateInv

\* One step of any goroutine, permit holder, exporter or sweeper keeps BytesInv.
LEMMA BytesStep == BytesInv /\ [Next]_vars => BytesInv'
<1> SUFFICES ASSUME BytesInv, [Next]_vars PROVE BytesInv'
  OBVIOUS
<1>0. TypeOK /\ TypeOK' /\ GateInv /\ CallInv /\ AvailableHasBytes
  BY TypeStep DEF BytesInv
<1> USE DEF BytesInv, CallInv, AvailableHasBytes, Available, Going
<1>1. ASSUME NEW c \in Procs, CallStep(c) PROVE BytesInv'
  <2>1. GateInv'
    <3>1. CASE BeginUpload(c) \/ BeginProtect(c) \/ BeginDelete(c)
      BY <1>0, <3>1, Begins, GateStep
    <3>2. CASE \/ UploadPut(c) \/ UploadPutFails(c) \/ UploadRegister(c)
               \/ ProtectRead(c) \/ ProtectPermit(c)
      BY <1>0, <3>2, GateStep
         DEF UploadPut, UploadPutFails, UploadRegister, ProtectRead, ProtectPermit
    <3>3. CASE \/ DeleteValidate(c) \/ DeleteObject(c) \/ DeleteObjectFails(c)
               \/ DeleteComplete(c)
      BY <1>0, <3>3, GateStep
         DEF DeleteValidate, DeleteObject, DeleteObjectFails, DeleteComplete
    <3>4. QED
      BY <1>1, <3>1, <3>2, <3>3 DEF CallStep
  <2>2. CASE BeginUpload(c) \/ BeginProtect(c) \/ BeginDelete(c)
    <3>1. PICK k \in Keys, req \in Call :
            /\ Acquire(c, k, req)
            /\ req.step \in {"upload.put", "protect.read", "delete.validate"}
            /\ UNCHANGED <<objects, tableVars>>
      BY <1>0, <2>2, Begins
    <3>2. CallInv'
      BY <1>0, <3>1 DEF Acquire, TypeOK, tableVars
    <3>3. QED
      BY <1>0, <2>1, <3>1, <3>2 DEF tableVars
  <2>3. CASE call[c].step # "idle"
    <3> DEFINE k == call[c].key
    <3>1. k \in Keys /\ \A d \in Procs \ {c} : call[d].step # "idle" => call[d].key # k
      BY <1>0, <2>3, GateExcludes DEF GateInv
    <3>2. ASSUME \A j \in Keys : j # k => guards'[j] = guards[j],
                 \A j \in Keys : j # k /\ j \in objects => j \in objects',
                 \A d \in Procs : d # c => call'[d] = call[d],
                 guards'[k].state \in Available => k \in objects',
                 call'[c].step = "upload.register" => call'[c].key \in objects',
                 call'[c].step \in {"delete.object", "delete.complete"} =>
                    guards'[call'[c].key].state \in Going
          PROVE  BytesInv'
      <4>1. CallInv'
        <5> SUFFICES ASSUME NEW d \in Procs
                     PROVE  /\ call'[d].step = "upload.register" =>
                                  call'[d].key \in objects'
                            /\ call'[d].step \in {"delete.object", "delete.complete"} =>
                                  guards'[call'[d].key].state \in Going
          OBVIOUS
        <5>1. CASE d = c
          BY <3>2, <5>1
        <5>2. CASE d # c
          <6>1. call'[d] = call[d]
            BY <3>2, <5>2
          <6>2. call[d].step # "idle" => call[d].key \in Keys /\ call[d].key # k
            BY <1>0, <3>1, <5>2 DEF GateInv
          <6>3. QED
            BY <1>0, <3>2, <6>1, <6>2
        <5>3. QED
          BY <5>1, <5>2
      <4>2. AvailableHasBytes'
        BY <1>0, <3>2
      <4>3. QED
        BY <1>0, <2>1, <4>1, <4>2
    <3>3. CASE UploadPut(c)
      BY <1>0, <3>1, <3>2, <3>3 DEF UploadPut, GoTo, tableVars, TypeOK, Guard
    <3>4. CASE UploadPutFails(c)
      BY <1>0, <3>1, <3>2, <3>4 DEF UploadPutFails, Return, Idle, tableVars, TypeOK, Guard
    <3>5. CASE UploadRegister(c)
      <4>1. k \in objects /\ guards[k].state \in States
        BY <1>0, <3>1, <3>5 DEF UploadRegister, TypeOK, Guard
      <4>2. \A d \in Procs : d # c => call'[d] = call[d]
        BY <1>0, <3>5 DEF UploadRegister, Return, TypeOK
      <4>3. call'[c].step = "idle"
        BY <1>0, <3>5 DEF UploadRegister, Return, TypeOK, Idle
      <4>4. \A j \in Keys : j # k => guards'[j] = guards[j]
        BY <1>0, <3>1, <3>5 DEF UploadRegister, TypeOK
      <4>5. QED
        BY <3>2, <3>5, <4>1, <4>2, <4>3, <4>4 DEF UploadRegister
    <3>6. CASE ProtectRead(c)
      <4>1. \A d \in Procs : d # c => call'[d] = call[d]
        BY <1>0, <3>6 DEF ProtectRead, GoTo, Return, TypeOK
      <4>2. call'[c].step \in {"idle", "protect.permit"}
        BY <1>0, <3>6, CallTypes DEF ProtectRead, GoTo, Return, TypeOK, Idle, UploadCall, ProtectCall, DeleteCall
      <4>3. objects' = objects /\ guards' = guards
        BY <3>6 DEF ProtectRead, tableVars
      <4>4. QED
        BY <1>0, <3>1, <3>2, <4>1, <4>2, <4>3
    <3>7. CASE ProtectPermit(c)
      <4>1. \A d \in Procs : d # c => call'[d] = call[d]
        BY <1>0, <3>7 DEF ProtectPermit, Return, TypeOK
      <4>2. call'[c].step = "idle"
        BY <1>0, <3>7 DEF ProtectPermit, Return, TypeOK, Idle
      <4>3. \A j \in Keys : j # k => guards'[j] = guards[j]
        BY <1>0, <3>1, <3>7 DEF ProtectPermit, GrantPermit, TypeOK, tableVars
      <4>4. guards'[k].state \in Available => guards[k].state \in Available
        BY <1>0, <3>1, <3>7 DEF ProtectPermit, GrantPermit, TypeOK, tableVars
      <4>5. objects' = objects
        BY <3>7 DEF ProtectPermit
      <4>6. QED
        BY <1>0, <3>1, <3>2, <4>1, <4>2, <4>3, <4>4, <4>5
    <3>8. CASE DeleteValidate(c)
      <4>1. \A d \in Procs : d # c => call'[d] = call[d]
        BY <1>0, <3>8 DEF DeleteValidate, GoTo, Return, TypeOK
      <4>2. /\ call'[c].step \in {"idle", "delete.object"}
            /\ call'[c].step = "delete.object" =>
                 call'[c].key = k /\ guards[k].state \in Going
        BY <1>0, <3>8, CallTypes DEF DeleteValidate, GoTo, Return, TypeOK, Idle, UploadCall, ProtectCall, DeleteCall
      <4>3. objects' = objects /\ guards' = guards
        BY <3>8 DEF DeleteValidate, tableVars
      <4>4. QED
        BY <1>0, <3>1, <3>2, <4>1, <4>2, <4>3
    <3>9. CASE DeleteObject(c)
      BY <1>0, <3>1, <3>2, <3>9 DEF DeleteObject, GoTo, tableVars, TypeOK, Guard
    <3>10. CASE DeleteObjectFails(c)
      BY <1>0, <3>1, <3>2, <3>10 DEF DeleteObjectFails, Return, Idle, tableVars, TypeOK, Guard
    <3>11. CASE DeleteComplete(c)
      BY <1>0, <3>1, <3>2, <3>11 DEF DeleteComplete, Return, Idle, tableVars, TypeOK, Guard
    <3>12. QED
      BY <1>1, <2>2, <3>3, <3>4, <3>5, <3>6, <3>7, <3>8, <3>9, <3>10, <3>11
         DEF CallStep
  <2>4. QED
    BY Zenon, <1>1, <2>2, <2>3
       DEF CallStep, UploadPut, UploadPutFails, UploadRegister, ProtectRead,
           ProtectPermit, DeleteValidate, DeleteObject, DeleteObjectFails,
           DeleteComplete
<1>2. ASSUME NEW p \in Permits, PermitStep(p) PROVE BytesInv'
  BY <1>0, <1>2 DEF PermitStep, Finalize, Abandon, CommitReference,
                    DropReference, GateInv, tableVars
<1>3. ASSUME NEW k \in Keys, ExportKey(k) PROVE BytesInv'
  BY <1>0, <1>3 DEF ExportKey, GateInv, tableVars
<1>4. CASE Sweep
  <2>1. \A k \in Keys : /\ guards[k].state \in Going => guards'[k] = guards[k]
                        /\ guards'[k].state \in Available =>
                             guards[k].state \in Available
    BY Zenon, <1>0, <1>4 DEF Sweep, SweepGuard, Sweepable, TypeOK, Guard
  <2>2. GateInv'
    BY <1>0, <1>4 DEF Sweep, GateInv
  <2>3. QED
    BY <1>0, <1>4, <2>1, <2>2 DEF Sweep, GateInv
<1>5. CASE Tick
  BY <1>0, <1>5 DEF Tick, GateInv, tableVars
<1>6. CASE UNCHANGED vars
  BY <1>0, <1>6 DEF vars, GateInv
<1>7. QED
  BY <1>1, <1>2, <1>3, <1>4, <1>5, <1>6 DEF Next

\* In every reachable state a guard that is live or candidate has its bytes in
\* the object store, for any number of keys and of concurrent Upload, Protect,
\* Delete and Sweep calls.
THEOREM BytesSafe == Spec => []AvailableHasBytes
<1>1. Init => BytesInv
  BY TypeInit DEF Init, BytesInv, GateInv, CallInv, AvailableHasBytes, Idle,
                  NoGuard, Available
<1>2. BytesInv => AvailableHasBytes
  BY DEF BytesInv
<1>3. QED
  BY <1>1, <1>2, BytesStep, PTL DEF Spec

-----------------------------------------------------------------------------
(* Referenced and protected objects are kept                               *)

\* One step of any goroutine, permit holder, exporter or sweeper keeps RootInv.
LEMMA RootStep == RootInv /\ [Next]_vars => RootInv'
<1> SUFFICES ASSUME RootInv, [Next]_vars PROVE RootInv'
  OBVIOUS
<1>0. /\ TypeOK /\ TypeOK' /\ PendingIsLive /\ PermitInv /\ CommitInv
      /\ ReferencedIsKept /\ ExportInv /\ MarkedIsAvailable
  BY TypeStep DEF RootInv
<1> USE DEF RootInv, Available
<1>1. ASSUME UNCHANGED <<tableVars, rootVars>> PROVE RootInv'
  BY <1>0, <1>1 DEF tableVars, rootVars, PendingIsLive, PermitInv, CommitInv,
       ReferencedIsKept, Referenced, ExportInv, MarkedIsAvailable
<1>2. ASSUME NEW c \in Procs, UploadRegister(c) PROVE RootInv'
  <2> DEFINE k == call[c].key
  <2>1. k \in Keys
    BY <1>0, <1>2, CallTypes DEF UploadRegister, UploadCall, TypeOK
  <2>2. CASE guards[k].state \in {"absent", "deleted"}
    <3>1. /\ \A j \in Keys : j # k => guards'[j] = guards[j] /\ pending'[j] = pending[j]
          /\ guards'[k].state = "live" /\ pending'[k] = {}
          /\ UNCHANGED <<permits, rootVars>>
      <4> DEFINE new == [NoGuard EXCEPT !.state = "live",
                           !.generation = guards[k].generation + 1,
                           !.incarnation = guards[k].incarnation + 1]
      <4>1. new.state = "live"
        BY DEF NoGuard
      <4> HIDE DEF new
      <4>2. /\ guards' = [guards EXCEPT ![k] = new]
            /\ pending' = [pending EXCEPT ![k] = {}]
            /\ UNCHANGED <<permits, rootVars>>
        BY <1>2, <2>2 DEF UploadRegister, new
      <4>3. QED
        BY <1>0, <2>1, <4>1, <4>2 DEF TypeOK
    <3>2. pending[k] = {}
      BY <1>0, <2>1, <2>2 DEF PendingIsLive
    <3>3. PendingIsLive' /\ CommitInv'
      BY <1>0, <3>1 DEF PendingIsLive, CommitInv, rootVars
    <3>4. PermitInv'
      BY <1>0, <2>1, <3>1, <3>2 DEF PermitInv
    <3>5. ReferencedIsKept' /\ ExportInv' /\ MarkedIsAvailable'
      BY <1>0, <3>1 DEF ReferencedIsKept, Referenced, ExportInv,
           MarkedIsAvailable, rootVars, TypeOK
    <3>6. QED
      BY <1>0, <3>3, <3>4, <3>5
  <2>3. CASE guards[k].state \notin {"absent", "deleted"}
    BY <1>1, <1>2, <2>3 DEF UploadRegister, tableVars
  <2>4. QED
    BY <2>2, <2>3
<1>3. ASSUME NEW c \in Procs, ProtectPermit(c) PROVE RootInv'
  <2> DEFINE k == call[c].key
             p == call[c].permit
  <2>1. k \in Keys /\ p \in Permits
    BY <1>0, <1>3, CallTypes DEF ProtectPermit, ProtectCall, TypeOK
  <2>2. CASE GrantPermit(k, p)
    <3>1. /\ \A j \in Keys : j # k => guards'[j] = guards[j] /\ pending'[j] = pending[j]
          /\ guards'[k].state = "live" /\ pending'[k] = pending[k] \cup {p}
          /\ permits[p].state = "absent"
          /\ permits'[p].state = "pending" /\ permits'[p].key = k
          /\ \A q \in Permits : q # p => permits'[q] = permits[q]
          /\ UNCHANGED rootVars
      <4>1. \A j \in Keys : j # k => guards'[j] = guards[j]
        BY <1>0, <2>1, <2>2 DEF GrantPermit, TypeOK
      <4>2. guards'[k].state = "live"
        BY Zenon, <1>0, <2>1, <2>2 DEF GrantPermit, TypeOK, Guard
      <4>3. /\ \A j \in Keys : j # k => pending'[j] = pending[j]
            /\ pending'[k] = pending[k] \cup {p}
        BY <1>0, <2>1, <2>2 DEF GrantPermit, TypeOK
      <4>4. /\ permits'[p].state = "pending" /\ permits'[p].key = k
            /\ \A q \in Permits : q # p => permits'[q] = permits[q]
        BY <1>0, <2>1, <2>2 DEF GrantPermit, TypeOK
      <4>5. permits[p].state = "absent" /\ UNCHANGED rootVars
        BY <1>3, <2>2 DEF GrantPermit, ProtectPermit
      <4>6. QED
        BY <4>1, <4>2, <4>3, <4>4, <4>5
    <3>2. p \notin committed /\ p \notin refs
      BY <1>0, <3>1 DEF CommitInv, TypeOK
    <3>3. \A j \in Keys : Referenced(j)' <=> Referenced(j)
      BY <1>0, <3>1, <3>2 DEF Referenced, rootVars, TypeOK
    <3>4. PendingIsLive' /\ PermitInv'
      BY <1>0, <2>1, <3>1 DEF PendingIsLive, PermitInv
    <3>5. CommitInv'
      BY <1>0, <3>1, <3>2 DEF CommitInv, rootVars, TypeOK
    <3>6. ReferencedIsKept' /\ ExportInv' /\ MarkedIsAvailable'
      BY <1>0, <3>1, <3>3 DEF ReferencedIsKept, ExportInv, MarkedIsAvailable,
           rootVars, TypeOK
    <3>7. QED
      BY <1>0, <3>4, <3>5, <3>6
  <2>3. CASE UNCHANGED tableVars
    BY <1>1, <1>3, <2>3 DEF ProtectPermit
  <2>4. QED
    BY <1>3, <2>2, <2>3 DEF ProtectPermit
<1>4. ASSUME NEW c \in Procs, DeleteComplete(c) PROVE RootInv'
  <2>1. \A k \in Keys :
          \/ guards'[k].state = guards[k].state
          \/ guards[k].state = "deleting" /\ guards'[k].state = "deleted"
    <3>1. call[c].key \in Keys /\ guards[call[c].key] \in Guard
      BY <1>0, <1>4, CallTypes DEF DeleteComplete, DeleteCall, TypeOK
    <3>2. \/ guards' = guards
          \/ /\ guards[call[c].key].state = "deleting"
             /\ guards' = [guards EXCEPT ![call[c].key].state = "deleted"]
      BY <1>4 DEF DeleteComplete
    <3>3. [guards[call[c].key] EXCEPT !.state = "deleted"].state = "deleted"
      BY <3>1 DEF Guard
    <3>4. ASSUME NEW k \in Keys
          PROVE  \/ guards'[k].state = guards[k].state
                 \/ guards[k].state = "deleting" /\ guards'[k].state = "deleted"
      <4>1. CASE guards' = guards
        BY <4>1
      <4>2. CASE /\ guards[call[c].key].state = "deleting"
                 /\ guards' = [guards EXCEPT ![call[c].key].state = "deleted"]
        <5>1. CASE k = call[c].key
          BY <1>0, <3>1, <3>3, <4>2, <5>1 DEF TypeOK
        <5>2. CASE k # call[c].key
          BY <1>0, <4>2, <5>2 DEF TypeOK
        <5>3. QED
          BY <5>1, <5>2
      <4>3. QED
        BY <3>2, <4>1, <4>2
    <3>5. QED
      BY <3>4
  <2>2. UNCHANGED <<pending, permits, rootVars>>
    BY <1>4 DEF DeleteComplete
  <2>3. PendingIsLive' /\ PermitInv' /\ CommitInv'
    BY <1>0, <2>1, <2>2 DEF PendingIsLive, PermitInv, CommitInv, rootVars
  <2>4. ReferencedIsKept' /\ ExportInv' /\ MarkedIsAvailable'
    BY <1>0, <2>1, <2>2 DEF ReferencedIsKept, Referenced, ExportInv,
         MarkedIsAvailable, rootVars, TypeOK
  <2>5. QED
    BY <1>0, <2>3, <2>4
<1>5. ASSUME NEW c \in Procs, CallStep(c) PROVE RootInv'
  BY Zenon, <1>1, <1>2, <1>3, <1>4, <1>5
     DEF CallStep, BeginUpload, UploadPut, UploadPutFails, BeginProtect,
         ProtectRead, BeginDelete, DeleteValidate, DeleteObject, DeleteObjectFails
<1>6. ASSUME NEW p \in Permits, Finalize(p) \/ Abandon(p) PROVE RootInv'
  <2> DEFINE k == permits[p].key
  <2>1. permits[p].state = "pending" /\ k \in Keys /\ p \in pending[k]
    BY <1>0, <1>6 DEF Finalize, Abandon, PermitInv
  <2>2. /\ \A j \in Keys : j # k => pending'[j] = pending[j]
        /\ pending'[k] = pending[k] \ {p}
        /\ \A q \in Permits : permits'[q].key = permits[q].key
        /\ \A q \in Permits : q # p => permits'[q] = permits[q]
        /\ permits'[p].state \in {"finalized", "abandoned"}
        /\ permits'[p].state = "abandoned" => p \notin committed
        /\ UNCHANGED <<guards, rootVars>>
    BY <1>0, <1>6, <2>1 DEF Finalize, Abandon, TypeOK, Permit
  <2>3. \A j \in Keys : Referenced(j)' <=> Referenced(j)
    BY <1>0, <2>2 DEF Referenced, rootVars, TypeOK
  <2>4. PendingIsLive' /\ PermitInv'
    BY <1>0, <2>1, <2>2 DEF PendingIsLive, PermitInv
  <2>5. CommitInv'
    BY <1>0, <2>2 DEF CommitInv, rootVars, TypeOK
  <2>6. ReferencedIsKept' /\ ExportInv' /\ MarkedIsAvailable'
    BY <1>0, <2>2, <2>3 DEF ReferencedIsKept, ExportInv, MarkedIsAvailable, rootVars
  <2>7. QED
    BY <1>0, <2>4, <2>5, <2>6
<1>7. ASSUME NEW p \in Permits, CommitReference(p) PROVE RootInv'
  <2>1. /\ permits[p].state = "pending"
        /\ committed' = committed \cup {p} /\ refs' = refs \cup {p}
        /\ UNCHANGED <<guards, pending, permits, visited, marked>>
    BY <1>7 DEF CommitReference, tableVars
  <2>2. permits[p].key \in Keys /\ guards[permits[p].key].state = "live"
    BY <1>0, <2>1 DEF PermitInv, PendingIsLive
  <2>3. \A j \in Keys : Referenced(j)' => Referenced(j) \/ guards[j].state = "live"
    BY <2>1, <2>2 DEF Referenced
  <2>4. QED
    BY <1>0, <2>1, <2>3 DEF PendingIsLive, PermitInv, CommitInv,
         ReferencedIsKept, ExportInv, MarkedIsAvailable
<1>8. ASSUME NEW p \in Permits, DropReference(p) PROVE RootInv'
  <2>1. /\ refs' \subseteq refs
        /\ UNCHANGED <<guards, pending, permits, committed, visited, marked>>
    BY <1>8 DEF DropReference, tableVars
  <2>2. \A j \in Keys : Referenced(j)' => Referenced(j)
    BY <2>1 DEF Referenced
  <2>3. QED
    BY <1>0, <2>1, <2>2 DEF PendingIsLive, PermitInv, CommitInv,
         ReferencedIsKept, ExportInv, MarkedIsAvailable
<1>9. ASSUME NEW k \in Keys, ExportKey(k) PROVE RootInv'
  <2>1. \A j \in Keys : Referenced(j)' <=> Referenced(j)
    BY <1>9 DEF ExportKey, Referenced, tableVars
  <2>2. QED
    BY <1>0, <1>9, <2>1 DEF ExportKey, tableVars, PendingIsLive, PermitInv,
         CommitInv, ReferencedIsKept, ExportInv, MarkedIsAvailable
<1>10. CASE Sweep
  <2>1. UNCHANGED <<pending, permits, committed, refs>> /\ visited' = {} /\ marked' = {}
    BY <1>10 DEF Sweep
  <2>2. visited = Keys
    BY <1>10 DEF Sweep
  <2>3. ASSUME NEW k \in Keys
        PROVE  /\ pending[k] # {} => guards'[k].state = "live"
               /\ guards[k].state \in Available /\ k \in marked =>
                    guards'[k].state \in Available
               /\ guards[k].state = "live" => guards'[k].state \in Available
    <3>1. guards'[k] = SweepGuard(k, lastEpoch')
      BY <1>10 DEF Sweep
    <3>2. guards[k] \in Guard /\ (pending[k] # {} => guards[k].state = "live")
      BY <1>0 DEF TypeOK, PendingIsLive
    <3>3. QED
      BY <3>1, <3>2 DEF SweepGuard, Sweepable, Retained, Expired, Guard
  <2>4. \A j \in Keys : Referenced(j)' <=> Referenced(j)
    BY <2>1 DEF Referenced
  <2>5. ReferencedIsKept'
    BY <1>0, <2>2, <2>3, <2>4 DEF ReferencedIsKept, ExportInv
  <2>6. QED
    BY <1>0, <2>1, <2>3, <2>5 DEF PendingIsLive, PermitInv, CommitInv,
         ExportInv, MarkedIsAvailable
<1>11. CASE Tick
  BY <1>1, <1>11 DEF Tick
<1>12. CASE UNCHANGED vars
  BY <1>1, <1>12 DEF vars, tableVars, rootVars
<1>13. QED
  BY <1>5, <1>6, <1>7, <1>8, <1>9, <1>10, <1>11, <1>12 DEF Next, PermitStep

\* Initially no object is guarded, so the root invariant holds trivially of an
\* empty guard table (NewGuardTable).
LEMMA RootInit == Init => RootInv
BY TypeInit DEF Init, RootInv, PendingIsLive, PermitInv, CommitInv,
   ReferencedIsKept, Referenced, ExportInv, MarkedIsAvailable, NoPermit

\* An object a durable root references is never deleting or deleted, whatever
\* the interleaving of commits, finalizations, exports and sweeps.
THEOREM ReferencesSafe == Spec => []ReferencedIsKept
<1>1. RootInv => ReferencedIsKept
  BY DEF RootInv
<1>2. QED
  BY <1>1, RootInit, RootStep, PTL DEF Spec

\* An object with a pending permit is live: a sweep never suspects it.
THEOREM ProtectionWins == Spec => []PendingIsLive
<1>1. RootInv => PendingIsLive
  BY DEF RootInv
<1>2. QED
  BY <1>1, RootInit, RootStep, PTL DEF Spec

\* What the root export marked is still available when the sweep runs.
THEOREM MarksSafe == Spec => []MarkedIsAvailable
<1>1. RootInv => MarkedIsAvailable
  BY DEF RootInv
<1>2. QED
  BY <1>1, RootInit, RootStep, PTL DEF Spec

\* What ContentStore and GuardTable promise together of an object: its bytes, and that
\* nothing referenced, protected or marked is being deleted.
THEOREM BlobsSafe == Spec => []BlobsKept
<1>1. AvailableHasBytes /\ ReferencedIsKept /\ PendingIsLive /\ MarkedIsAvailable => BlobsKept
  BY DEF BlobsKept
<1>2. QED
  BY <1>1, BytesSafe, ReferencesSafe, ProtectionWins, MarksSafe, PTL

-----------------------------------------------------------------------------
(* Old claims                                                              *)

\* A deletion past its validation still runs under the generation of the guard.
ClaimInv ==
    \A c \in Procs : call[c].step = "delete.object" =>
        guards[call[c].key].generation = call[c].generation

\* No step of another goroutine, permit holder or sweep moves the generation of a guard
\* whose object is about to be deleted: the gate keeps calls away, and Sweep leaves
\* guards alone that are already going.
LEMMA ClaimStep == BytesInv /\ ClaimInv /\ [Next]_vars => ClaimInv'
<1> SUFFICES ASSUME BytesInv, ClaimInv, [Next]_vars, NEW d \in Procs,
                    call'[d].step = "delete.object"
             PROVE  guards'[call'[d].key].generation = call'[d].generation
  BY DEF ClaimInv
<1>0. TypeOK /\ GateInv /\ CallInv
  BY DEF BytesInv
<1>1. ASSUME call'[d] = call[d], guards'[call[d].key] = guards[call[d].key]
      PROVE  guards'[call'[d].key].generation = call'[d].generation
  BY <1>1 DEF ClaimInv
<1>2. ASSUME NEW c \in Procs, CallStep(c)
      PROVE  guards'[call'[d].key].generation = call'[d].generation
  <2>1. CASE c = d
    <3>1. CASE DeleteValidate(c)
      <4>1. guards' = guards
        BY <3>1 DEF DeleteValidate, tableVars
      <4>2. CASE Return(c)
        BY <1>0, <2>1, <4>2 DEF Return, Idle, TypeOK
      <4>3. CASE DeletionMatchesGuard(c) /\ GoTo(c, "delete.object")
        <5>1. call'[c].key = call[c].key /\ call'[c].generation = call[c].generation
          BY <1>0, <4>3, CallTypes DEF GoTo, TypeOK, Idle, UploadCall, ProtectCall, DeleteCall
        <5>2. QED
          BY <2>1, <4>1, <4>3, <5>1 DEF DeletionMatchesGuard
      <4>4. QED
        BY <3>1, <4>2, <4>3 DEF DeleteValidate
    <3>2. CASE BeginUpload(c) \/ BeginProtect(c) \/ BeginDelete(c)
      <4>1. PICK k \in Keys, req \in Call :
              /\ Acquire(c, k, req)
              /\ req.step \in {"upload.put", "protect.read", "delete.validate"}
        BY <1>0, <3>2, Begins
      <4>2. QED
        BY <1>0, <2>1, <4>1 DEF Acquire, TypeOK
    <3>3. ASSUME NEW s \in {"upload.register", "protect.permit", "delete.complete"},
                 GoTo(c, s) \/ Return(c)
          PROVE  FALSE
      <4>1. CASE Return(c)
        BY <1>0, <2>1, <4>1 DEF Return, Idle, TypeOK
      <4>2. CASE GoTo(c, s)
        BY <1>0, <2>1, <4>2, CallTypes DEF GoTo, TypeOK, Idle, UploadCall, ProtectCall, DeleteCall
      <4>3. QED
        BY <3>3, <4>1, <4>2
    <3>4. QED
      BY Zenon, <1>2, <3>1, <3>2, <3>3
         DEF CallStep, UploadPut, UploadPutFails, UploadRegister, ProtectRead, ProtectPermit,
             DeleteObject, DeleteObjectFails, DeleteComplete
  <2>2. CASE c # d
    <3>1. call'[d] = call[d]
      <4>1. CASE BeginUpload(c) \/ BeginProtect(c) \/ BeginDelete(c)
        BY <1>0, <2>2, <4>1, Begins DEF Acquire, TypeOK
      <4>2. CASE ~(BeginUpload(c) \/ BeginProtect(c) \/ BeginDelete(c))
        BY <1>0, <1>2, <2>2, <4>2
           DEF CallStep, UploadPut, UploadPutFails, UploadRegister, ProtectRead, ProtectPermit,
               DeleteValidate, DeleteObject, DeleteObjectFails, DeleteComplete, GoTo, Return, TypeOK
      <4>3. QED
        BY <4>1, <4>2
    <3>2. call[d].step # "idle" /\ call[d].key \in Keys
      BY <1>0, <3>1 DEF GateInv
    <3>3. guards'[call[d].key] = guards[call[d].key]
      <4>1. CASE \/ BeginUpload(c) \/ BeginProtect(c) \/ BeginDelete(c) \/ UploadPut(c)
                 \/ UploadPutFails(c) \/ ProtectRead(c) \/ DeleteValidate(c)
                 \/ DeleteObject(c) \/ DeleteObjectFails(c)
        BY <4>1 DEF BeginUpload, BeginProtect, BeginDelete, UploadPut, UploadPutFails,
                    ProtectRead, DeleteValidate, DeleteObject, DeleteObjectFails, tableVars
      <4>2. CASE UploadRegister(c) \/ ProtectPermit(c) \/ DeleteComplete(c)
        <5>1. call[c].step # "idle"
          BY <4>2 DEF UploadRegister, ProtectPermit, DeleteComplete
        <5>2. call[c].key \in Keys /\ call[c].key # call[d].key
          BY <1>0, <2>2, <3>2, <5>1, GateExcludes DEF GateInv
        <5>3. QED
          BY <1>0, <3>2, <4>2, <5>2
             DEF UploadRegister, ProtectPermit, GrantPermit, DeleteComplete, TypeOK, tableVars
      <4>3. QED
        BY <1>2, <4>1, <4>2 DEF CallStep
    <3>4. QED
      BY <1>1, <3>1, <3>3
  <2>3. QED
    BY <2>1, <2>2
<1>3. CASE Sweep
  <2>1. call' = call /\ call[d].key \in Keys /\ guards[call[d].key].state \in Going
    BY <1>0, <1>3 DEF Sweep, GateInv, CallInv
  <2>2. guards'[call[d].key] = guards[call[d].key]
    BY Zenon, <1>3, <2>1 DEF Sweep, SweepGuard, Sweepable, Going, Available
  <2>3. QED
    BY <1>1, <2>1, <2>2
<1>4. CASE UNCHANGED <<guards, call>>
  BY <1>1, <1>4
<1>5. QED
  BY <1>2, <1>3, <1>4
     DEF Next, PermitStep, Finalize, Abandon, CommitReference, DropReference, ExportKey, Tick,
         vars, tableVars

\* The bytes of a key only go under a deletion that holds its gate and whose claim is of the
\* guard's current generation: an old claim never deletes a re-uploaded object.
THEOREM OldClaimsSafe == Spec => [][OldClaimsAreHarmless]_vars
<1> DEFINE I == BytesInv /\ ClaimInv
<1>1. Init => I
  BY TypeInit DEF Init, BytesInv, GateInv, CallInv, ClaimInv, AvailableHasBytes, Idle,
                  NoGuard, Available
<1>2. I /\ [Next]_vars => I'
  BY BytesStep, ClaimStep
<1>3. I /\ [Next]_vars => [OldClaimsAreHarmless]_vars
  <2> SUFFICES ASSUME I, Next, NEW k \in objects \ objects'
               PROVE  \E c \in Procs : /\ gate[k] = c
                                       /\ guards[k].state \in Going
                                       /\ guards[k].generation = call[c].generation
    BY DEF OldClaimsAreHarmless
  <2>1. PICK c \in Procs : DeleteObject(c) \/ DeleteObjectFails(c)
    BY DEF Next, CallStep, BeginUpload, BeginProtect, BeginDelete, UploadPut, UploadPutFails,
           UploadRegister, ProtectRead, ProtectPermit, DeleteValidate, DeleteComplete,
           PermitStep, Finalize, Abandon, CommitReference, DropReference, ExportKey, Sweep, Tick
  <2>2. call[c].step = "delete.object" /\ k = call[c].key
    BY <2>1 DEF DeleteObject, DeleteObjectFails
  <2>3. QED
    BY <2>2 DEF BytesInv, GateInv, CallInv, ClaimInv
<1>4. QED
  BY <1>1, <1>2, <1>3, PTL DEF Spec
=============================================================================
