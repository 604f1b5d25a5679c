----------------------------- MODULE Artifacts -----------------------------
(***************************************************************************)
(* The artifact service: a creation copies a file of a workspace revision  *)
(* to a content-addressed object and commits a record that points to it;   *)
(* records expire or are deleted, and collectors sweep the objects that no *)
(* record or creation in flight needs.  Objects live in a store of their   *)
(* own, so a creation and a sweep are several calls each: a durable claim  *)
(* on the object keeps the two apart, versions keep a late delete away     *)
(* from a newer object, and a lease keeps one collector at a time.         *)
(***************************************************************************)
EXTENDS Integers, Sequences, FiniteSets, FiniteSetsExt, SequencesExt

CONSTANTS
  Requests,       \* creation requests, each one digest
  Invocations,    \* invocation identifiers
  Keys,           \* object keys: one for each tenant and content
  InvocationOf, KeyOf, SizeOf, RetainFor,  \* of a request
  Quota,          \* the tenant's quota in bytes
  Workers,        \* callers of CreateFromWorkspace
  Readers,        \* callers of Open
  Collectors,     \* callers of CollectGarbage
  MaximumArtifactBytes, DefaultRetention, MaximumRetention,
  GCGrace, InflightTimeout, GCLeaseDuration, GCBatchSize,
  Punctual,       \* tickers renew a lease in time, as they do on a live host
  MaxTime,        \* bound: the clock stops here
  LastCreate,     \* bound: no creation starts after this time
  MaxFaults,      \* bound: calls that fail or whose caller stops
  None

VARIABLES
  now,
  invocations,    \* records of creations, and the order they began in
  artifacts,      \* records of artifacts, named by their invocation
  order,          \* [inv |-> ..., art |-> ...]: creation orders of both
  count,          \* [used, reserved: bytes; inflight, active: by key; tombstone: latest by key]
  sweeps,         \* claims in the order in which they are next looked at
  gc,             \* the collectors' lease and the checkpoint
  store,          \* [objects, history, mutation]: the object store
  worker, reader, collector,
  late,           \* calls to the store that may still take effect
  answered,       \* requests answered with a reference to an artifact
  faults

vars == <<now, invocations, artifacts, order, count, sweeps, gc, store,
          worker, reader, collector, late, answered, faults>>
repository == <<invocations, artifacts, order, count, sweeps, gc>>
callers == <<worker, reader, collector, answered>>

---------------------------------------------------------------------------
(* Configuration and requests *)

\* What NewService accepts; a heartbeat is faster than the time-out.
ConfigAccepted ==
  /\ MaximumArtifactBytes > 0 /\ GCGrace > 0 /\ InflightTimeout > 0
  /\ DefaultRetention \in 1 .. MaximumRetention
  /\ GCBatchSize > 0 /\ GCLeaseDuration > 0

\* The retention of a request: the default when it names none.
Retention(r) == IF RetainFor[r] = 0 THEN DefaultRetention ELSE RetainFor[r]

\* A request passes validation; everything else about it is its digest.
Valid(r) == Retention(r) <= MaximumRetention

\* The file read from the workspace revision is small enough.
Readable(r) == SizeOf[r] <= MaximumArtifactBytes

\* A record of an invocation belongs to the request.
SameRequest(record, r) == record.req = r

NoInvocation == [state |-> "none", req |-> None, gen |-> 0, started |-> 0, beat |-> 0]
NoArtifact == [state |-> "none", req |-> None, until |-> 0, tombstoned |-> 0]
Idle == [pc |-> "idle", req |-> None, gen |-> 0, found |-> FALSE]
NotReading == [pc |-> "idle", art |-> None, at |-> 0]
Start == [expired |-> <<>>, inflight |-> <<>>, epoch |-> <<>>, blob |-> 0]
Resting == [pc |-> "idle", token |-> 0, at |-> 0, checkpoint |-> Start, page |-> <<>>, claims |-> <<>>]

Init ==
  /\ now = 0
  /\ invocations = [i \in Invocations |-> NoInvocation]
  /\ artifacts = [i \in Invocations |-> NoArtifact]
  /\ order = [inv |-> <<>>, art |-> <<>>]
  /\ count = [used |-> 0, reserved |-> 0, inflight |-> [k \in Keys |-> 0],
              active |-> [k \in Keys |-> 0], tombstone |-> [k \in Keys |-> -1]]
  /\ sweeps = <<>>
  /\ gc = [held |-> FALSE, token |-> 0, expires |-> 0, checkpoint |-> Start]
  /\ store = [objects |-> [k \in Keys |-> 0], history |-> <<>>, mutation |-> 0]
  /\ worker = [w \in Workers |-> Idle]
  /\ reader = [r \in Readers |-> NotReading]
  /\ collector = [c \in Collectors |-> Resting]
  /\ late = {} /\ answered = {} /\ faults = 0

Unused(S) == CHOOSE n \in 1 .. Cardinality(S) + 1 : n \notin S

---------------------------------------------------------------------------
(* The object store: version 0 is no object *)

\* A new object gets the next version, which is its place in the history.
PutIfAbsent(k, created) ==
  IF store.objects[k] # 0 THEN store ELSE
  [objects |-> [store.objects EXCEPT ![k] = Len(store.history) + 1],
   history |-> Append(store.history, [key |-> k, created |-> created, from |-> store.mutation + 1, to |-> 0]),
   mutation |-> store.mutation + 1]

\* Mutant of DeleteIfVersion: the key is deleted whatever its version.
DeleteKey(k, version) ==
  IF store.objects[k] = 0 THEN store ELSE
  [objects |-> [store.objects EXCEPT ![k] = 0],
   history |-> [store.history EXCEPT ![store.objects[k]].to = store.mutation + 1],
   mutation |-> store.mutation + 1]
\* Only the version that was claimed is deleted.
DeleteIfVersion(k, version) ==
  IF store.objects[k] # version THEN store ELSE
  [objects |-> [store.objects EXCEPT ![k] = 0],
   history |-> [store.history EXCEPT ![version].to = store.mutation + 1],
   mutation |-> store.mutation + 1]

\* A page of the objects that were there when the epoch began.
ListPage(epoch, offset, limit) ==
  LET e == IF epoch = <<>> THEN <<store.mutation, Len(store.history)>> ELSE epoch
      end == Min({offset + limit, e[2]})
      there == SelectSeq([n \in 1 .. end - offset |-> offset + n],
                 LAMBDA v : /\ store.history[v].from <= e[1]
                            /\ store.history[v].to = 0 \/ store.history[v].to > e[1])
  IN [epoch |-> e, next |-> end, versions |-> there, done |-> end = e[2]]

---------------------------------------------------------------------------
(* The repository: each operator is one transaction *)

\* BeginCreate of a new invocation: fenced by a claim, bounded by the quota.
MayReserve(r) ==
  /\ \A n \in DOMAIN sweeps : sweeps[n].key # KeyOf[r]
  /\ SizeOf[r] <= Quota - count.used - count.reserved

Reserve(r) ==
  /\ count' = [count EXCEPT !.reserved = @ + SizeOf[r], !.inflight[KeyOf[r]] = @ + 1]
  /\ invocations' = [invocations EXCEPT ![InvocationOf[r]] =
                       [state |-> "inflight", req |-> r, gen |-> 1, started |-> now, beat |-> now]]
  /\ order' = [order EXCEPT !.inv = Append(@, InvocationOf[r])]

\* HeartbeatCreate is refused after abandonment or for another generation.
HeartbeatAccepted(w) ==
  LET i == invocations[InvocationOf[worker[w].req]]
  IN /\ SameRequest(i, worker[w].req) /\ i.state # "abandoned" /\ i.gen = worker[w].gen

Heartbeat(w) ==
  invocations' = [invocations EXCEPT ![InvocationOf[worker[w].req]].beat =
                    IF invocations[InvocationOf[worker[w].req]].state = "inflight" THEN Max({@, now}) ELSE @]

\* CommitCreate turns the reservation into use and the creation into an artifact.
Commit(i) ==
  LET r == invocations[i].req
  IN /\ artifacts' = [artifacts EXCEPT ![i] = [state |-> "active", req |-> r, tombstoned |-> 0,
                                               until |-> invocations[i].started + Retention(r)]]
     /\ order' = [order EXCEPT !.art = Append(@, i)]
     /\ count' = [count EXCEPT !.inflight[KeyOf[r]] = @ - 1, !.active[KeyOf[r]] = @ + 1,
                               !.reserved = @ - SizeOf[r], !.used = @ + SizeOf[r]]
     /\ invocations' = [invocations EXCEPT ![i].state = "committed"]

Bytes(S) == MapThenSumSet(LAMBDA i : SizeOf[invocations[i].req], S)
OfKey(S, k) == {i \in S : KeyOf[invocations[i].req] = k}

\* Artifacts S stop counting, and their objects are kept from now for the grace.
Tombstone(S, at) ==
  /\ artifacts' = [i \in Invocations |->
       IF i \in S THEN [artifacts[i] EXCEPT !.state = "tombstoned", !.tombstoned = at] ELSE artifacts[i]]
  /\ count' = [count EXCEPT !.used = @ - Bytes(S),
       !.active = [k \in Keys |-> @[k] - Cardinality(OfKey(S, k))],
       !.tombstone = [k \in Keys |-> IF OfKey(S, k) # {} THEN Max({@[k], at}) ELSE @[k]]]

\* Creations S lose their reservation and their generation.
Abandon(S) ==
  /\ invocations' = [i \in Invocations |->
       IF i \in S THEN [invocations[i] EXCEPT !.state = "abandoned", !.gen = @ + 1] ELSE invocations[i]]
  /\ count' = [count EXCEPT !.reserved = @ - Bytes(S),
       !.inflight = [k \in Keys |-> @[k] - Cardinality(OfKey(S, k))]]

\* A page of an order: where it ends, and the cursor after it.
PageBounds(cursor, total) ==
  LET start == IF cursor = <<>> THEN 0 ELSE cursor[1]
      high == IF cursor = <<>> THEN total ELSE cursor[2]
      end == Min({start + GCBatchSize, high})
  IN [from |-> start + 1, to |-> end, next |-> IF end = high THEN <<>> ELSE <<end, high>>]

Page(seq, bounds) == {seq[n] : n \in bounds.from .. bounds.to}

HoldsLease(c) == gc.held /\ gc.token = collector[c].token

\* ClaimSweepLeased grants a claim: no use, no reservation, no young tombstone.
Sweepable(k, version, cutoff) ==
  /\ \A n \in DOMAIN sweeps : sweeps[n].key # k
  /\ count.inflight[k] = 0 /\ count.active[k] = 0
  /\ count.tombstone[k] <= cutoff

\* The claim is still the one recorded, under the collector's lease.
ClaimIsCurrent(c, claim) ==
  /\ HoldsLease(c) /\ claim.lease = collector[c].token
  /\ \E n \in DOMAIN sweeps : sweeps[n] = claim

WithoutClaim(claim) == SelectSeq(sweeps, LAMBDA s : s # claim)

---------------------------------------------------------------------------
(* CreateFromWorkspace *)

Give(w, f) == worker' = [worker EXCEPT ![w] = f]
Fails(w) == Give(w, Idle)

\* Lookup of the invocation: nothing, an answer, a refusal or a creation to resume.
StartCreate(w, r) ==
  LET i == invocations[InvocationOf[r]]
  IN /\ worker[w].pc = "idle" /\ Valid(r) /\ now <= LastCreate
     /\ \/ /\ i.state = "none"
           /\ Give(w, [pc |-> "read", req |-> r, gen |-> 0, found |-> FALSE])
           /\ UNCHANGED answered
        \/ /\ i.state = "committed" /\ SameRequest(i, r)
           /\ answered' = answered \cup {r}
           /\ UNCHANGED worker
        \/ /\ i.state = "inflight" /\ SameRequest(i, r)
           /\ Give(w, [pc |-> "resume", req |-> r, gen |-> i.gen, found |-> TRUE])
           /\ UNCHANGED answered
     /\ UNCHANGED <<now, repository, store, reader, collector, late, faults>>

\* A heartbeat before the step that follows; refused, the creation fails.
BeatAt(w, at, next) ==
  /\ worker[w].pc = at
  /\ \/ HeartbeatAccepted(w) /\ Heartbeat(w) /\ Give(w, [worker[w] EXCEPT !.pc = next])
     \/ ~HeartbeatAccepted(w) /\ Fails(w) /\ UNCHANGED invocations
  /\ UNCHANGED <<now, artifacts, order, count, sweeps, gc, store, reader, collector, late, answered, faults>>

Resume(w) == BeatAt(w, "resume", "get")
BeforePut(w) == BeatAt(w, "beat", "put")
AfterPut(w) == BeatAt(w, "seal", "commit")

\* The ticker's heartbeat while the bytes are written.
TickerBeat(w) == BeatAt(w, "put", "put")

\* A resumed creation looks whether its object is there already.
GetBlob(w) ==
  /\ worker[w].pc = "get"
  /\ Give(w, [worker[w] EXCEPT !.pc = IF store.objects[KeyOf[worker[w].req]] # 0 THEN "commit" ELSE "read"])
  /\ UNCHANGED <<now, repository, store, reader, collector, late, answered, faults>>

\* The file is read; a new invocation is then reserved, one that another
\* caller began meanwhile is joined.
Begin(w) ==
  LET r == worker[w].req
      i == invocations[InvocationOf[r]]
  IN /\ worker[w].pc = "read"
     /\ \/ ~Readable(r) /\ Fails(w) /\ UNCHANGED <<invocations, order, count, answered>>
        \/ /\ Readable(r) /\ worker[w].found
           /\ Give(w, [worker[w] EXCEPT !.pc = "beat"])
           /\ UNCHANGED <<invocations, order, count, answered>>
        \/ /\ Readable(r) /\ ~worker[w].found /\ i.state = "none"
           /\ \/ MayReserve(r) /\ Reserve(r) /\ Give(w, [worker[w] EXCEPT !.pc = "beat", !.gen = 1])
              \/ ~MayReserve(r) /\ Fails(w) /\ UNCHANGED <<invocations, order, count>>
           /\ UNCHANGED answered
        \/ /\ Readable(r) /\ ~worker[w].found /\ i.state # "none"
           /\ \/ /\ SameRequest(i, r) /\ i.state = "inflight"
                 /\ Give(w, [worker[w] EXCEPT !.pc = "beat", !.gen = i.gen])
                 /\ UNCHANGED answered
              \/ /\ SameRequest(i, r) /\ i.state = "committed"
                 /\ answered' = answered \cup {r} /\ Fails(w)
              \/ /\ ~SameRequest(i, r) \/ i.state = "abandoned"
                 /\ Fails(w) /\ UNCHANGED answered
           /\ UNCHANGED <<invocations, order, count>>
     /\ UNCHANGED <<now, artifacts, sweeps, gc, store, reader, collector, late, faults>>

PutOf(w) == [op |-> "put", key |-> KeyOf[worker[w].req],
             at |-> invocations[InvocationOf[worker[w].req]].started, version |-> 0]

\* The bytes are stored.
Put(w) ==
  /\ worker[w].pc = "put"
  /\ store' = PutIfAbsent(PutOf(w).key, PutOf(w).at)
  /\ Give(w, [worker[w] EXCEPT !.pc = "seal"])
  /\ UNCHANGED <<now, repository, reader, collector, late, answered, faults>>

\* The write fails or its caller stops: it may still take effect.
PutUncertain(w) ==
  /\ worker[w].pc = "put" /\ faults < MaxFaults
  /\ faults' = faults + 1 /\ late' = late \cup {PutOf(w)} /\ Fails(w)
  /\ UNCHANGED <<now, repository, store, reader, collector, answered>>

\* The commit answers the artifact, also one that another caller committed.
CommitCreate(w) ==
  LET r == worker[w].req
      i == invocations[InvocationOf[r]]
  IN /\ worker[w].pc = "commit" /\ Fails(w)
     /\ \/ /\ SameRequest(i, r) /\ i.state = "inflight" /\ i.gen = worker[w].gen
           /\ Commit(InvocationOf[r]) /\ answered' = answered \cup {r}
        \/ /\ SameRequest(i, r) /\ i.state = "committed" /\ answered' = answered \cup {r}
           /\ UNCHANGED <<invocations, artifacts, order, count>>
        \/ /\ i.state = "abandoned"
           /\ UNCHANGED <<invocations, artifacts, order, count, answered>>
     /\ UNCHANGED <<now, sweeps, gc, store, reader, collector, late, faults>>

\* A caller stops between two calls.
WorkerStops(w) ==
  /\ worker[w].pc \in {"resume", "get", "read", "beat", "seal", "commit"} /\ faults < MaxFaults
  /\ faults' = faults + 1 /\ Fails(w)
  /\ UNCHANGED <<now, repository, store, reader, collector, late, answered>>

---------------------------------------------------------------------------
(* Open and Delete *)

\* The record is read: the artifact is active and not expired.
Open(r, i) ==
  /\ reader[r].pc = "idle"
  /\ artifacts[i].state = "active" /\ now < artifacts[i].until
  /\ reader' = [reader EXCEPT ![r] = [pc |-> "get", art |-> i, at |-> now]]
  /\ UNCHANGED <<now, repository, store, worker, collector, late, answered, faults>>

\* Its bytes are read.
OpenGet(r) ==
  /\ reader[r].pc = "get"
  /\ reader' = [reader EXCEPT ![r] = NotReading]
  /\ UNCHANGED <<now, repository, store, worker, collector, late, answered, faults>>

Delete(i) ==
  /\ artifacts[i].state = "active"
  /\ Tombstone({i}, now)
  /\ UNCHANGED <<now, invocations, order, sweeps, gc, store, callers, late, faults>>

---------------------------------------------------------------------------
(* CollectGarbage *)

At(c, pc) == collector[c].pc = pc
Set(c, f) == collector' = [collector EXCEPT ![c] = f]

AcquireGC(c) ==
  LET token == Unused({gc.token} \cup {collector[d].token : d \in Collectors}
                      \cup {sweeps[n].lease : n \in DOMAIN sweeps})
  IN /\ At(c, "idle") /\ ~(gc.held /\ now < gc.expires)
     /\ gc' = [gc EXCEPT !.held = TRUE, !.token = token, !.expires = now + GCLeaseDuration]
     /\ Set(c, [Resting EXCEPT !.pc = "expire", !.token = token, !.at = now, !.checkpoint = gc.checkpoint])
     /\ UNCHANGED <<now, invocations, artifacts, order, count, sweeps, store, worker, reader, late, answered, faults>>

\* The ticker renews the lease.
RenewGC(c) ==
  /\ ~At(c, "idle") /\ HoldsLease(c) /\ now < gc.expires
  /\ gc' = [gc EXCEPT !.expires = now + GCLeaseDuration]
  /\ UNCHANGED <<now, invocations, artifacts, order, count, sweeps, store, callers, late, faults>>

\* Work stops once the lease is lost: what is left of the pass is dropped.
Abort(c) == Set(c, [collector[c] EXCEPT !.pc = "release", !.claims = <<>>, !.page = <<>>])

RenewFails(c) ==
  /\ collector[c].pc \notin {"idle", "release"}
  /\ ~(HoldsLease(c) /\ now < gc.expires)
  /\ Abort(c)
  /\ UNCHANGED <<now, repository, store, worker, reader, late, answered, faults>>

TombstoneExpiredPage(c) ==
  LET b == PageBounds(collector[c].checkpoint.expired, Len(order.art))
      S == {i \in Page(order.art, b) : artifacts[i].state = "active" /\ artifacts[i].until <= collector[c].at}
  IN /\ At(c, "expire")
     /\ \/ /\ HoldsLease(c) /\ Tombstone(S, collector[c].at)
           /\ Set(c, [collector[c] EXCEPT !.pc = "abandon", !.checkpoint.expired = b.next])
        \/ ~HoldsLease(c) /\ Abort(c) /\ UNCHANGED <<artifacts, count>>
     /\ UNCHANGED <<now, invocations, order, sweeps, gc, store, worker, reader, late, answered, faults>>

AbandonInflightPage(c) ==
  LET b == PageBounds(collector[c].checkpoint.inflight, Len(order.inv))
      S == {i \in Page(order.inv, b) : /\ invocations[i].state = "inflight"
                                        /\ invocations[i].beat <= collector[c].at - InflightTimeout}
  IN /\ At(c, "abandon")
     /\ \/ /\ HoldsLease(c) /\ Abandon(S)
           /\ Set(c, [collector[c] EXCEPT !.pc = "pending", !.checkpoint.inflight = b.next])
        \/ ~HoldsLease(c) /\ Abort(c) /\ UNCHANGED <<invocations, count>>
     /\ UNCHANGED <<now, artifacts, order, sweeps, gc, store, worker, reader, late, answered, faults>>

\* The first n claims move to the end, under the new lease.
Requeued(n, token) ==
  SubSeq(sweeps, n + 1, Len(sweeps)) \o [m \in 1 .. n |-> [sweeps[m] EXCEPT !.lease = token]]

PendingSweepsPage(c) ==
  LET n == Min({GCBatchSize, Len(sweeps)})
  IN /\ At(c, "pending")
     /\ \/ /\ HoldsLease(c)
           /\ sweeps' = Requeued(n, collector[c].token)
           /\ Set(c, [collector[c] EXCEPT !.pc = IF n = GCBatchSize THEN "head" ELSE "list",
                        !.claims = [m \in 1 .. n |-> [sweeps[m] EXCEPT !.lease = collector[c].token]]])
        \/ ~HoldsLease(c) /\ Abort(c) /\ UNCHANGED sweeps
     /\ UNCHANGED <<now, invocations, artifacts, order, count, gc, store, worker, reader, late, answered, faults>>

ListBlobs(c) ==
  LET k == collector[c].checkpoint
      p == ListPage(k.epoch, k.blob, GCBatchSize - Len(collector[c].claims))
  IN /\ At(c, "list")
     /\ Set(c, [collector[c] EXCEPT !.pc = "claim", !.page = p.versions,
                  !.checkpoint.epoch = IF p.done THEN <<>> ELSE p.epoch,
                  !.checkpoint.blob = IF p.done THEN 0 ELSE p.next])
     /\ UNCHANGED <<now, repository, store, worker, reader, late, answered, faults>>

Cutoff(c) == collector[c].at - GCGrace

\* Each object of the page that is old enough is claimed if nothing needs it.
ClaimSweep(c) ==
  LET v == Head(collector[c].page)
      k == store.history[v].key
      claim == [key |-> k, version |-> v, lease |-> collector[c].token,
                token |-> Unused({sweeps[n].token : n \in DOMAIN sweeps}
                                 \cup UNION {{collector[d].claims[n].token : n \in DOMAIN collector[d].claims} : d \in Collectors})]
      grant == /\ store.history[v].created <= Cutoff(c)
               /\ HoldsLease(c) /\ Sweepable(k, v, Cutoff(c))
  IN /\ At(c, "claim")
     /\ \/ /\ collector[c].page = <<>>
           /\ Set(c, [collector[c] EXCEPT !.pc = "head"]) /\ UNCHANGED sweeps
        \/ /\ collector[c].page # <<>> /\ grant
           /\ sweeps' = Append(sweeps, claim)
           /\ Set(c, [collector[c] EXCEPT !.page = Tail(@), !.claims = Append(@, claim)])
        \/ /\ collector[c].page # <<>> /\ ~grant
           /\ Set(c, [collector[c] EXCEPT !.page = Tail(@)]) /\ UNCHANGED sweeps
     /\ UNCHANGED <<now, invocations, artifacts, order, count, gc, store, worker, reader, late, answered, faults>>

Claim(c) == Head(collector[c].claims)
NextClaim(c) == Set(c, [collector[c] EXCEPT !.pc = "head", !.claims = Tail(@)])

\* What is at the key now decides: nothing, the claimed version or another.
HeadBlob(c) ==
  /\ At(c, "head")
  /\ IF collector[c].claims = <<>> THEN Set(c, [collector[c] EXCEPT !.pc = "release"])
     ELSE Set(c, [collector[c] EXCEPT !.pc =
            CASE store.objects[Claim(c).key] = 0 -> "finish"
              [] store.objects[Claim(c).key] = Claim(c).version -> "delete"
              [] OTHER -> "retire"])
  /\ UNCHANGED <<now, repository, store, worker, reader, late, answered, faults>>

\* The conditional delete is answered.
DeleteBlob(c) ==
  /\ At(c, "delete")
  /\ store' = DeleteIfVersion(Claim(c).key, Claim(c).version)
  /\ Set(c, [collector[c] EXCEPT !.pc =
       IF store.objects[Claim(c).key] \in {0, Claim(c).version} THEN "finish" ELSE "retire"])
  /\ UNCHANGED <<now, repository, worker, reader, late, answered, faults>>

DeleteOf(c) == [op |-> "delete", key |-> Claim(c).key, version |-> Claim(c).version, at |-> 0]

\* The delete fails or is not answered: the claim stays, and the delete may
\* still take effect.
DeleteUncertain(c) ==
  /\ At(c, "delete") /\ faults < MaxFaults
  /\ faults' = faults + 1 /\ late' = late \cup {DeleteOf(c)}
  /\ NextClaim(c)
  /\ UNCHANGED <<now, repository, store, worker, reader, answered>>

\* The object is gone: the claim ends and its artifacts are purged.
FinishSweep(c) ==
  LET k == Claim(c).key
  IN /\ At(c, "finish") /\ NextClaim(c)
     /\ \/ /\ ClaimIsCurrent(c, Claim(c))
           /\ sweeps' = WithoutClaim(Claim(c))
           /\ artifacts' = [i \in Invocations |->
                IF artifacts[i].state = "tombstoned" /\ KeyOf[artifacts[i].req] = k
                THEN [artifacts[i] EXCEPT !.state = "purged"] ELSE artifacts[i]]
           /\ count' = [count EXCEPT !.tombstone[k] = -1]
        \/ ~ClaimIsCurrent(c, Claim(c)) /\ UNCHANGED <<sweeps, artifacts, count>>
     /\ UNCHANGED <<now, invocations, order, gc, store, worker, reader, late, answered, faults>>

\* Another version is there: the claim ends, for it was on an older one.
RetireSweep(c) ==
  /\ At(c, "retire") /\ NextClaim(c)
  /\ sweeps' = IF ClaimIsCurrent(c, Claim(c)) THEN WithoutClaim(Claim(c)) ELSE sweeps
  /\ UNCHANGED <<now, invocations, artifacts, order, count, gc, store, worker, reader, late, answered, faults>>

ReleaseGC(c) ==
  /\ At(c, "release") /\ Set(c, Resting)
  /\ gc' = IF HoldsLease(c) THEN [held |-> FALSE, token |-> 0, expires |-> 0, checkpoint |-> collector[c].checkpoint] ELSE gc
  /\ UNCHANGED <<now, invocations, artifacts, order, count, sweeps, store, worker, reader, late, answered, faults>>

\* The collector's process ends; its lease stays until it expires.
CollectorDies(c) ==
  /\ ~At(c, "idle") /\ faults < MaxFaults
  /\ faults' = faults + 1 /\ Set(c, Resting)
  /\ late' = IF At(c, "delete") THEN late \cup {DeleteOf(c)} ELSE late
  /\ UNCHANGED <<now, repository, store, worker, reader, answered>>

---------------------------------------------------------------------------
\* A call that was given up takes effect at last, or never.
Land(op) ==
  /\ op \in late /\ late' = late \ {op}
  /\ \/ op.op = "put" /\ store' = PutIfAbsent(op.key, op.at)
     \/ op.op = "delete" /\ store' = DeleteIfVersion(op.key, op.version)
  /\ UNCHANGED <<now, repository, callers, faults>>

\* Where tickers are punctual, no lease runs out under a living collector.
LeaseIsKept ==
  Punctual => \A c \in Collectors : ~At(c, "idle") /\ HoldsLease(c) => gc.expires > now + 1

Tick ==
  /\ now < MaxTime /\ LeaseIsKept
  /\ now' = now + 1 /\ UNCHANGED <<repository, store, callers, late, faults>>

\* At the bound of the clock everything else gets older instead, down to an
\* age beyond every duration: only differences of times are ever compared
\* (bound: a pass lasts at most MaxTime).
Aged(t) == Max({t - 1, -2})

WorkerStep(w) ==
  \/ Resume(w) \/ GetBlob(w) \/ Begin(w) \/ BeforePut(w) \/ Put(w) \/ AfterPut(w) \/ CommitCreate(w)

CollectorStep(c) ==
  \/ TombstoneExpiredPage(c) \/ AbandonInflightPage(c) \/ PendingSweepsPage(c)
  \/ ListBlobs(c) \/ ClaimSweep(c) \/ HeadBlob(c) \/ DeleteBlob(c)
  \/ FinishSweep(c) \/ RetireSweep(c) \/ ReleaseGC(c)

Next ==
  \/ \E w \in Workers : \/ \E r \in Requests : StartCreate(w, r)
                        \/ WorkerStep(w) \/ TickerBeat(w) \/ PutUncertain(w) \/ WorkerStops(w)
  \/ \E i \in Invocations : Delete(i) \/ \E r \in Readers : Open(r, i)
  \/ \E r \in Readers : OpenGet(r)
  \/ \E c \in Collectors : \/ AcquireGC(c) \/ RenewGC(c) \/ RenewFails(c) \/ CollectorStep(c)
                           \/ DeleteUncertain(c) \/ CollectorDies(c)
  \/ \E op \in late : Land(op)
  \/ Tick

Spec == Init /\ [][Next]_vars

---------------------------------------------------------------------------
(* Properties *)

InState(S, s) == {i \in Invocations : S[i].state = s}

\* An active artifact's object is in the store: no sweep, no late delete and
\* no commit of an abandoned creation leaves a record without its bytes.
ActiveHasBytes ==
  \A i \in InState(artifacts, "active") : store.objects[KeyOf[artifacts[i].req]] # 0

\* The tenant's counters are exactly the bytes of the active artifacts and of
\* the creations in flight, and together stay within the quota, through every
\* commit, deletion, expiry and abandonment.
QuotaIsExact ==
  /\ count.used = Bytes(InState(artifacts, "active"))
  /\ count.reserved = Bytes(InState(invocations, "inflight"))
  /\ count.used + count.reserved <= Quota

\* A key with a claim on it has no creation in flight and no active artifact:
\* BeginCreate and ClaimSweepLeased exclude each other.
ClaimExcludesUse ==
  \A n \in DOMAIN sweeps : \A i \in Invocations :
    KeyOf[invocations[i].req] = sweeps[n].key
      => invocations[i].state # "inflight" /\ artifacts[i].state # "active"

\* A caller that was answered got the artifact of its own request, never one
\* made for another request under the same invocation.
AnswersOwnRequest ==
  \A r \in answered : artifacts[InvocationOf[r]].req = r

\* Open that read an active record finds the bytes if it reads them within the
\* grace period, whatever is deleted or collected meanwhile.
OpenWithinGrace ==
  \A r \in Readers : reader[r].pc = "get" /\ now - reader[r].at < GCGrace
    => store.objects[KeyOf[artifacts[reader[r].art].req]] # 0

\* Artifacts are purged only when the object they pointed to is gone: the
\* store has no object of that key, or one put there later.
PurgedObjectIsGone ==
  \A i \in Invocations : artifacts[i].state = "tombstoned" /\ artifacts'[i].state = "purged"
    => LET k == KeyOf[artifacts[i].req]
       IN \A n \in DOMAIN sweeps : sweeps[n].key = k => store.objects[k] # sweeps[n].version

=============================================================================
