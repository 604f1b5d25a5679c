----------------------------- MODULE Workspace -----------------------------
(***************************************************************************)
(* The Workspace durable object (workers/state-app/src/workspace/           *)
(* aggregate.ts): the revisions of one workspace, its single write lease,   *)
(* the FIFO queue of writers, the materialization tickets handed to         *)
(* sandboxes and the ledger of committed invocations.                       *)
(*                                                                          *)
(* Every command is one atomic action: applyWorkspaceCommand works on a     *)
(* clone and the host stores the result or nothing.  A refused command and  *)
(* an idempotent replay (2107-2430) change nothing and are not steps.       *)
(* expectedEventSequence (2432) makes a command act on the state its sender *)
(* read, and currentLeaseForFence (612) makes a fenced command name the     *)
(* current lease, so the fenced actions act on activeWriteLease.            *)
(*                                                                          *)
(* An authority snapshot keeps what the handlers compare: the dispatch      *)
(* attempt, one number for the turn-lease, placement and sandbox            *)
(* generations (always compared together), the authorization generation and *)
(* the expiry of the turn lease.  Identity, digests, permissions and root   *)
(* closures only decide whether a command is refused.                       *)
(***************************************************************************)
EXTENDS Integers, Sequences, FiniteSets

CONSTANTS
  Invocations,     \* invocations that want to write
  LeaseIds,        \* lease identifiers, each good for one admission
  TicketIds,       \* materialization ticket identifiers
  Attempts,        \* dispatch attempts
  Generations,     \* turn-lease/placement/sandbox generations
  Authorizations,  \* authorization generations
  Projections,     \* projection generations of a sandbox
  Ttls,            \* requested lease and ticket lifetimes
  Holds,           \* requested maximum holds
  Deadlines,       \* times until which a request may wait
  MaxTime,         \* last tick of the host clock
  MaxRenewals,     \* bound on the renewals of one lease
  None

ASSUME WorkspaceAssumption ==
  /\ MaxTime \in Nat /\ MaxRenewals \in Nat
  /\ Attempts \subseteq Nat \ {0}
  /\ Generations \subseteq Nat /\ Authorizations \subseteq Nat
  /\ Projections \subseteq Nat
  /\ Ttls \subseteq Nat \ {0} /\ Holds \subseteq Nat \ {0}
  /\ Deadlines \subseteq Nat
  /\ None \notin Invocations \cup LeaseIds \cup TicketIds

VARIABLES
  now,                  \* trusted host time (context.transactionTime)
  revisions,            \* the revisions after the genesis; revision = Len
  nextLeaseGeneration,
  nextEnqueueSequence,
  activeWriteLease,     \* the write lease, or None
  writeQueue,
  leaseHistory,         \* per invocation, the latest admission, or None
  leaseConflicts,       \* attempts refused by the "fail" wait policy
  tickets,              \* materialization tickets, None when absent
  knownLeaseIds,
  knownTicketIds,
  ledger                \* per invocation, its committed result, or None

vars == <<now, revisions, nextLeaseGeneration, nextEnqueueSequence,
          activeWriteLease, writeQueue, leaseHistory, leaseConflicts, tickets,
          knownLeaseIds, knownTicketIds, ledger>>

----------------------------------------------------------------------------
(* The shapes of the durable records. *)

\* A turn lease may expire one tick beyond the last tick of the clock
Time == 0..MaxTime
Moment == 1..MaxTime + 1

Authority ==
  [attempt : Attempts, generation : Generations,
   authorization : Authorizations, expires : Moment]

Entry ==
  [inv : Invocations, authority : Authority, leaseId : LeaseIds,
   projection : Projections, ttl : Ttls, hold : Holds, deadline : Deadlines,
   seq : Nat, canceled : BOOLEAN]

Lease ==
  [inv : Invocations, authority : Authority, leaseId : LeaseIds,
   projection : Projections, base : Nat, generation : Nat \ {0},
   issued : Time, expires : Nat, holdUntil : Nat, renewal : Nat, seq : Nat]

Statuses == {"queued", "active", "canceled", "timed_out", "admission_expired",
             "expired", "released", "committed"}

\* generation is latestLeaseGeneration, 0 for null
History ==
  [attempt : Attempts, projection : Projections, generation : Nat, seq : Nat,
   status : Statuses]

\* a read_only ticket has no lease: leaseId None, lease generation 0
Ticket ==
  [mode : {"read_only", "read_write"}, inv : Invocations,
   authority : Authority, leaseId : LeaseIds \cup {None}, leaseGeneration : Nat,
   projection : Projections, revision : Nat, issued : Time, expires : Nat,
   ttl : Ttls]

\* revision r is revisions[r]; from is the snapshot its sandbox was given
Revision == [inv : Invocations, from : Nat, generation : Nat, seq : Nat]

Record ==
  [revision : Nat, base : Nat, attempt : Attempts, generation : Nat,
   projection : Projections]

Conflict == [inv : Invocations, attempt : Attempts]

\* None is no record, so an absent lease, ticket or result is never taken for one
ASSUME NoneAssumption == None \notin Lease \cup History \cup Ticket \cup Record

TypeOK ==
  /\ now \in Time
  /\ revisions \in Seq(Revision)
  /\ nextLeaseGeneration \in Nat \ {0}
  /\ nextEnqueueSequence \in Nat
  /\ activeWriteLease \in Lease \cup {None}
  /\ writeQueue \in Seq(Entry)
  /\ leaseHistory \in [Invocations -> History \cup {None}]
  /\ leaseConflicts \in SUBSET Conflict
  /\ tickets \in [TicketIds -> Ticket \cup {None}]
  /\ knownLeaseIds \in SUBSET LeaseIds
  /\ knownTicketIds \in SUBSET TicketIds
  /\ ledger \in [Invocations -> Record \cup {None}]

Init ==
  /\ now = 0
  /\ revisions = <<>>
  /\ nextLeaseGeneration = 1 /\ nextEnqueueSequence = 0
  /\ activeWriteLease = None
  /\ writeQueue = <<>>
  /\ leaseHistory = [i \in Invocations |-> None]
  /\ leaseConflicts = {}
  /\ tickets = [t \in TicketIds |-> None]
  /\ knownLeaseIds = {} /\ knownTicketIds = {}
  /\ ledger = [i \in Invocations |-> None]

----------------------------------------------------------------------------
(* Authority and the parts of the handlers. *)

Least(a, b) == IF a <= b THEN a ELSE b

Most(a, b) == IF a <= b THEN b ELSE a

\* validatedAuthority with a clock: the turn lease behind the snapshot is live
Live(a) == now < a.expires

\* The same snapshot but for the expiry of the turn lease
SameAuthority(a, b) ==
  /\ a.attempt = b.attempt /\ a.generation = b.generation
  /\ a.authorization = b.authorization

\* A later snapshot of the same dispatch; its authorization may only have advanced
Rotated(a, b) ==
  /\ a.attempt = b.attempt /\ a.generation = b.generation
  /\ a.authorization >= b.authorization

LeaseLive == activeWriteLease # None /\ now < activeWriteLease.expires

LeaseLapsed == activeWriteLease # None /\ now >= activeWriteLease.expires

Granted(e, at) ==
  [inv |-> e.inv, authority |-> e.authority, leaseId |-> e.leaseId,
   projection |-> e.projection, base |-> Len(revisions),
   generation |-> nextLeaseGeneration, issued |-> at,
   expires |-> Least(Least(at + e.ttl, at + e.hold), e.authority.expires),
   holdUntil |-> at + e.hold, renewal |-> 0, seq |-> e.seq]

\* The history record of a lease, and of a queue entry with the lease generation g
LeaseRecord(l, status) ==
  [attempt |-> l.authority.attempt, projection |-> l.projection,
   generation |-> l.generation, seq |-> l.seq, status |-> status]

EntryRecord(e, g, status) ==
  [attempt |-> e.authority.attempt, projection |-> e.projection,
   generation |-> g, seq |-> e.seq, status |-> status]

LatestGeneration(h) == IF h = None THEN 0 ELSE h.generation

DropsNothing(ts, id) == ts

\* dropWriteTicketsForLease
DropWriteTickets(ts, id) ==
  [t \in DOMAIN ts |->
     IF ts[t] # None /\ ts[t].mode = "read_write" /\ ts[t].leaseId = id
       THEN None ELSE ts[t]]

\* A head of the queue that advanceLeaseQueue drops; contender is None when no
\* acquiring invocation is blocked by it
Reapable(e, contender) ==
  \/ e.canceled
  \/ now >= e.deadline
  \/ contender # None /\ e.inv # contender /\ now >= e.authority.expires

ReapStatus(e) ==
  IF e.canceled THEN "canceled"
  ELSE IF now >= e.deadline THEN "timed_out" ELSE "admission_expired"

\* advanceLeaseQueue drops exactly the first n entries of q
Reaps(q, contender, n) ==
  /\ \A k \in 1..n : Reapable(q[k], contender)
  /\ n < Len(q) => ~Reapable(q[n + 1], contender)

ReapCounts(q, contender) == {n \in 0..Len(q) : Reaps(q, contender, n)}

Rest(q, n) == SubSeq(q, n + 1, Len(q))

ReapedHistory(h, q, n) ==
  [i \in DOMAIN h |->
     IF \E k \in 1..n : q[k].inv = i
       THEN LET e == q[CHOOSE k \in 1..n : q[k].inv = i]
            IN EntryRecord(e, LatestGeneration(h[i]), ReapStatus(e))
       ELSE h[i]]

\* The first half of advanceLeaseQueue: a lapsed lease is expired with its tickets
ExpiredHistory ==
  IF LeaseLapsed
    THEN [leaseHistory EXCEPT ![activeWriteLease.inv] =
            LeaseRecord(activeWriteLease, "expired")]
    ELSE leaseHistory

ExpiredTickets ==
  IF LeaseLapsed THEN DropWriteTickets(tickets, activeWriteLease.leaseId) ELSE tickets

ExpiredLease == IF LeaseLapsed THEN None ELSE activeWriteLease

Queued(q, i) == \E k \in 1..Len(q) : q[k].inv = i

----------------------------------------------------------------------------
(* acquire_write_lease *)

KnownAttempts(h, i) ==
  {c.attempt : c \in {d \in leaseConflicts : d.inv = i}}
    \cup (IF h[i] = None THEN {} ELSE {h[i].attempt})

\* latestDispatchAttemptForInvocation: a new admission is exactly the next attempt
NextAttempt(h, i, attempt) ==
  \/ KnownAttempts(h, i) = {}
  \/ attempt - 1 \in KnownAttempts(h, i) /\ \A a \in KnownAttempts(h, i) : a < attempt

AdmissibleAfterCommit(e, h) ==
  NextAttempt(h, e.inv, e.authority.attempt)

\* What the history h left by the advance asks of a new admission
Admissible(e, h) ==
  /\ h[e.inv] # None => h[e.inv].status # "committed"
  /\ NextAttempt(h, e.inv, e.authority.attempt)
  /\ (h[e.inv] # None /\ h[e.inv].generation # 0
        /\ h[e.inv].status \in {"expired", "released"})
       => e.projection > h[e.inv].projection

\* An acquire that is no retry of a live admission, after n heads were dropped
NewAdmission(e, n) ==
  /\ Live(e.authority)
  /\ e.ttl <= e.hold
  /\ e.seq = nextEnqueueSequence /\ ~e.canceled
  /\ e.leaseId \notin knownLeaseIds
  /\ now < e.deadline
  /\ [inv |-> e.inv, attempt |-> e.authority.attempt] \notin leaseConflicts
  /\ ~(LeaseLive /\ activeWriteLease.inv = e.inv)
  /\ Reaps(writeQueue, e.inv, n)
  /\ ~Queued(Rest(writeQueue, n), e.inv)
  /\ Admissible(e, ReapedHistory(ExpiredHistory, writeQueue, n))

\* The state after n heads were dropped; the history is the caller's
AdvanceTo(n) ==
  /\ writeQueue' = Rest(writeQueue, n)
  /\ activeWriteLease' = ExpiredLease
  /\ tickets' = ExpiredTickets

\* Nothing holds the lease or waits for it: the request is granted at once
AcquireGranted(e, n) ==
  /\ ExpiredLease = None /\ Rest(writeQueue, n) = <<>>
  /\ NewAdmission(e, n)
  /\ activeWriteLease' = Granted(e, now)
  /\ writeQueue' = <<>>
  /\ tickets' = ExpiredTickets
  /\ nextLeaseGeneration' = nextLeaseGeneration + 1
  /\ nextEnqueueSequence' = nextEnqueueSequence + 1
  /\ knownLeaseIds' = knownLeaseIds \cup {e.leaseId}
  /\ leaseHistory' = [ReapedHistory(ExpiredHistory, writeQueue, n) EXCEPT
                        ![e.inv] = LeaseRecord(Granted(e, now), "active")]
  /\ UNCHANGED <<now, revisions, leaseConflicts, knownTicketIds, ledger>>

EnqueuedHistory(e, h) ==
  [h EXCEPT ![e.inv] = EntryRecord(e, LatestGeneration(h[e.inv]), "queued")]

\* waitPolicy "queue": the request joins the tail
AcquireEnqueued(e, n) ==
  /\ ExpiredLease # None \/ Rest(writeQueue, n) # <<>>
  /\ NewAdmission(e, n)
  /\ writeQueue' = Append(Rest(writeQueue, n), e)
  /\ activeWriteLease' = ExpiredLease
  /\ tickets' = ExpiredTickets
  /\ nextEnqueueSequence' = nextEnqueueSequence + 1
  /\ knownLeaseIds' = knownLeaseIds \cup {e.leaseId}
  /\ leaseHistory' = EnqueuedHistory(e, ReapedHistory(ExpiredHistory, writeQueue, n))
  /\ UNCHANGED <<now, revisions, nextLeaseGeneration, leaseConflicts,
                 knownTicketIds, ledger>>

\* waitPolicy "fail": the attempt leaves a durable negative receipt
AcquireConflict(e, n) ==
  /\ ExpiredLease # None \/ Rest(writeQueue, n) # <<>>
  /\ NewAdmission(e, n)
  /\ leaseConflicts' = leaseConflicts
       \cup {[inv |-> e.inv, attempt |-> e.authority.attempt]}
  /\ AdvanceTo(n)
  /\ leaseHistory' = ReapedHistory(ExpiredHistory, writeQueue, n)
  /\ UNCHANGED <<now, revisions, nextLeaseGeneration, nextEnqueueSequence,
                 knownLeaseIds, knownTicketIds, ledger>>

\* A retry of queued invocation i with snapshot a, after n heads were dropped, that
\* finds its entry at position k.  Under a live lease a retry is only answered.
Retry(i, a, n, k) ==
  /\ Live(a)
  /\ [inv |-> i, attempt |-> a.attempt] \notin leaseConflicts
  /\ ~LeaseLive
  /\ Reaps(writeQueue, i, n)
  /\ k > n
  /\ writeQueue[k].inv = i
  /\ ~writeQueue[k].canceled /\ now < writeQueue[k].deadline
  /\ Rotated(a, writeQueue[k].authority)

RetryGrantedAnywhere(i, a, n, k) ==
  LET e == [writeQueue[k] EXCEPT !.authority = a]
  IN /\ Retry(i, a, n, k)
     /\ activeWriteLease' = Granted(e, now)
     /\ writeQueue' = SelectSeq(Rest(writeQueue, n), LAMBDA x : x.inv # i)
     /\ tickets' = ExpiredTickets
     /\ nextLeaseGeneration' = nextLeaseGeneration + 1
     /\ leaseHistory' = [ReapedHistory(ExpiredHistory, writeQueue, n) EXCEPT
                           ![i] = LeaseRecord(Granted(e, now), "active")]
     /\ UNCHANGED <<now, revisions, nextEnqueueSequence, leaseConflicts,
                    knownLeaseIds, knownTicketIds, ledger>>

\* The retrying invocation heads the queue: it is granted under its new snapshot
RetryGranted(i, a, n, k) ==
  LET e == [writeQueue[k] EXCEPT !.authority = a]
  IN /\ Retry(i, a, n, k)
     /\ k = n + 1
     /\ activeWriteLease' = Granted(e, now)
     /\ writeQueue' = Rest(writeQueue, k)
     /\ tickets' = ExpiredTickets
     /\ nextLeaseGeneration' = nextLeaseGeneration + 1
     /\ leaseHistory' = [ReapedHistory(ExpiredHistory, writeQueue, n) EXCEPT
                           ![i] = LeaseRecord(Granted(e, now), "active")]
     /\ UNCHANGED <<now, revisions, nextEnqueueSequence, leaseConflicts,
                    knownLeaseIds, knownTicketIds, ledger>>

\* The retrying invocation is not first: only what the advance dropped is stored
RetryWaits(i, a, n, k) ==
  /\ Retry(i, a, n, k)
  /\ k > n + 1
  /\ n > 0 \/ LeaseLapsed
  /\ AdvanceTo(n)
  /\ leaseHistory' = ReapedHistory(ExpiredHistory, writeQueue, n)
  /\ UNCHANGED <<now, revisions, nextLeaseGeneration, nextEnqueueSequence,
                 leaseConflicts, knownLeaseIds, knownTicketIds, ledger>>

----------------------------------------------------------------------------
(* The holder of the lease, and the queue's other commands.  expires is the  *)
(* turn-lease expiry of the snapshot presented, which must otherwise equal    *)
(* the one the lease was granted or last renewed under.                      *)

RenewedUntil(expires, ttl) ==
  Least(expires, Most(activeWriteLease.expires,
                      Least(now + ttl, activeWriteLease.holdUntil)))

\* A renewal moves the expiry of the lease's write tickets with it
RenewedTickets(ts, lease) ==
  [t \in DOMAIN ts |->
     IF ts[t] # None /\ ts[t].mode = "read_write" /\ ts[t].leaseId = lease.leaseId
       THEN [ts[t] EXCEPT !.expires = Least(ts[t].issued + ts[t].ttl, lease.expires),
                          !.authority = lease.authority]
       ELSE ts[t]]

RenewLapsed(expires, ttl) ==
  LET lease == [activeWriteLease EXCEPT
                  !.authority.expires = expires,
                  !.expires = RenewedUntil(expires, ttl),
                  !.renewal = @ + 1]
  IN /\ activeWriteLease # None
     /\ now < expires
     /\ activeWriteLease.renewal < MaxRenewals
     /\ activeWriteLease' = lease
     /\ tickets' = RenewedTickets(tickets, lease)
     /\ UNCHANGED <<now, revisions, nextLeaseGeneration, nextEnqueueSequence,
                    writeQueue, leaseHistory, leaseConflicts, knownLeaseIds,
                    knownTicketIds, ledger>>

Renew(expires, ttl) ==
  LET lease == [activeWriteLease EXCEPT
                  !.authority.expires = expires,
                  !.expires = RenewedUntil(expires, ttl),
                  !.renewal = @ + 1]
  IN /\ LeaseLive
     /\ now < expires
     /\ activeWriteLease.renewal < MaxRenewals
     /\ activeWriteLease' = lease
     /\ tickets' = RenewedTickets(tickets, lease)
     /\ UNCHANGED <<now, revisions, nextLeaseGeneration, nextEnqueueSequence,
                    writeQueue, leaseHistory, leaseConflicts, knownLeaseIds,
                    knownTicketIds, ledger>>

\* The lease ends with this status and the queue advances by n, without a contender
EndLease(status, n) ==
  /\ Reaps(writeQueue, None, n)
  /\ leaseHistory' = ReapedHistory(
       [leaseHistory EXCEPT ![activeWriteLease.inv] =
          LeaseRecord(activeWriteLease, status)], writeQueue, n)
  /\ tickets' = DropWriteTickets(tickets, activeWriteLease.leaseId)
  /\ writeQueue' = Rest(writeQueue, n)
  /\ activeWriteLease' = None

\* Release is not refused after expiry: the lease only ends
Release(expires, n) ==
  /\ activeWriteLease # None
  /\ now < expires
  /\ EndLease("released", n)
  /\ UNCHANGED <<now, revisions, nextLeaseGeneration, nextEnqueueSequence,
                 leaseConflicts, knownLeaseIds, knownTicketIds, ledger>>

\* The k-th request is canceled where it stands; the queue advances only if nobody
\* holds the lease
Cancel(k, a, n) ==
  LET canceled == [writeQueue EXCEPT ![k].canceled = TRUE]
      i == writeQueue[k].inv
      h == [leaseHistory EXCEPT ![i] =
              EntryRecord(writeQueue[k], LatestGeneration(leaseHistory[i]), "canceled")]
  IN /\ Live(a) /\ Rotated(a, writeQueue[k].authority)
     /\ IF activeWriteLease = None THEN Reaps(canceled, None, n) ELSE n = 0
     /\ writeQueue' = Rest(canceled, n)
     /\ leaseHistory' = ReapedHistory(h, canceled, n)
     /\ UNCHANGED <<now, revisions, nextLeaseGeneration, nextEnqueueSequence,
                    activeWriteLease, leaseConflicts, tickets, knownLeaseIds,
                    knownTicketIds, ledger>>

Reconcile(n) ==
  /\ Reaps(writeQueue, None, n)
  /\ n > 0 \/ LeaseLapsed
  /\ AdvanceTo(n)
  /\ leaseHistory' = ReapedHistory(ExpiredHistory, writeQueue, n)
  /\ UNCHANGED <<now, revisions, nextLeaseGeneration, nextEnqueueSequence,
                 leaseConflicts, knownLeaseIds, knownTicketIds, ledger>>

----------------------------------------------------------------------------
(* Materialization tickets and the commit *)

NewTicket(t, ticket) ==
  /\ t \notin knownTicketIds
  /\ knownTicketIds' = knownTicketIds \cup {t}
  /\ tickets' = [tickets EXCEPT ![t] = ticket]
  /\ UNCHANGED <<now, revisions, nextLeaseGeneration, nextEnqueueSequence,
                 activeWriteLease, writeQueue, leaseHistory, leaseConflicts,
                 knownLeaseIds, ledger>>

\* A reader may be given any revision and joins no queue
PrepareRead(t, i, a, projection, revision, ttl) ==
  /\ Live(a)
  /\ NewTicket(t, [mode |-> "read_only", inv |-> i, authority |-> a,
                   leaseId |-> None, leaseGeneration |-> 0,
                   projection |-> projection, revision |-> revision,
                   issued |-> now, expires |-> Least(now + ttl, a.expires),
                   ttl |-> ttl])

TicketUntil(expires, ttl) == Least(Least(now + ttl, expires), activeWriteLease.expires)

PrepareWrite(t, expires, ttl) ==
  /\ LeaseLive
  /\ now < expires
  /\ NewTicket(t, [mode |-> "read_write", inv |-> activeWriteLease.inv,
                   authority |-> [activeWriteLease.authority EXCEPT !.expires = expires],
                   leaseId |-> activeWriteLease.leaseId,
                   leaseGeneration |-> activeWriteLease.generation,
                   projection |-> activeWriteLease.projection,
                   revision |-> activeWriteLease.base,
                   issued |-> now, expires |-> TicketUntil(expires, ttl),
                   ttl |-> ttl])

\* The ticket the commit names was handed out under the current lease
TicketOfLease(ticket) ==
  /\ ticket # None /\ ticket.mode = "read_write"
  /\ ticket.leaseId = activeWriteLease.leaseId
  /\ ticket.leaseGeneration = activeWriteLease.generation
  /\ ticket.inv = activeWriteLease.inv
  /\ SameAuthority(ticket.authority, activeWriteLease.authority)
  /\ ticket.projection = activeWriteLease.projection

\* The revision, the ledger result and the end of the lease are one transaction; the
\* ticket's own expiry is not looked at
Commit(t, a, n) ==
  LET lease == activeWriteLease
      ticket == tickets[t]
  IN /\ LeaseLive
     /\ Live(a) /\ Rotated(a, lease.authority)
     /\ TicketOfLease(ticket)
     /\ lease.base = Len(revisions) /\ ticket.revision = Len(revisions)
     /\ revisions' = Append(revisions,
          [inv |-> lease.inv, from |-> ticket.revision,
           generation |-> lease.generation, seq |-> lease.seq])
     /\ ledger' = [ledger EXCEPT ![lease.inv] =
          [revision |-> Len(revisions) + 1, base |-> lease.base,
           attempt |-> lease.authority.attempt, generation |-> lease.generation,
           projection |-> lease.projection]]
     /\ EndLease("committed", n)
     /\ UNCHANGED <<now, nextLeaseGeneration, nextEnqueueSequence, leaseConflicts,
                    knownLeaseIds, knownTicketIds>>

Tick ==
  /\ now < MaxTime
  /\ now' = now + 1
  /\ UNCHANGED <<revisions, nextLeaseGeneration, nextEnqueueSequence,
                 activeWriteLease, writeQueue, leaseHistory, leaseConflicts,
                 tickets, knownLeaseIds, knownTicketIds, ledger>>

\* The requests invocation i may make
Requests(i) ==
  {[inv |-> i, authority |-> a, leaseId |-> id, projection |-> p, ttl |-> ttl,
    hold |-> hold, deadline |-> d, seq |-> nextEnqueueSequence, canceled |-> FALSE] :
     a \in Authority, id \in LeaseIds, p \in Projections, ttl \in Ttls,
     hold \in Holds, d \in Deadlines}

\* acquire_write_lease by invocation i, whose advance drops n heads
Acquire(i, n) ==
  \/ \E e \in Requests(i) :
       \/ AcquireGranted(e, n)
       \/ AcquireEnqueued(e, n)
       \/ AcquireConflict(e, n)
  \/ \E a \in Authority, k \in 1..Len(writeQueue) :
       \/ RetryGranted(i, a, n, k)
       \/ RetryWaits(i, a, n, k)

Next ==
  \/ \E i \in Invocations : \E n \in ReapCounts(writeQueue, i) : Acquire(i, n)
  \/ \E expires \in Moment, ttl \in Ttls : Renew(expires, ttl)
  \/ \E n \in ReapCounts(writeQueue, None) :
       \/ \E expires \in Moment : Release(expires, n)
       \/ Reconcile(n)
       \/ \E t \in TicketIds, a \in Authority : Commit(t, a, n)
  \/ \E k \in 1..Len(writeQueue), a \in Authority, n \in 0..Len(writeQueue) :
       Cancel(k, a, n)
  \/ \E t \in TicketIds, i \in Invocations, a \in Authority, p \in Projections,
        r \in 0..Len(revisions), ttl \in Ttls : PrepareRead(t, i, a, p, r, ttl)
  \/ \E t \in TicketIds, expires \in Moment, ttl \in Ttls :
       PrepareWrite(t, expires, ttl)
  \/ Tick

Spec == Init /\ [][Next]_vars

----------------------------------------------------------------------------
(* What the handlers promise together. *)

\* An invocation has one place: it holds the lease, or waits once, or neither, and
\* its history record says which, for the same attempt, projection and sequence.
\* assertWorkspaceInvariants refuses to load any other state (1416, 1495-1530).
OnePlace ==
  /\ activeWriteLease # None =>
       /\ leaseHistory[activeWriteLease.inv] = LeaseRecord(activeWriteLease, "active")
       /\ ~Queued(writeQueue, activeWriteLease.inv)
  /\ \A k, m \in 1..Len(writeQueue) : writeQueue[k].inv = writeQueue[m].inv => k = m
  /\ \A k \in 1..Len(writeQueue) :
       LET e == writeQueue[k]
           h == leaseHistory[e.inv]
       IN h # None /\ h = EntryRecord(e, h.generation,
                                      IF e.canceled THEN "canceled" ELSE "queued")
  /\ \A i \in DOMAIN leaseHistory : leaseHistory[i] # None =>
       /\ leaseHistory[i].status = "active" =>
            activeWriteLease # None /\ activeWriteLease.inv = i
       /\ leaseHistory[i].status = "queued" => Queued(writeQueue, i)

\* A writable snapshot lives only under the lease it was handed out for: same
\* lease, generation, projection and base revision, and it expires no later
\* (1773-1789).  Expiry, release and commit withdraw every one of them.
TicketsFenced ==
  \A t \in DOMAIN tickets : tickets[t] # None /\ tickets[t].mode = "read_write" =>
    /\ activeWriteLease # None
    /\ TicketOfLease(tickets[t])
    /\ tickets[t].revision = activeWriteLease.base
    /\ tickets[t].expires <= activeWriteLease.expires
    /\ tickets[t].issued < tickets[t].expires

\* No update is lost: every revision was produced from a snapshot of the revision
\* just before it, under a newer lease than the revision before it (2994-3130).
NoLostUpdate ==
  /\ \A r \in 1..Len(revisions) : revisions[r].from = r - 1
  /\ \A r \in 2..Len(revisions) : revisions[r - 1].generation < revisions[r].generation
  /\ activeWriteLease # None => activeWriteLease.base = Len(revisions)

\* Writers are served in the order of their enqueue sequence: revisions, then the
\* lease, then the queue, in one strictly increasing order (ADR-009).
FifoGrants ==
  LET served == [r \in 1..Len(revisions) |-> revisions[r].seq]
      holder == IF activeWriteLease = None THEN <<>> ELSE <<activeWriteLease.seq>>
      waiting == [k \in 1..Len(writeQueue) |-> writeQueue[k].seq]
      line == served \o holder \o waiting
  IN \A j, k \in 1..Len(line) : j < k => line[j] < line[k]

\* An invocation commits once, its ledger result is the revision it made, and
\* afterwards it neither waits nor writes again (1818-1949).
CommitsOnce ==
  /\ \A i \in DOMAIN ledger : ledger[i] # None =>
       /\ ledger[i].revision \in 1..Len(revisions)
       /\ revisions[ledger[i].revision].inv = i
       /\ ledger[i].base = ledger[i].revision - 1
       /\ leaseHistory[i] # None /\ leaseHistory[i].status = "committed"
       /\ leaseHistory[i].attempt = ledger[i].attempt
       /\ leaseHistory[i].generation = ledger[i].generation
  /\ \A r \in 1..Len(revisions) :
       ledger[revisions[r].inv] # None /\ ledger[revisions[r].inv].revision = r
  /\ \A i \in DOMAIN ledger : leaseHistory[i] # None /\ leaseHistory[i].status = "committed"
       => ledger[i] # None

\* Updates are neither lost nor repeated.
CommitsSound == NoLostUpdate /\ CommitsOnce

\* However often it is renewed and under whichever snapshots, a lease stays within
\* its maximum hold and the turn lease behind it, and the time it was issued is
\* before its expiry (1322-1333).
LeaseWithinBounds ==
  activeWriteLease # None =>
    /\ activeWriteLease.issued < activeWriteLease.expires
    /\ activeWriteLease.expires <= activeWriteLease.holdUntil
    /\ activeWriteLease.expires <= activeWriteLease.authority.expires

\* An invocation has one place, in the queue or at the lease, as its history says; writers
\* are served in the order in which they asked, and a lease stays within its maximum hold
\* and the turn lease behind it however often it is renewed (ADR-009).
LeasesInOrder == OnePlace /\ FifoGrants /\ LeaseWithinBounds

\* After its expiry a lease is never renewed and nothing is committed under it, even
\* while nobody replaced it (ADR-005): it stays as it is until it is taken away.
ExpiredStays ==
  LeaseLapsed =>
    /\ activeWriteLease' \in {activeWriteLease, None}
       \/ activeWriteLease'.generation > activeWriteLease.generation
    /\ revisions' = revisions

\* Attempts are answered in order, whichever way each is answered: an attempt delayed
\* on its way is neither admitted nor refused after a later one of its invocation was
\* admitted or refused, and none is answered twice (2543-2555).
AttemptsAdvance ==
  \A i \in DOMAIN leaseHistory :
    /\ \A x \in KnownAttempts(leaseHistory, i)' \ KnownAttempts(leaseHistory, i),
          y \in KnownAttempts(leaseHistory, i) : y < x
    /\ (leaseHistory'[i] # None /\ leaseHistory'[i].status \in {"queued", "active"}
         /\ (leaseHistory[i] = None \/ leaseHistory'[i].seq # leaseHistory[i].seq))
         => leaseHistory'[i].attempt \notin KnownAttempts(leaseHistory, i)

\* Once nobody holds a live lease and every request ahead is canceled, past its deadline
\* or without a live turn lease, an acquire by a waiting invocation is granted: dead
\* heads do not strand a live waiter (comment at 778-794).
WaiterIsServed ==
  \A k \in 1..Len(writeQueue) :
    LET i == writeQueue[k].inv
    IN /\ \A m \in 1..k - 1 :
            Reapable(writeQueue[m], None) \/ ~Live(writeQueue[m].authority)
       /\ \E a \in Authority, n \in ReapCounts(writeQueue, i) :
            RetryGranted(i, a, n, k) \/ RetryWaits(i, a, n, k)
       => activeWriteLease' # None /\ activeWriteLease'.inv = i

\* A negative receipt is only left while someone is really in the way: a holder whose
\* lease is live or a queue head still allowed to wait (1655-1661).
ConflictHasBlocker ==
  leaseConflicts' # leaseConflicts =>
    \/ activeWriteLease' # None /\ now < activeWriteLease'.expires
    \/ writeQueue' # <<>> /\ ~Reapable(Head(writeQueue'), None)

\* What no step does: renew a lease or commit under it after its expiry (ADR-005), answer
\* an attempt after a later one or twice, pass over a waiter whom only dead requests
\* precede, or leave a negative receipt while nobody is in the way.
LeaseRules ==
  [][ExpiredStays /\ AttemptsAdvance /\ WaiterIsServed /\ ConflictHasBlocker]_vars
=============================================================================
