-------------------------- MODULE WorkspaceProofs --------------------------
(***************************************************************************)
(* Every command keeps the invariant of module WorkspaceStages, so every   *)
(* stored state of a workspace has it; the properties of its tickets and   *)
(* of its revisions follow.                                                *)
(***************************************************************************)
EXTENDS WorkspaceStages

\* acquire_write_lease, the retry of the head of the queue
LEMMA RetryGrantedKept ==
  ASSUME WorkspaceInv, NEW i \in Invocations, NEW a \in Authority,
         NEW n \in 0..Len(writeQueue), NEW k \in 1..Len(writeQueue), RetryGranted(i, a, n, k)
  PROVE  WorkspaceInv'
<1> DEFINE h == ReapedHistory(ExpiredHistory, writeQueue, n)
           q == Rest(writeQueue, n)
           p == Rest(writeQueue, k)
           e == [writeQueue[k] EXCEPT !.authority = a]
           l == Granted(e, now)
           g == [h EXCEPT ![i] = LeaseRecord(l, "active")]
<1>1. /\ leaseHistory' = g /\ writeQueue' = p /\ activeWriteLease' = l
      /\ tickets' = ExpiredTickets /\ nextLeaseGeneration' = nextLeaseGeneration + 1
      /\ UNCHANGED <<now, revisions, nextEnqueueSequence, leaseConflicts, knownLeaseIds,
                     knownTicketIds, ledger>>
      /\ k = n + 1
  BY DEF RetryGranted
<1>2. Live(a) /\ ~LeaseLive /\ writeQueue[k].inv = i
  BY DEF RetryGranted, Retry
<1>3. ExpiredLease = None
  BY <1>2, ExpiredLeaseIs
<1>4. Stage(h, q, None, ExpiredTickets, revisions, ledger)  BY <1>3, Advanced
<1>5. writeQueue \in Seq(Entry) /\ Len(writeQueue) \in Nat /\ writeQueue[k] \in Entry
  BY LenProperties, EntryTyped DEF WorkspaceInv, TypeOK
<1>6. e \in Entry /\ e.inv = i /\ e.authority = a /\ e.seq = writeQueue[k].seq
  BY <1>2, <1>5 DEF Entry
<1>7. /\ q \in Seq(Entry) /\ Len(q) = Len(writeQueue) - n
      /\ \A j \in 1..Len(writeQueue) - n : q[j] = writeQueue[n + j]
  BY <1>5, RestProperties
<1>8. /\ p \in Seq(Entry) /\ Len(p) = Len(writeQueue) - k
      /\ \A j \in 1..Len(writeQueue) - k : p[j] = writeQueue[k + j]
  <2>1. k \in 0..Len(writeQueue)  BY <1>5
  <2> QED  BY <1>5, <2>1, RestProperties
<1> HIDE DEF h, q, p, e, g, l
<1>9. 1 \in 1..Len(q) /\ q[1].inv = i /\ q[1].seq = e.seq
  <2>1. 1 \in 1..Len(writeQueue) - n  BY <1>1, <1>5
  <2> QED  BY <1>1, <1>2, <1>6, <1>7, <2>1
<1>10. ASSUME NEW j \in 1..Len(p)
       PROVE  j + 1 \in 1..Len(q) /\ p[j] = q[j + 1]
  <2>1. j \in 1..Len(writeQueue) - k /\ j + 1 \in 1..Len(writeQueue) - n /\ k + j = n + (j + 1)
    BY <1>1, <1>5, <1>8
  <2> QED  BY ZenonT(30), <1>7, <1>8, <2>1
<1>11. \A j \in 1..Len(q) : j = 1 \/ (j - 1 \in 1..Len(p) /\ p[j - 1] = q[j])
  <2> SUFFICES ASSUME NEW j \in 1..Len(q), j # 1 PROVE j - 1 \in 1..Len(p) /\ p[j - 1] = q[j]
    OBVIOUS
  <2>1. j - 1 \in 1..Len(p) /\ (j - 1) + 1 = j  BY <1>1, <1>5, <1>7, <1>8
  <2> QED  BY <1>10, <2>1
<1>12. \A j, m \in 1..Len(q) : q[j].inv = q[m].inv => j = m  BY Zenon, <1>4 DEF Stage, QueueOK
<1>13. \A j \in 1..Len(p) : p[j].inv \in Invocations \ {i}
  <2> SUFFICES ASSUME NEW j \in 1..Len(p) PROVE p[j].inv \in Invocations \ {i}  OBVIOUS
  <2>1. p[j].inv \in Invocations  BY <1>8, EntryTyped
  <2>2. j + 1 # 1 /\ j + 1 \in 1..Len(q) /\ p[j] = q[j + 1]  BY <1>10
  <2> QED  BY <1>9, <1>12, <2>1, <2>2
<1>14. h[i] # None /\ h[i].status \in {"canceled", "queued"}
  <2> DEFINE st == IF q[1].canceled THEN "canceled" ELSE "queued"
  <2>1. h[i] # None /\ h[i] = EntryRecord(q[1], h[i].generation, st)
    BY Zenon, <1>4, <1>9 DEF Stage, QueueOK
  <2>2. st \in {"canceled", "queued"}  OBVIOUS
  <2> HIDE DEF st
  <2> QED  BY <2>1, <2>2 DEF EntryRecord
<1>15. /\ Typed(g, p, l, ExpiredTickets) /\ HolderOK(g, p, l)
       /\ LeaseOK(l, revisions, nextLeaseGeneration + 1, now)
       /\ TicketsOK(ExpiredTickets, l, now) /\ LedgerOK(ledger, g, revisions)
  <2>1. ~Queued(p, e.inv)  BY <1>6, <1>13 DEF Queued
  <2>2. g = [h EXCEPT ![e.inv] = LeaseRecord(l, "active")] /\ l = Granted(e, now)
    BY Zenon, <1>6 DEF g, l
  <2>3. Live(e.authority) /\ (h[e.inv] # None => h[e.inv].status # "committed")
    BY <1>2, <1>6, <1>14
  <2> QED  BY Zenon, <1>4, <1>6, <1>8, <2>1, <2>2, <2>3, GrantStage
<1>16. l \in Lease /\ l # None /\ l.seq = e.seq
  BY <1>2, <1>6, GrantedLease DEF l
<1>17. LeaseRecord(l, "active").status = "active" /\ h \in [Invocations -> History \cup {None}]
  BY Zenon, <1>4, <1>16, LeaseRecordTyped DEF Statuses, Stage, Typed
<1>18. \A j \in Invocations : g[j] = IF j = i THEN LeaseRecord(l, "active") ELSE h[j]
  BY <1>17 DEF g
<1>19. QueueOK(g, p)
  <2>1. \A j, m \in 1..Len(p) : p[j].inv = p[m].inv => j = m
    <3> SUFFICES ASSUME NEW j \in 1..Len(p), NEW m \in 1..Len(p), p[j].inv = p[m].inv PROVE j = m
      OBVIOUS
    <3>1. j + 1 = m + 1  BY ZenonT(30), <1>10, <1>12
    <3> QED  BY <3>1
  <2>2. ASSUME NEW j \in 1..Len(p)
        PROVE  /\ g[p[j].inv] # None
               /\ g[p[j].inv] = EntryRecord(p[j], g[p[j].inv].generation,
                                            IF p[j].canceled THEN "canceled" ELSE "queued")
    <3> DEFINE y == q[j + 1]
    <3>1. p[j] = y /\ j + 1 \in 1..Len(q) /\ g[y.inv] = h[y.inv]  BY <1>10, <1>13, <1>18
    <3>2. /\ h[y.inv] # None
          /\ h[y.inv] = EntryRecord(y, h[y.inv].generation,
                                    IF y.canceled THEN "canceled" ELSE "queued")
      BY Zenon, <1>4, <3>1 DEF Stage, QueueOK
    <3> HIDE DEF y
    <3> QED  BY <3>1, <3>2
  <2>3. ASSUME NEW j \in Invocations, g[j] # None, g[j].status = "queued"
        PROVE  Queued(p, j)
    <3>1. j # i /\ h[j] # None /\ h[j].status = "queued"  BY <1>17, <1>18, <2>3
    <3>2. PICK m \in 1..Len(q) : q[m].inv = j  BY Zenon, <1>4, <3>1 DEF Stage, QueueOK, Queued
    <3>3. m - 1 \in 1..Len(p) /\ p[m - 1] = q[m]  BY <1>9, <1>11, <3>1, <3>2
    <3> QED  BY <3>2, <3>3 DEF Queued
  <2> QED  BY <2>1, <2>2, <2>3 DEF QueueOK
<1>20. OrderOK(revisions, l, p, nextEnqueueSequence)
  <2>1. OrderOK(revisions, None, q, nextEnqueueSequence)  BY <1>4 DEF Stage
  <2>2. ServedOK(revisions, l.seq) /\ l.seq < nextEnqueueSequence
    BY <1>9, <1>16, <2>1 DEF OrderOK
  <2>3. \A j \in 1..Len(p) : 1 < j + 1 /\ l.seq < p[j].seq
    BY SMTT(30), <1>9, <1>10, <1>16, <2>1 DEF OrderOK
  <2>4. \A j \in 1..Len(p) : ServedOK(revisions, p[j].seq) /\ p[j].seq < nextEnqueueSequence
    BY <1>10, <2>1 DEF OrderOK
  <2>5. \A j, m \in 1..Len(p) : j < m => p[j].seq < p[m].seq
    <3> SUFFICES ASSUME NEW j \in 1..Len(p), NEW m \in 1..Len(p), j < m PROVE p[j].seq < p[m].seq
      OBVIOUS
    <3>1. j + 1 < m + 1  OBVIOUS
    <3> QED  BY Zenon, <1>10, <2>1, <3>1 DEF OrderOK
  <2> QED  BY <2>1, <2>2, <2>3, <2>4, <2>5 DEF OrderOK
<1>21. TypeOK'
  <2>1. nextLeaseGeneration + 1 \in Nat \ {0}  BY DEF WorkspaceInv, TypeOK
  <2> QED  BY <1>1, <1>15, <2>1 DEF WorkspaceInv, TypeOK, Typed
<1>22. Stage(leaseHistory, writeQueue, activeWriteLease, tickets, revisions, ledger)'
  BY <1>1, <1>15, <1>19, <1>20 DEF Stage
<1>23. RevisionsOK(revisions, nextLeaseGeneration)'
  <2>1. nextLeaseGeneration \in Nat  BY DEF WorkspaceInv, TypeOK
  <2>2. \A r \in 1..Len(revisions) : revisions[r] \in Revision /\ revisions[r].generation \in Nat
    BY RevisionTyped DEF WorkspaceInv, TypeOK
  <2>3. RevisionsOK(revisions, nextLeaseGeneration + 1)
    BY SMTT(30), <2>1, <2>2 DEF WorkspaceInv, RevisionsOK
  <2> QED  BY <1>1, <2>3
<1> QED  BY <1>21, <1>22, <1>23 DEF WorkspaceInv

\* A ticket knows when it was issued and for how long.
LEMMA TicketTyped ==
  ASSUME NEW x \in Ticket
  PROVE  x.issued \in Time /\ x.ttl \in Ttls
BY DEF Ticket

\* The fields of a lease.
LEMMA LeaseTyped ==
  ASSUME NEW l \in Lease
  PROVE  l.issued \in Time
BY DEF Lease

\* A moment of the host clock is a number.
LEMMA TimeIsNat == Time \subseteq Nat
BY WorkspaceAssumption DEF Time

\* renew_write_lease
LEMMA RenewKept ==
  ASSUME WorkspaceInv, NEW expires \in Moment, NEW ttl \in Ttls, Renew(expires, ttl)
  PROVE  WorkspaceInv'
<1> DEFINE l == activeWriteLease
           until == RenewedUntil(expires, ttl)
           m == [l EXCEPT !.authority.expires = expires, !.expires = until, !.renewal = @ + 1]
           us == RenewedTickets(tickets, m)
<1>1. /\ LeaseLive /\ now < expires /\ activeWriteLease' = m /\ tickets' = us
      /\ UNCHANGED <<now, revisions, nextLeaseGeneration, nextEnqueueSequence, writeQueue,
                     leaseHistory, leaseConflicts, knownLeaseIds, knownTicketIds, ledger>>
  BY DEF Renew
<1>2. /\ l \in Lease /\ l # None /\ now < l.expires /\ l.expires \in Nat /\ l.holdUntil \in Nat
      /\ l.issued \in Nat /\ now \in Nat /\ expires \in Nat /\ ttl \in Nat \ {0}
  <2>1. l \in Lease /\ l # None /\ now < l.expires
    BY <1>1 DEF LeaseLive, WorkspaceInv, TypeOK
  <2>2. l.expires \in Nat /\ l.holdUntil \in Nat /\ l.issued \in Time  BY <2>1 DEF Lease
  <2>3. now \in Nat /\ expires \in Nat /\ l.issued \in Nat
    BY <2>2, WorkspaceAssumption DEF WorkspaceInv, TypeOK, Time, Moment
  <2>4. ttl \in Nat \ {0}  BY WorkspaceAssumption
  <2> QED  BY <2>1, <2>2, <2>3, <2>4
<1>3. /\ l.issued <= now /\ l.issued < l.expires /\ l.expires <= l.holdUntil
      /\ l.base = Len(revisions) /\ l.generation < nextLeaseGeneration
      /\ \A r \in 1..Len(revisions) : revisions[r].generation < l.generation
  BY <1>2 DEF WorkspaceInv, Stage, LeaseOK
<1>4. until \in Nat /\ now < until /\ until <= l.holdUntil /\ until <= expires
  BY <1>1, <1>2, <1>3 DEF RenewedUntil, Least, Most
<1> HIDE DEF until
<1>5. l.authority \in Authority /\ l.renewal \in Nat  BY <1>2 DEF Lease
<1>6. [l.authority EXCEPT !.expires = expires] \in Authority  BY <1>5 DEF Authority
<1> DEFINE b == [l.authority EXCEPT !.expires = expires]
           m1 == [l EXCEPT !.authority = b]
           m2 == [m1 EXCEPT !.expires = until]
<1>7. m = [m2 EXCEPT !.renewal = l.renewal + 1]
  BY <1>2 DEF Lease
<1>8. /\ m \in Lease /\ m.expires = until /\ m.issued = l.issued /\ m.holdUntil = l.holdUntil
      /\ m.authority = b
      /\ m.inv = l.inv /\ m.base = l.base /\ m.generation = l.generation /\ m.seq = l.seq
      /\ m.leaseId = l.leaseId /\ m.projection = l.projection
  <2> HIDE DEF m, b
  <2>1. /\ m1 \in Lease /\ m1.issued = l.issued /\ m1.holdUntil = l.holdUntil
        /\ m1.authority = b
        /\ m1.inv = l.inv /\ m1.base = l.base /\ m1.generation = l.generation /\ m1.seq = l.seq
        /\ m1.leaseId = l.leaseId /\ m1.projection = l.projection
    BY <1>2, <1>6 DEF Lease, b
  <2> HIDE DEF m1
  <2>2. /\ m2 \in Lease /\ m2.expires = until /\ m2.issued = l.issued /\ m2.holdUntil = l.holdUntil
        /\ m2.authority = b
        /\ m2.inv = l.inv /\ m2.base = l.base /\ m2.generation = l.generation /\ m2.seq = l.seq
        /\ m2.leaseId = l.leaseId /\ m2.projection = l.projection
    BY <1>4, <2>1 DEF Lease
  <2> HIDE DEF m2
  <2>3. l.renewal + 1 \in Nat  BY <1>5
  <2> QED  BY <1>7, <2>2, <2>3 DEF Lease
<1>9. /\ m.authority \in Authority /\ m.authority.expires = expires
      /\ m.authority.attempt = l.authority.attempt
      /\ m # None
  BY <1>5, <1>6, <1>8, NoneAssumption DEF Authority
<1> HIDE DEF m
<1>10. us \in [TicketIds -> Ticket \cup {None}] /\ TicketsOK(us, m, now)
  <2>0. DOMAIN tickets = TicketIds  BY DEF WorkspaceInv, TypeOK
  <2> SUFFICES ASSUME NEW t \in TicketIds
               PROVE  /\ us[t] \in Ticket \cup {None}
                      /\ us[t] # None /\ us[t].mode = "read_write" => TicketOK(us[t], m, now)
    <3>1. us = [t \in TicketIds |-> us[t]]  BY Zenon, <2>0 DEF RenewedTickets
    <3> HIDE DEF us
    <3> QED  BY <3>1 DEF TicketsOK
  <2> DEFINE x == tickets[t]
             y == [x EXCEPT !.expires = Least(x.issued + x.ttl, m.expires), !.authority = m.authority]
  <2>1. x \in Ticket \cup {None}  BY DEF WorkspaceInv, TypeOK
  <2>2. CASE ~(x # None /\ x.mode = "read_write")
    <3>1. us[t] = x  BY <2>0, <2>2 DEF RenewedTickets
    <3> QED  BY <2>1, <2>2, <3>1
  <2>3. CASE x # None /\ x.mode = "read_write"
    <3>1. TicketOK(x, l, now) /\ x \in Ticket  BY Zenon, <2>1, <2>3 DEF WorkspaceInv, Stage, TicketsOK
    <3>2. us[t] = y  BY <1>8, <2>0, <2>3, <3>1 DEF RenewedTickets, TicketOK
    <3>3. x.issued \in Time /\ x.ttl \in Ttls  BY <3>1, TicketTyped
    <3>4. x.issued \in Nat /\ x.ttl \in Nat \ {0}  BY <3>3, WorkspaceAssumption DEF Time
    <3>5. x.issued <= now  BY <3>1 DEF TicketOK
    <3> DEFINE u == Least(x.issued + x.ttl, m.expires)
    <3>6. u \in Nat /\ u <= m.expires /\ x.issued < u
      BY <1>2, <1>4, <1>8, <3>4, <3>5 DEF Least
    <3> HIDE DEF u
    <3>7. y = [[x EXCEPT !.expires = u] EXCEPT !.authority = m.authority]  BY DEF u
    <3>8. /\ y \in Ticket /\ y.expires = u /\ y.authority = m.authority /\ y.issued = x.issued
          /\ y.leaseId = x.leaseId /\ y.leaseGeneration = x.leaseGeneration /\ y.inv = x.inv
          /\ y.projection = x.projection /\ y.revision = x.revision
      BY Zenon, <1>9, <3>1, <3>6, <3>7 DEF Ticket
    <3> HIDE DEF x, y
    <3>9. SameAuthority(y.authority, m.authority)  BY <3>8 DEF SameAuthority
    <3>10. TicketOK(y, m, now)
      BY <1>8, <1>9, <3>1, <3>5, <3>6, <3>8, <3>9 DEF TicketOK
    <3> QED  BY <3>2, <3>8, <3>10
  <2> QED  BY <2>2, <2>3
<1> HIDE DEF us
<1>11. LeaseRecord(m, "active") = LeaseRecord(l, "active")  BY <1>8, <1>9 DEF LeaseRecord
<1>12. HolderOK(leaseHistory, writeQueue, m)
  BY <1>2, <1>8, <1>9, <1>11 DEF WorkspaceInv, Stage, HolderOK
<1>13. LeaseOK(m, revisions, nextLeaseGeneration, now)
  BY <1>1, <1>2, <1>3, <1>4, <1>8, <1>9 DEF LeaseOK
<1>14. OrderOK(revisions, m, writeQueue, nextEnqueueSequence)
  BY Zenon, <1>2, <1>8, <1>9 DEF WorkspaceInv, Stage, OrderOK
<1>15. Typed(leaseHistory, writeQueue, m, us)
  BY <1>8, <1>10 DEF WorkspaceInv, Stage, Typed
<1>16. Stage(leaseHistory, writeQueue, m, us, revisions, ledger)
  BY <1>10, <1>12, <1>13, <1>14, <1>15 DEF WorkspaceInv, Stage
<1>17. Stage(leaseHistory', writeQueue', activeWriteLease', tickets', revisions, ledger)
  BY <1>1, <1>16
<1>18. /\ leaseConflicts' \in SUBSET Conflict /\ knownLeaseIds' \in SUBSET LeaseIds
       /\ knownTicketIds' \in SUBSET TicketIds
  BY <1>1 DEF WorkspaceInv, TypeOK
<1> QED  BY <1>1, <1>17, <1>18, Stored

\* prepare_materialization of either mode: the new ticket is of the lease, or writes nothing
LEMMA TicketKept ==
  ASSUME WorkspaceInv, NEW t \in TicketIds, NEW x \in Ticket, NewTicket(t, x),
         x.mode = "read_write" => TicketOK(x, activeWriteLease, now)
  PROVE  WorkspaceInv'
<1>1. tickets \in [TicketIds -> Ticket \cup {None}]  BY DEF WorkspaceInv, TypeOK
<1>2. /\ tickets' = [tickets EXCEPT ![t] = x] /\ knownTicketIds' = knownTicketIds \cup {t}
      /\ UNCHANGED <<now, revisions, nextLeaseGeneration, nextEnqueueSequence, activeWriteLease,
                     writeQueue, leaseHistory, leaseConflicts, knownLeaseIds, ledger>>
  BY DEF NewTicket
<1>3. tickets' \in [TicketIds -> Ticket \cup {None}]  BY <1>1, <1>2
<1>4. TicketsOK(tickets', activeWriteLease, now)
  <2>1. \A u \in TicketIds : tickets'[u] = IF u = t THEN x ELSE tickets[u]  BY <1>1, <1>2
  <2> QED  BY Zenon, <2>1 DEF TicketsOK, WorkspaceInv, Stage
<1>5. Typed(leaseHistory, writeQueue, activeWriteLease, tickets')
  BY <1>3 DEF WorkspaceInv, TypeOK, Typed
<1>6. Stage(leaseHistory, writeQueue, activeWriteLease, tickets', revisions, ledger)
  BY <1>4, <1>5 DEF WorkspaceInv, Stage
<1>7. Stage(leaseHistory', writeQueue', activeWriteLease', tickets', revisions, ledger)
  BY <1>2, <1>6
<1>8. /\ leaseConflicts' \in SUBSET Conflict /\ knownLeaseIds' \in SUBSET LeaseIds
      /\ knownTicketIds' \in SUBSET TicketIds
  BY <1>2 DEF WorkspaceInv, TypeOK
<1> QED  BY <1>2, <1>7, <1>8, Stored

\* prepare_materialization, read_only
LEMMA PrepareReadKept ==
  ASSUME WorkspaceInv, NEW t \in TicketIds, NEW i \in Invocations, NEW a \in Authority,
         NEW p \in Projections, NEW r \in 0..Len(revisions), NEW ttl \in Ttls,
         PrepareRead(t, i, a, p, r, ttl)
  PROVE  WorkspaceInv'
<1> DEFINE u == Least(now + ttl, a.expires)
           x == [mode |-> "read_only", inv |-> i, authority |-> a, leaseId |-> None,
                 leaseGeneration |-> 0, projection |-> p, revision |-> r, issued |-> now,
                 expires |-> u, ttl |-> ttl]
<1>1. NewTicket(t, x)  BY DEF PrepareRead
<1>2. u \in Nat
  <2>1. now \in Nat /\ ttl \in Nat /\ a.expires \in Nat
    BY WorkspaceAssumption DEF WorkspaceInv, TypeOK, Time, Authority, Moment
  <2> QED  BY <2>1 DEF Least
<1>3. r \in Nat /\ now \in Time  BY DEF WorkspaceInv, TypeOK
<1> HIDE DEF u
<1>4. x \in Ticket /\ x.mode # "read_write"  BY <1>2, <1>3 DEF Ticket
<1> HIDE DEF x
<1> QED  BY <1>1, <1>4, TicketKept

\* prepare_materialization, read_write: no later than the lease and its turn lease
LEMMA PrepareWriteKept ==
  ASSUME WorkspaceInv, NEW t \in TicketIds, NEW expires \in Moment, NEW ttl \in Ttls,
         PrepareWrite(t, expires, ttl)
  PROVE  WorkspaceInv'
<1> DEFINE l == activeWriteLease
           u == TicketUntil(expires, ttl)
           b == [l.authority EXCEPT !.expires = expires]
           x == [mode |-> "read_write", inv |-> l.inv, authority |-> b, leaseId |-> l.leaseId,
                 leaseGeneration |-> l.generation, projection |-> l.projection,
                 revision |-> l.base, issued |-> now, expires |-> u, ttl |-> ttl]
<1>1. NewTicket(t, x) /\ LeaseLive /\ now < expires  BY DEF PrepareWrite
<1>2. /\ l \in Lease /\ l # None /\ now < l.expires /\ now \in Time
  BY <1>1 DEF LeaseLive, WorkspaceInv, TypeOK
<1>3. /\ l.inv \in Invocations /\ l.leaseId \in LeaseIds /\ l.generation \in Nat
      /\ l.projection \in Projections /\ l.base \in Nat /\ l.expires \in Nat
      /\ l.authority \in Authority
  BY <1>2 DEF Lease
<1>4. now \in Nat /\ expires \in Nat /\ ttl \in Nat \ {0}
  BY <1>2, WorkspaceAssumption DEF Time, Moment
<1>5. u \in Nat /\ u <= l.expires /\ now < u
  BY <1>1, <1>2, <1>3, <1>4 DEF TicketUntil, Least
<1>6. b \in Authority /\ SameAuthority(b, l.authority)
  BY <1>3 DEF Authority, SameAuthority
<1> HIDE DEF u, b
<1>7. x \in Ticket  BY Zenon, <1>2, <1>3, <1>5, <1>6 DEF Ticket
<1>8. TicketOK(x, l, now)  BY <1>2, <1>4, <1>5, <1>6 DEF TicketOK
<1> HIDE DEF x
<1> QED  BY <1>1, <1>7, <1>8, TicketKept

\* commit_workspace: the revision is the successor of the one its snapshot was taken of.
LEMMA CommitKept ==
  ASSUME WorkspaceInv, NEW t \in TicketIds, NEW a \in Authority, NEW n \in 0..Len(writeQueue),
         Commit(t, a, n)
  PROVE  WorkspaceInv'
<1> DEFINE l == activeWriteLease
           h == [leaseHistory EXCEPT ![l.inv] = LeaseRecord(l, "committed")]
           ts == DropWriteTickets(tickets, l.leaseId)
           x == [inv |-> l.inv, from |-> tickets[t].revision, generation |-> l.generation,
                 seq |-> l.seq]
           y == [revision |-> Len(revisions) + 1, base |-> l.base,
                 attempt |-> l.authority.attempt, generation |-> l.generation,
                 projection |-> l.projection]
           rev == Append(revisions, x)
           led == [ledger EXCEPT ![l.inv] = y]
           N == Len(revisions)
<1>1. /\ revisions' = rev /\ ledger' = led /\ leaseHistory' = ReapedHistory(h, writeQueue, n)
      /\ tickets' = ts /\ writeQueue' = Rest(writeQueue, n) /\ activeWriteLease' = None
      /\ UNCHANGED <<now, nextLeaseGeneration, nextEnqueueSequence, leaseConflicts,
                     knownLeaseIds, knownTicketIds>>
      /\ l # None /\ l.base = N /\ tickets[t].revision = N
  BY Zenon DEF Commit, EndLease, LeaseLive
<1>2. Stage(leaseHistory, writeQueue, l, tickets, revisions, ledger)  BY DEF WorkspaceInv
<1>3. /\ revisions \in Seq(Revision) /\ N \in Nat /\ ledger \in [Invocations -> Record \cup {None}]
      /\ l \in Lease /\ nextLeaseGeneration \in Nat
  <2>1. TypeOK  BY DEF WorkspaceInv
  <2>2. revisions \in Seq(Revision) /\ l \in Lease \cup {None}  BY Zenon, <2>1 DEF TypeOK
  <2>3. N \in Nat  BY Zenon, <2>2, LenProperties
  <2>4. ledger \in [Invocations -> Record \cup {None}] /\ nextLeaseGeneration \in Nat
    BY ZenonT(30), <2>1 DEF TypeOK
  <2> QED  BY ZenonT(30), <1>1, <2>2, <2>3, <2>4
<1>4. /\ Typed(h, writeQueue, None, ts) /\ QueueOK(h, writeQueue) /\ HolderOK(h, writeQueue, None)
      /\ TicketsOK(ts, None, now)
      /\ l.inv \in Invocations /\ h[l.inv] = LeaseRecord(l, "committed")
      /\ h[l.inv] # None /\ h[l.inv].status = "committed"
      /\ leaseHistory[l.inv] # None /\ leaseHistory[l.inv].status = "active"
      /\ \A i \in Invocations \ {l.inv} : h[i] = leaseHistory[i]
  <2>1. l # None  BY Zenon, <1>1
  <2> HIDE DEF x, y, rev, led
  <2> QED  BY <1>2, <2>1, EndParts
<1> HIDE DEF h, ts
<1>5. x \in Revision /\ y \in Record /\ y # None
  <2>1. /\ l.generation \in Nat /\ l.seq \in Nat /\ l.authority.attempt \in Attempts
        /\ l.projection \in Projections
    BY <1>3 DEF Lease, Authority
  <2>2. x \in Revision  BY Zenon, <1>1, <1>3, <1>4, <2>1 DEF Revision
  <2>3. N + 1 \in Nat  BY <1>3
  <2>4. y \in Record  BY Zenon, <1>1, <1>3, <2>1, <2>3 DEF Record
  <2> QED  BY <2>2, <2>4, NoneAssumption
<1>6. /\ x.inv = l.inv /\ x.from = N /\ x.generation = l.generation /\ x.seq = l.seq
      /\ y.revision = N + 1 /\ y.base = N /\ y.attempt = l.authority.attempt
      /\ y.generation = l.generation
  BY Zenon, <1>1
<1> HIDE DEF x, y
<1>7. /\ rev \in Seq(Revision) /\ Len(rev) = N + 1 /\ rev[N + 1] = x
      /\ \A r \in 1..N : rev[r] = revisions[r]
  BY <1>3, <1>5, AppendProperties
<1>8. /\ led \in [Invocations -> Record \cup {None}] /\ led[l.inv] = y
      /\ \A i \in Invocations \ {l.inv} : led[i] = ledger[i]
  BY Zenon, <1>3, <1>4, <1>5
<1> HIDE DEF rev, led
<1>9. \A r \in 1..Len(rev) : r \in 1..N \/ r = N + 1  BY <1>3, <1>7
<1>10. \A r \in 1..N : revisions[r] \in Revision /\ revisions[r].inv \in Invocations
                       /\ revisions[r].seq \in Nat
  <2> SUFFICES ASSUME NEW r \in 1..N
               PROVE  /\ revisions[r] \in Revision /\ revisions[r].inv \in Invocations
                      /\ revisions[r].seq \in Nat
    OBVIOUS
  <2>1. revisions[r] \in Revision  BY <1>3, RevisionTyped
  <2> QED  BY <2>1 DEF Revision
<1>11. LedgerOK(ledger, leaseHistory, revisions)  BY <1>2 DEF Stage
<1>12. \A r \in 1..N : revisions[r].inv # l.inv
  BY Zenon, <1>4, <1>10, <1>11 DEF LedgerOK
<1>13. LedgerOK(led, h, rev)
  <2>1. ASSUME NEW i \in Invocations, led[i] # None
        PROVE  /\ led[i].revision \in 1..Len(rev) /\ rev[led[i].revision].inv = i
               /\ led[i].base = led[i].revision - 1
               /\ h[i] # None /\ h[i].status = "committed"
               /\ h[i].attempt = led[i].attempt /\ h[i].generation = led[i].generation
    <3>1. CASE i = l.inv
      <4>1. h[i].attempt = l.authority.attempt /\ h[i].generation = l.generation
        BY <1>4, <3>1 DEF LeaseRecord
      <4>2. N + 1 \in 1..Len(rev) /\ N = (N + 1) - 1  BY SMTT(30), <1>3, <1>7
      <4> QED  BY ZenonT(30), <1>4, <1>6, <1>7, <1>8, <3>1, <4>1, <4>2
    <3>2. CASE i # l.inv
      <4>1. led[i] = ledger[i] /\ h[i] = leaseHistory[i]  BY Zenon, <1>4, <1>8, <3>2
      <4>2. ledger[i].revision \in 1..N /\ revisions[ledger[i].revision].inv = i
        BY <1>11, <2>1, <4>1 DEF LedgerOK
      <4>3. ledger[i].revision \in 1..Len(rev)  BY <1>3, <1>7, <4>2
      <4> QED  BY SMTT(30), <1>7, <1>11, <2>1, <4>1, <4>2, <4>3 DEF LedgerOK
    <3> QED  BY <3>1, <3>2
  <2>2. ASSUME NEW r \in 1..Len(rev)
        PROVE  led[rev[r].inv] # None /\ led[rev[r].inv].revision = r
    <3>1. CASE r = N + 1  BY Zenon, <1>5, <1>6, <1>7, <1>8, <3>1
    <3>2. CASE r \in 1..N
      <4>1. rev[r] = revisions[r] /\ led[revisions[r].inv] = ledger[revisions[r].inv]
        BY <1>7, <1>8, <1>10, <1>12, <3>2
      <4> QED  BY <1>11, <3>2, <4>1 DEF LedgerOK
    <3> QED  BY <1>9, <3>1, <3>2
  <2>3. ASSUME NEW i \in Invocations, h[i] # None, h[i].status = "committed"
        PROVE  led[i] # None
    BY ZenonT(30), <1>4, <1>5, <1>8, <1>11, <2>3 DEF LedgerOK
  <2> QED  BY Zenon, <2>1, <2>2, <2>3 DEF LedgerOK
<1>14. OrderOK(rev, None, writeQueue, nextEnqueueSequence)
  <2>1. OrderOK(revisions, l, writeQueue, nextEnqueueSequence)  BY <1>2 DEF Stage
  <2>2. \A r \in 1..N : revisions[r].seq < l.seq  BY <1>1, <2>1 DEF OrderOK, ServedOK
  <2>3. ASSUME NEW r \in 1..Len(rev), NEW m \in 1..Len(rev), r < m
        PROVE  rev[r].seq < rev[m].seq
    <3>1. r \in 1..N  BY <1>3, <1>7, <2>3
    <3>2. CASE m = N + 1  BY Zenon, <1>6, <1>7, <2>2, <3>1, <3>2
    <3>3. CASE m \in 1..N  BY <1>7, <2>1, <2>3, <3>1, <3>3 DEF OrderOK
    <3> QED  BY <1>9, <3>2, <3>3
  <2>4. ServedOK(rev, nextEnqueueSequence)
    BY Zenon, <1>1, <1>6, <1>7, <1>9, <2>1 DEF OrderOK, ServedOK
  <2>5. \A k \in 1..Len(writeQueue) : ServedOK(rev, writeQueue[k].seq)
    BY Zenon, <1>1, <1>6, <1>7, <1>9, <2>1 DEF OrderOK, ServedOK
  <2> QED  BY Zenon, <2>1, <2>3, <2>4, <2>5 DEF OrderOK
<1>15. RevisionsOK(rev, nextLeaseGeneration)
  <2>1. /\ l.generation < nextLeaseGeneration
        /\ \A r \in 1..N : revisions[r].generation < l.generation
    BY Zenon, <1>1, <1>2 DEF Stage, LeaseOK
  <2>2. RevisionsOK(revisions, nextLeaseGeneration)  BY DEF WorkspaceInv
  <2>3. \A r \in 1..Len(rev) : rev[r].from = r - 1 /\ rev[r].generation < nextLeaseGeneration
    <3>1. N = (N + 1) - 1  BY <1>3
    <3> QED  BY <1>6, <1>7, <1>9, <2>1, <2>2, <3>1 DEF RevisionsOK
  <2>4. ASSUME NEW r \in 2..Len(rev)
        PROVE  rev[r - 1].generation < rev[r].generation
    <3>1. r - 1 \in 1..N /\ (r \in 2..N \/ r = N + 1)  BY <1>3, <1>7
    <3>2. rev[r - 1] = revisions[r - 1]  BY <1>7, <3>1
    <3>3. CASE r = N + 1  BY <1>6, <1>7, <2>1, <3>1, <3>2, <3>3
    <3>4. CASE r \in 2..N
      <4>1. rev[r] = revisions[r]  BY <1>3, <1>7, <3>4
      <4> QED  BY <2>2, <3>2, <3>4, <4>1 DEF RevisionsOK
    <3> QED  BY <3>1, <3>3, <3>4
  <2> QED  BY <2>3, <2>4 DEF RevisionsOK
<1>16. LeaseOK(None, rev, nextLeaseGeneration, now)  BY DEF LeaseOK
<1>17. Stage(h, writeQueue, None, ts, rev, led)
  BY Zenon, <1>4, <1>13, <1>14, <1>16 DEF Stage
<1>18. Stage(leaseHistory', writeQueue', activeWriteLease', tickets', rev, led)
  BY Zenon, <1>1, <1>17, AdvanceStage
<1>19. Stage(leaseHistory, writeQueue, activeWriteLease, tickets, revisions, ledger)'
  BY Zenon, <1>1, <1>18 DEF Stage
<1>20. TypeOK'  BY Zenon, <1>1, <1>7, <1>8, <1>18 DEF WorkspaceInv, TypeOK, Stage, Typed
<1>21. RevisionsOK(revisions, nextLeaseGeneration)'  BY <1>1, <1>15
<1> QED  BY <1>19, <1>20, <1>21 DEF WorkspaceInv

\* A request that is canceled where it stands keeps its attempt and its place.
LEMMA CanceledStage ==
  ASSUME WorkspaceInv, NEW k \in 1..Len(writeQueue),
         NEW p, p = [writeQueue EXCEPT ![k].canceled = TRUE],
         NEW h, h = [leaseHistory EXCEPT ![writeQueue[k].inv] =
                       EntryRecord(writeQueue[k],
                                   LatestGeneration(leaseHistory[writeQueue[k].inv]), "canceled")]
  PROVE  /\ Stage(h, p, activeWriteLease, tickets, revisions, ledger)
         /\ Len(p) = Len(writeQueue) /\ SameAdmissions(leaseHistory, h)
<1> DEFINE e == writeQueue[k]
           c == [e EXCEPT !.canceled = TRUE]
           i == e.inv
           x == EntryRecord(e, LatestGeneration(leaseHistory[i]), "canceled")
           l == activeWriteLease
<1>1. Stage(leaseHistory, writeQueue, l, tickets, revisions, ledger)  BY DEF WorkspaceInv
<1>2. /\ writeQueue \in Seq(Entry) /\ Len(writeQueue) \in Nat
      /\ leaseHistory \in [Invocations -> History \cup {None}]
      /\ e \in Entry /\ i \in Invocations
  BY LenProperties, EntryTyped DEF WorkspaceInv, TypeOK
<1>3. /\ c \in Entry /\ c.inv = i /\ c.seq = e.seq /\ c.authority = e.authority
      /\ c.projection = e.projection
  BY Zenon, <1>2 DEF Entry
<1>4. c.canceled = TRUE  BY <1>2 DEF Entry
<1>5. x \in History /\ x # None /\ x.status = "canceled"
  <2>1. LatestGeneration(leaseHistory[i]) \in Nat  BY <1>2, LatestTyped
  <2>2. x \in History /\ x # None  BY <1>2, <2>1, EntryRecordTyped DEF Statuses
  <2> QED  BY <2>2 DEF EntryRecord
<1>6. x = EntryRecord(c, x.generation, "canceled")  BY <1>3 DEF EntryRecord
<1>7. leaseHistory[i] # None /\ leaseHistory[i].status \in {"canceled", "queued"}
  <2> DEFINE st == IF e.canceled THEN "canceled" ELSE "queued"
  <2>1. leaseHistory[i] # None /\ leaseHistory[i] = EntryRecord(e, leaseHistory[i].generation, st)
    BY <1>1 DEF Stage, QueueOK
  <2>2. st \in {"canceled", "queued"}  OBVIOUS
  <2> HIDE DEF st
  <2> QED  BY <2>1, <2>2 DEF EntryRecord
<1>8. p = [writeQueue EXCEPT ![k] = c] /\ h = [leaseHistory EXCEPT ![i] = x]  OBVIOUS
<1>9. leaseHistory[i].attempt = x.attempt /\ leaseHistory[i].seq = x.seq
  <2> DEFINE st == IF e.canceled THEN "canceled" ELSE "queued"
  <2>1. leaseHistory[i] = EntryRecord(e, leaseHistory[i].generation, st)
    BY <1>1 DEF Stage, QueueOK
  <2> HIDE DEF st
  <2> QED  BY <2>1 DEF EntryRecord
<1> HIDE DEF c, x
<1> DEFINE u == [writeQueue EXCEPT ![k] = c]
<1>10. u \in Seq(Entry) /\ Len(u) = Len(writeQueue)
  BY <1>2, <1>3, ExceptSeq
<1>11. \A m \in 1..Len(writeQueue) : u[m] = IF m = k THEN c ELSE writeQueue[m]
  BY <1>2, <1>3, ExceptSeq
<1>12. p = u  BY Zenon, <1>8
<1> HIDE DEF u
<1>13. p \in Seq(Entry) /\ Len(p) = Len(writeQueue)  BY Zenon, <1>10, <1>12
<1>14. \A m \in 1..Len(writeQueue) : p[m] = IF m = k THEN c ELSE writeQueue[m]  BY Zenon, <1>11, <1>12
<1>15. /\ h \in [Invocations -> History \cup {None}] /\ h[i] = x
       /\ \A j \in Invocations \ {i} : h[j] = leaseHistory[j]
  BY <1>8, <1>2, <1>5
<1>16. \A m \in 1..Len(writeQueue) :
         /\ p[m].inv = writeQueue[m].inv /\ p[m].seq = writeQueue[m].seq
         /\ writeQueue[m].inv \in Invocations
  BY <1>2, <1>3, <1>14, EntryTyped
<1>17. \A m, o \in 1..Len(writeQueue) : writeQueue[m].inv = writeQueue[o].inv => m = o
  BY <1>1 DEF Stage, QueueOK
<1>18. \A j \in Invocations : Queued(p, j) <=> Queued(writeQueue, j)
  BY <1>13, <1>16 DEF Queued
<1>19. QueueOK(h, p)
  <2>1. \A m, o \in 1..Len(p) : p[m].inv = p[o].inv => m = o  BY Zenon, <1>13, <1>16, <1>17
  <2>2. ASSUME NEW m \in 1..Len(p)
        PROVE  /\ h[p[m].inv] # None
               /\ h[p[m].inv] = EntryRecord(p[m], h[p[m].inv].generation,
                                            IF p[m].canceled THEN "canceled" ELSE "queued")
    <3>1. CASE m = k
      <4>1. p[m] = c /\ h[c.inv] = x  BY <1>3, <1>13, <1>14, <1>15, <3>1
      <4> QED  BY Zenon, <1>4, <1>5, <1>6, <4>1
    <3>2. CASE m # k
      <4> DEFINE w == writeQueue[m]
      <4>1. p[m] = w /\ m \in 1..Len(writeQueue)  BY <1>13, <1>14, <3>2
      <4>2. w.inv \in Invocations \ {i}  BY <1>16, <1>17, <3>2, <4>1
      <4>3. h[w.inv] = leaseHistory[w.inv]  BY <1>15, <4>2
      <4>4. /\ leaseHistory[w.inv] # None
            /\ leaseHistory[w.inv] = EntryRecord(w, leaseHistory[w.inv].generation,
                                                 IF w.canceled THEN "canceled" ELSE "queued")
        BY <1>1, <4>1 DEF Stage, QueueOK
      <4> HIDE DEF w
      <4> QED  BY Zenon, <4>1, <4>3, <4>4
    <3> QED  BY <3>1, <3>2
  <2>3. ASSUME NEW j \in Invocations, h[j] # None, h[j].status = "queued"
        PROVE  Queued(p, j)
    <3>1. j # i /\ h[j] = leaseHistory[j]  BY <1>5, <1>15, <2>3
    <3>2. Queued(writeQueue, j)  BY <1>1, <2>3, <3>1 DEF Stage, QueueOK
    <3> QED  BY Zenon, <1>18, <3>2
  <2> QED  BY Zenon, <2>1, <2>2, <2>3 DEF QueueOK
<1>20. HolderOK(h, p, l)
  <2>1. HolderOK(leaseHistory, writeQueue, l) /\ l \in Lease \cup {None}
    BY <1>1 DEF Stage, Typed
  <2>2. Queued(writeQueue, i)  BY DEF Queued
  <2>3. l # None => l.inv \in Invocations \ {i}  BY <2>1, <2>2 DEF HolderOK, Lease
  <2>4. l # None => h[l.inv] = LeaseRecord(l, "active") /\ ~Queued(p, l.inv)
    BY Zenon, <1>15, <1>18, <2>1, <2>3 DEF HolderOK
  <2>5. \A j \in Invocations : h[j] # None /\ h[j].status = "active" => l # None /\ l.inv = j
    BY <1>5, <1>15, <2>1 DEF HolderOK
  <2> QED  BY <2>4, <2>5 DEF HolderOK
<1>21. LedgerOK(ledger, h, revisions)
  <2>1. \A j \in Invocations : h[j] = leaseHistory[j] \/ (~Done(leaseHistory, j) /\ ~Done(h, j))
    BY <1>5, <1>7, <1>15 DEF Done
  <2>2. LedgerOK(ledger, leaseHistory, revisions)  BY <1>1 DEF Stage
  <2> QED  BY Zenon, <2>1, <2>2, LedgerKept
<1>22. OrderOK(revisions, l, p, nextEnqueueSequence)
  <2>1. OrderOK(revisions, l, writeQueue, nextEnqueueSequence)  BY <1>1 DEF Stage
  <2> QED  BY <1>13, <1>16, <2>1 DEF OrderOK
<1>23. Typed(h, p, l, tickets)  BY <1>1, <1>13, <1>15 DEF Stage, Typed
<1>24. Stage(h, p, l, tickets, revisions, ledger)
  BY Zenon, <1>1, <1>19, <1>20, <1>21, <1>22, <1>23 DEF Stage
<1>25. SameAdmissions(leaseHistory, h)
  BY Zenon, <1>9, <1>5, <1>7, <1>15 DEF SameAdmissions
<1> QED  BY <1>13, <1>24, <1>25

\* cancel_write_request
LEMMA CancelKept ==
  ASSUME WorkspaceInv, NEW k \in 1..Len(writeQueue), NEW a \in Authority,
         NEW n \in 0..Len(writeQueue), Cancel(k, a, n)
  PROVE  WorkspaceInv'
<1> DEFINE p == [writeQueue EXCEPT ![k].canceled = TRUE]
           i == writeQueue[k].inv
           h == [leaseHistory EXCEPT ![i] =
                   EntryRecord(writeQueue[k], LatestGeneration(leaseHistory[i]), "canceled")]
<1>1. /\ leaseHistory' = ReapedHistory(h, p, n) /\ writeQueue' = Rest(p, n)
      /\ UNCHANGED <<now, revisions, nextLeaseGeneration, nextEnqueueSequence, activeWriteLease,
                     leaseConflicts, tickets, knownLeaseIds, knownTicketIds, ledger>>
  BY DEF Cancel
<1>2. Stage(h, p, activeWriteLease, tickets, revisions, ledger) /\ Len(p) = Len(writeQueue)
  BY CanceledStage
<1> HIDE DEF p, h
<1>3. Stage(leaseHistory', writeQueue', activeWriteLease', tickets', revisions, ledger)
  BY Zenon, <1>1, <1>2, AdvanceStage
<1>4. /\ leaseConflicts' \in SUBSET Conflict /\ knownLeaseIds' \in SUBSET LeaseIds
      /\ knownTicketIds' \in SUBSET TicketIds
  BY <1>1 DEF WorkspaceInv, TypeOK
<1> QED  BY <1>1, <1>3, <1>4, Stored

\* The host clock advances.
LEMMA TickKept ==
  ASSUME WorkspaceInv, Tick
  PROVE  WorkspaceInv'
<1>1. /\ now' = now + 1 /\ now < MaxTime
      /\ UNCHANGED <<revisions, nextLeaseGeneration, nextEnqueueSequence, activeWriteLease,
                     writeQueue, leaseHistory, leaseConflicts, tickets, knownLeaseIds,
                     knownTicketIds, ledger>>
  BY DEF Tick
<1>2. now \in Nat /\ now' \in Time /\ now' \in Nat
  BY <1>1, WorkspaceAssumption DEF WorkspaceInv, TypeOK, Time
<1>3. TypeOK'  BY ZenonT(30), <1>1, <1>2 DEF WorkspaceInv, TypeOK
<1>4. LeaseOK(activeWriteLease, revisions, nextLeaseGeneration, now')
  <2>1. activeWriteLease # None => activeWriteLease.issued \in Nat
    <3>1. activeWriteLease \in Lease \cup {None}  BY Zenon DEF WorkspaceInv, TypeOK
    <3> QED  BY Zenon, <3>1, LeaseTyped, TimeIsNat
  <2>2. LeaseOK(activeWriteLease, revisions, nextLeaseGeneration, now)
    BY Zenon DEF WorkspaceInv, Stage
  <2> QED  BY SMTT(30), <1>1, <1>2, <2>1, <2>2 DEF LeaseOK
<1>5. TicketsOK(tickets, activeWriteLease, now')
  <2>1. \A t \in TicketIds : tickets[t] # None => tickets[t].issued \in Nat
    <3>1. tickets \in [TicketIds -> Ticket \cup {None}]  BY Zenon DEF WorkspaceInv, TypeOK
    <3> QED  BY Zenon, <3>1, TicketTyped, TimeIsNat
  <2>2. TicketsOK(tickets, activeWriteLease, now)  BY Zenon DEF WorkspaceInv, Stage
  <2> QED  BY SMTT(30), <1>1, <1>2, <2>1, <2>2 DEF TicketsOK, TicketOK
<1>6. Stage(leaseHistory, writeQueue, activeWriteLease, tickets, revisions, ledger)'
  BY <1>1, <1>4, <1>5 DEF WorkspaceInv, Stage, Typed
<1>7. RevisionsOK(revisions, nextLeaseGeneration)'  BY <1>1 DEF WorkspaceInv
<1> QED  BY <1>3, <1>6, <1>7 DEF WorkspaceInv

-----------------------------------------------------------------------------
(* The invariant *)

\* createWorkspaceState has the invariant.
LEMMA InitHolds == Init => WorkspaceInv
<1> SUFFICES ASSUME Init PROVE WorkspaceInv  OBVIOUS
<1>1. <<>> \in Seq(Entry) /\ <<>> \in Seq(Revision) /\ Len(<<>>) = 0  BY EmptySeq
<1>2. /\ now = 0 /\ revisions = <<>> /\ nextLeaseGeneration = 1 /\ nextEnqueueSequence = 0
      /\ activeWriteLease = None /\ writeQueue = <<>>
      /\ leaseHistory = [i \in Invocations |-> None] /\ leaseConflicts = {}
      /\ tickets = [t \in TicketIds |-> None] /\ knownLeaseIds = {} /\ knownTicketIds = {}
      /\ ledger = [i \in Invocations |-> None]
  BY DEF Init
<1>3. TypeOK  BY SMTT(30), <1>1, <1>2, WorkspaceAssumption DEF TypeOK, Time
<1>4. QueueOK(leaseHistory, writeQueue) /\ HolderOK(leaseHistory, writeQueue, activeWriteLease)
  BY <1>1, <1>2 DEF QueueOK, HolderOK
<1>5. /\ LeaseOK(activeWriteLease, revisions, nextLeaseGeneration, now)
      /\ TicketsOK(tickets, activeWriteLease, now)
  BY Zenon, <1>2 DEF LeaseOK, TicketsOK
<1>6. LedgerOK(ledger, leaseHistory, revisions)  BY <1>1, <1>2 DEF LedgerOK
<1>7. OrderOK(revisions, activeWriteLease, writeQueue, nextEnqueueSequence)
  BY <1>1, <1>2 DEF OrderOK, ServedOK
<1>8. RevisionsOK(revisions, nextLeaseGeneration)  BY <1>1, <1>2 DEF RevisionsOK
<1>9. Typed(leaseHistory, writeQueue, activeWriteLease, tickets)  BY <1>3 DEF TypeOK, Typed
<1> QED  BY <1>3, <1>4, <1>5, <1>6, <1>7, <1>8, <1>9 DEF WorkspaceInv, Stage

\* The fields of an acquire make an entry of the queue.
LEMMA RequestMade ==
  ASSUME NEW i \in Invocations, NEW a \in Authority, NEW id \in LeaseIds, NEW p \in Projections,
         NEW ttl \in Ttls, NEW hold \in Holds, NEW d \in Deadlines, NEW s \in Nat
  PROVE  [inv |-> i, authority |-> a, leaseId |-> id, projection |-> p, ttl |-> ttl,
          hold |-> hold, deadline |-> d, seq |-> s, canceled |-> FALSE] \in Entry
BY Zenon DEF Entry

\* The request of an acquire is an entry of the queue.
LEMMA RequestTyped ==
  ASSUME WorkspaceInv, NEW i \in Invocations, NEW e \in Requests(i)
  PROVE  e \in Entry
<1>1. nextEnqueueSequence \in Nat  BY DEF WorkspaceInv, TypeOK
<1> QED  BY <1>1, RequestMade DEF Requests

\* Every command keeps the invariant.
LEMMA StepKeeps == WorkspaceInv /\ [Next]_vars => WorkspaceInv'
<1> SUFFICES ASSUME WorkspaceInv, [Next]_vars PROVE WorkspaceInv'  OBVIOUS
<1>0. \A q, c : ReapCounts(q, c) \subseteq 0..Len(q)  BY DEF ReapCounts
<1>1. ASSUME NEW i \in Invocations, NEW n \in ReapCounts(writeQueue, i), Acquire(i, n)
      PROVE  WorkspaceInv'
  <2>1. n \in 0..Len(writeQueue)  BY <1>0
  <2>2. ASSUME NEW e \in Requests(i),
               AcquireGranted(e, n) \/ AcquireEnqueued(e, n) \/ AcquireConflict(e, n)
        PROVE  WorkspaceInv'
    <3>1. e \in Entry  BY <2>2, RequestTyped
    <3> QED  BY <2>1, <2>2, <3>1, GrantedKept, EnqueuedKept, ConflictKept
  <2>3. ASSUME NEW a \in Authority, NEW k \in 1..Len(writeQueue), RetryGranted(i, a, n, k)
        PROVE  WorkspaceInv'
    BY <2>1, <2>3, RetryGrantedKept
  <2>4. ASSUME NEW a \in Authority, NEW k \in 1..Len(writeQueue), RetryWaits(i, a, n, k)
        PROVE  WorkspaceInv'
    <3>1. leaseConflicts' \in SUBSET Conflict  BY <2>4 DEF RetryWaits, WorkspaceInv, TypeOK
    <3> QED  BY <2>1, <2>4, <3>1, AdvanceKept DEF RetryWaits
  <2> QED  BY <1>1, <2>2, <2>3, <2>4, Zenon DEF Acquire
<1>2. ASSUME NEW expires \in Moment, NEW ttl \in Ttls, Renew(expires, ttl)
      PROVE  WorkspaceInv'
  BY <1>2, RenewKept
<1>3. ASSUME NEW n \in ReapCounts(writeQueue, None), NEW expires \in Moment, Release(expires, n)
      PROVE  WorkspaceInv'
  <2>1. n \in 0..Len(writeQueue)  BY <1>0
  <2> QED  BY <1>3, <2>1, ReleaseKept
<1>4. ASSUME NEW n \in ReapCounts(writeQueue, None), Reconcile(n)
      PROVE  WorkspaceInv'
  <2>1. n \in 0..Len(writeQueue)  BY <1>0
  <2>2. leaseConflicts' \in SUBSET Conflict  BY <1>4 DEF Reconcile, WorkspaceInv, TypeOK
  <2> QED  BY <1>4, <2>1, <2>2, AdvanceKept DEF Reconcile
<1>5. ASSUME NEW n \in ReapCounts(writeQueue, None), NEW t \in TicketIds, NEW a \in Authority,
             Commit(t, a, n)
      PROVE  WorkspaceInv'
  <2>1. n \in 0..Len(writeQueue)  BY <1>0
  <2> QED  BY <1>5, <2>1, CommitKept
<1>6. ASSUME NEW k \in 1..Len(writeQueue), NEW a \in Authority, NEW n \in 0..Len(writeQueue),
             Cancel(k, a, n)
      PROVE  WorkspaceInv'
  BY <1>6, CancelKept
<1>7. ASSUME NEW t \in TicketIds, NEW i \in Invocations, NEW a \in Authority,
             NEW p \in Projections, NEW r \in 0..Len(revisions), NEW ttl \in Ttls,
             PrepareRead(t, i, a, p, r, ttl)
      PROVE  WorkspaceInv'
  BY <1>7, PrepareReadKept
<1>8. ASSUME NEW t \in TicketIds, NEW expires \in Moment, NEW ttl \in Ttls,
             PrepareWrite(t, expires, ttl)
      PROVE  WorkspaceInv'
  BY <1>8, PrepareWriteKept
<1>9. CASE Tick  BY <1>9, TickKept
<1>10. CASE UNCHANGED vars
  BY Zenon, <1>10 DEF vars, WorkspaceInv, TypeOK, Stage, Typed
<1> QED
  BY <1>1, <1>2, <1>3, <1>4, <1>5, <1>6, <1>7, <1>8, <1>9, <1>10, Zenon DEF Next

\* The inductive invariant holds of every state the commands store.
THEOREM WorkspaceInvariant == Spec => []WorkspaceInv
<1>1. Init => WorkspaceInv  BY InitHolds
<1>2. WorkspaceInv /\ [Next]_vars => WorkspaceInv'  BY StepKeeps
<1> QED  BY <1>1, <1>2, PTL DEF Spec

\* A writable snapshot lives only under the lease it was handed out for, with its
\* generation, projection and base revision, and expires no later (aggregate.ts 1773-1789).
THEOREM TicketsAreFenced == Spec => []TicketsFenced
<1>1. WorkspaceInv => TicketsFenced
  <2> SUFFICES ASSUME WorkspaceInv, NEW t \in DOMAIN tickets, tickets[t] # None,
                      tickets[t].mode = "read_write"
               PROVE  /\ activeWriteLease # None
                      /\ TicketOfLease(tickets[t])
                      /\ tickets[t].revision = activeWriteLease.base
                      /\ tickets[t].expires <= activeWriteLease.expires
                      /\ tickets[t].issued < tickets[t].expires
    BY Zenon DEF TicketsFenced
  <2>1. t \in TicketIds  BY DEF WorkspaceInv, TypeOK
  <2>2. TicketOK(tickets[t], activeWriteLease, now)  BY Zenon, <2>1 DEF WorkspaceInv, Stage, TicketsOK
  <2> QED  BY Zenon, <2>2 DEF TicketOK, TicketOfLease
<1> QED  BY <1>1, WorkspaceInvariant, PTL

\* Every revision is made from a snapshot of the one before it and under a newer lease, and
\* an invocation commits once, as its ledger and its history say (aggregate.ts 2994-3130).
THEOREM CommitsAreSound == Spec => []CommitsSound
<1>1. WorkspaceInv => NoLostUpdate
  BY Zenon DEF WorkspaceInv, Stage, RevisionsOK, LeaseOK, NoLostUpdate
<1>2. WorkspaceInv => CommitsOnce
  <2> SUFFICES ASSUME WorkspaceInv PROVE CommitsOnce  OBVIOUS
  <2>1. DOMAIN ledger = Invocations  BY DEF WorkspaceInv, TypeOK
  <2>2. LedgerOK(ledger, leaseHistory, revisions)  BY DEF WorkspaceInv, Stage
  <2> QED  BY Zenon, <2>1, <2>2 DEF LedgerOK, CommitsOnce
<1>3. WorkspaceInv => CommitsSound  BY <1>1, <1>2 DEF CommitsSound
<1> QED  BY <1>3, WorkspaceInvariant, PTL

-----------------------------------------------------------------------------
(* Who is served when *)

Increasing(s) == \A j, k \in 1..Len(s) : j < k => s[j] < s[k]
=============================================================================
