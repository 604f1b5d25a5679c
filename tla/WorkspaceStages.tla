-------------------------- MODULE WorkspaceStages --------------------------
(***************************************************************************)
(* The invariant of a workspace, for any invocations, lifetimes, clock and *)
(* length of the queue, and the parts its commands are made of.  The       *)
(* invariant is stated over a history h, a queue q, a lease l and tickets  *)
(* ts, because a command passes through states that are never stored: a    *)
(* lapsed lease is ended, then heads of the queue are dropped, then the    *)
(* request is answered.  Each of these parts keeps the invariant.          *)
(***************************************************************************)
EXTENDS Workspace, SequenceTheorems, TLAPS

\* An invocation waits once, as its history says, and one that is said to wait does
QueueOK(h, q) ==
  /\ \A k, m \in 1..Len(q) : q[k].inv = q[m].inv => k = m
  /\ \A k \in 1..Len(q) :
       /\ h[q[k].inv] # None
       /\ h[q[k].inv] = EntryRecord(q[k], h[q[k].inv].generation,
                                    IF q[k].canceled THEN "canceled" ELSE "queued")
  /\ \A i \in Invocations : h[i] # None /\ h[i].status = "queued" => Queued(q, i)

\* The holder of the lease does not wait, and the history knows the holder
HolderOK(h, q, l) ==
  /\ l # None => h[l.inv] = LeaseRecord(l, "active") /\ ~Queued(q, l.inv)
  /\ \A i \in Invocations : h[i] # None /\ h[i].status = "active" => l # None /\ l.inv = i

\* A lease is of the latest revision, newer than all that were granted before, and bounded
LeaseOK(l, rev, g, w) ==
  l # None =>
    /\ l.base = Len(rev) /\ l.generation < g
    /\ \A r \in 1..Len(rev) : rev[r].generation < l.generation
    /\ l.issued <= w /\ l.issued < l.expires
    /\ l.expires <= l.holdUntil /\ l.expires <= l.authority.expires

\* A write ticket is of the lease
TicketOK(x, l, w) ==
  /\ l # None
  /\ x.leaseId = l.leaseId /\ x.leaseGeneration = l.generation /\ x.inv = l.inv
  /\ SameAuthority(x.authority, l.authority) /\ x.projection = l.projection
  /\ x.revision = l.base /\ x.expires <= l.expires /\ x.issued < x.expires /\ x.issued <= w

TicketsOK(ts, l, w) ==
  \A t \in TicketIds : ts[t] # None /\ ts[t].mode = "read_write" => TicketOK(ts[t], l, w)

\* The revisions are a chain, each made under a newer lease than the one before
RevisionsOK(rev, g) ==
  /\ \A r \in 1..Len(rev) : rev[r].from = r - 1 /\ rev[r].generation < g
  /\ \A r \in 2..Len(rev) : rev[r - 1].generation < rev[r].generation

\* The ledger and the revisions agree, and with them the history
LedgerOK(led, h, rev) ==
  /\ \A i \in Invocations : led[i] # None =>
       /\ led[i].revision \in 1..Len(rev) /\ rev[led[i].revision].inv = i
       /\ led[i].base = led[i].revision - 1
       /\ h[i] # None /\ h[i].status = "committed"
       /\ h[i].attempt = led[i].attempt /\ h[i].generation = led[i].generation
  /\ \A r \in 1..Len(rev) : led[rev[r].inv] # None /\ led[rev[r].inv].revision = r
  /\ \A i \in Invocations : h[i] # None /\ h[i].status = "committed" => led[i] # None

\* Revisions, then the lease, then the queue are in the order of their enqueue sequence
ServedOK(rev, s) ==
  \A r \in 1..Len(rev) : rev[r].seq < s

OrderOK(rev, l, q, s) ==
  /\ \A r, m \in 1..Len(rev) : r < m => rev[r].seq < rev[m].seq
  /\ ServedOK(rev, s)
  /\ l # None => /\ ServedOK(rev, l.seq) /\ l.seq < s
                 /\ \A k \in 1..Len(q) : l.seq < q[k].seq
  /\ \A k \in 1..Len(q) : ServedOK(rev, q[k].seq) /\ q[k].seq < s
  /\ \A k, m \in 1..Len(q) : k < m => q[k].seq < q[m].seq

Typed(h, q, l, ts) ==
  /\ h \in [Invocations -> History \cup {None}]
  /\ q \in Seq(Entry)
  /\ l \in Lease \cup {None}
  /\ ts \in [TicketIds -> Ticket \cup {None}]

\* What changes while a command ends leases and drops heads; the counters and the clock
\* are as they are stored
Stage(h, q, l, ts, rev, led) ==
  /\ Typed(h, q, l, ts)
  /\ QueueOK(h, q) /\ HolderOK(h, q, l)
  /\ LeaseOK(l, rev, nextLeaseGeneration, now)
  /\ TicketsOK(ts, l, now)
  /\ LedgerOK(led, h, rev)
  /\ OrderOK(rev, l, q, nextEnqueueSequence)

WorkspaceInv ==
  /\ TypeOK
  /\ Stage(leaseHistory, writeQueue, activeWriteLease, tickets, revisions, ledger)
  /\ RevisionsOK(revisions, nextLeaseGeneration)

-----------------------------------------------------------------------------
(* Records and queues *)

\* The records a handler writes into the history are history records.
LEMMA EntryRecordTyped ==
  ASSUME NEW e \in Entry, NEW g \in Nat, NEW status \in Statuses
  PROVE  EntryRecord(e, g, status) \in History /\ EntryRecord(e, g, status) # None
<1>1. EntryRecord(e, g, status) \in History
  BY DEF EntryRecord, Entry, Authority, History
<1> QED  BY <1>1, NoneAssumption

\* So is the record of a lease, whose status is the one it ended or runs with.
LEMMA LeaseRecordTyped ==
  ASSUME NEW l \in Lease, NEW status \in Statuses
  PROVE  /\ LeaseRecord(l, status) \in History /\ LeaseRecord(l, status) # None
         /\ LeaseRecord(l, status).status = status
<1>1. LeaseRecord(l, status) \in History
  BY DEF LeaseRecord, Lease, Authority, History
<1> QED  BY <1>1, NoneAssumption DEF LeaseRecord

\* The latest lease generation of an invocation is a number.
LEMMA LatestTyped ==
  ASSUME NEW h \in [Invocations -> History \cup {None}], NEW i \in Invocations
  PROVE  LatestGeneration(h[i]) \in Nat
BY DEF LatestGeneration, History

\* What is left of a queue when its first n entries are dropped.
LEMMA RestProperties ==
  ASSUME NEW q \in Seq(Entry), NEW n \in 0..Len(q)
  PROVE  /\ Rest(q, n) \in Seq(Entry) /\ Len(Rest(q, n)) = Len(q) - n
         /\ \A k \in 1..Len(q) - n : Rest(q, n)[k] = q[n + k] /\ n + k \in 1..Len(q)
<1>1. Len(q) \in Nat /\ n \in Nat /\ n <= Len(q)  BY LenProperties
<1>2. \A k \in n + 1..Len(q) : q[k] \in Entry  BY <1>1, ElementOfSeq
<1>3. /\ Rest(q, n) \in Seq(Entry)
      /\ Len(Rest(q, n)) = IF n + 1 <= Len(q) THEN Len(q) - (n + 1) + 1 ELSE 0
      /\ \A k \in 1..Len(q) - (n + 1) + 1 : Rest(q, n)[k] = q[(n + 1) + k - 1]
  BY <1>1, <1>2, SubSeqProperties DEF Rest
<1>4. Len(Rest(q, n)) = Len(q) - n  BY <1>1, <1>3
<1>5. ASSUME NEW k \in 1..Len(q) - n
      PROVE  Rest(q, n)[k] = q[n + k] /\ n + k \in 1..Len(q)
  <2>1. k \in 1..Len(q) - (n + 1) + 1 /\ (n + 1) + k - 1 = n + k /\ n + k \in 1..Len(q)
    BY <1>1
  <2> QED  BY <2>1, <1>3
<1> QED  BY <1>3, <1>4, <1>5

\* An entry of a queue is an entry, of an invocation.
LEMMA EntryTyped ==
  ASSUME NEW q \in Seq(Entry), NEW k \in 1..Len(q)
  PROVE  q[k] \in Entry /\ q[k].inv \in Invocations
<1>1. q[k] \in Entry  BY ElementOfSeq
<1> QED  BY <1>1 DEF Entry

\* The counters of a revision are numbers.
LEMMA RevisionTyped ==
  ASSUME NEW rev \in Seq(Revision)
  PROVE  \A r \in 1..Len(rev) :
           rev[r] \in Revision /\ rev[r].generation \in Nat /\ rev[r].seq \in Nat
<1> SUFFICES ASSUME NEW r \in 1..Len(rev)
             PROVE  rev[r] \in Revision /\ rev[r].generation \in Nat /\ rev[r].seq \in Nat
  OBVIOUS
<1>1. rev[r] \in Revision  BY ElementOfSeq
<1> QED  BY <1>1 DEF Revision

\* The history of the ledger
Done(h, i) == h[i] # None /\ h[i].status = "committed"

\* The ledger agrees with any history that tells the same of the invocations that are done.
LEMMA LedgerKept ==
  ASSUME NEW h, NEW g, NEW led, NEW rev, LedgerOK(led, h, rev),
         \A i \in Invocations : g[i] = h[i] \/ (~Done(h, i) /\ ~Done(g, i))
  PROVE  LedgerOK(led, g, rev)
BY DEF LedgerOK, Done

\* h and g tell the same of who was admitted, and with which attempt
SameAdmissions(h, g) ==
  \A i \in Invocations :
    /\ h[i] = None <=> g[i] = None
    /\ h[i] # None => g[i].attempt = h[i].attempt /\ g[i].seq = h[i].seq

\* Two parts of a command that admit nobody admit nobody together.
LEMMA SameTransitive ==
  ASSUME NEW h, NEW g, NEW f, SameAdmissions(h, g), SameAdmissions(g, f)
  PROVE  SameAdmissions(h, f)
BY DEF SameAdmissions

-----------------------------------------------------------------------------
(* The advance of the queue *)

\* A dropped invocation is told why; the others keep their record.
LEMMA ReapedProperties ==
  ASSUME NEW h \in [Invocations -> History \cup {None}], NEW q \in Seq(Entry), NEW n \in 0..Len(q)
  PROVE  /\ ReapedHistory(h, q, n) \in [Invocations -> History \cup {None}]
         /\ \A i \in Invocations :
              \/ /\ \A k \in 1..n : q[k].inv # i
                 /\ ReapedHistory(h, q, n)[i] = h[i]
              \/ /\ \E k \in 1..n : q[k].inv = i
                 /\ ReapedHistory(h, q, n)[i] # None
                 /\ ReapedHistory(h, q, n)[i].status \in {"canceled", "timed_out", "admission_expired"}
<1> DEFINE g == ReapedHistory(h, q, n)
<1>1. n \in Nat /\ Len(q) \in Nat /\ n <= Len(q)  BY LenProperties
<1>2. ASSUME NEW i \in Invocations, \A k \in 1..n : q[k].inv # i
      PROVE  g[i] = h[i]
  BY <1>2 DEF ReapedHistory
<1>3. ASSUME NEW i \in Invocations, \E k \in 1..n : q[k].inv = i
      PROVE  /\ g[i] \in History /\ g[i] # None
             /\ g[i].status \in {"canceled", "timed_out", "admission_expired"}
  <2> DEFINE m == CHOOSE k \in 1..n : q[k].inv = i
  <2>1. m \in 1..n  BY <1>3
  <2>2. g[i] = EntryRecord(q[m], LatestGeneration(h[i]), ReapStatus(q[m]))
    BY <1>3 DEF ReapedHistory
  <2>3. q[m] \in Entry  BY <1>1, <2>1, EntryTyped
  <2> HIDE DEF m, g
  <2>4. ReapStatus(q[m]) \in {"canceled", "timed_out", "admission_expired"}  BY DEF ReapStatus
  <2>5. LatestGeneration(h[i]) \in Nat  BY LatestTyped
  <2>6. g[i] \in History /\ g[i] # None
    BY <2>2, <2>3, <2>4, <2>5, EntryRecordTyped DEF Statuses
  <2>7. g[i].status = ReapStatus(q[m])  BY <2>2 DEF EntryRecord
  <2> QED  BY <2>4, <2>6, <2>7
<1>4. g \in [Invocations -> History \cup {None}]
  <2>1. \A i \in Invocations : g[i] \in History \cup {None}  BY <1>2, <1>3
  <2>2. g = [i \in Invocations |-> g[i]]  BY DEF ReapedHistory
  <2> HIDE DEF g
  <2> QED  BY <2>1, <2>2
<1> HIDE DEF g
<1>5. \A i \in Invocations :
        \/ (\A k \in 1..n : q[k].inv # i) /\ g[i] = h[i]
        \/ /\ \E k \in 1..n : q[k].inv = i
           /\ g[i] # None /\ g[i].status \in {"canceled", "timed_out", "admission_expired"}
  BY <1>2, <1>3
<1> QED  BY <1>4, <1>5 DEF g

\* Dropping heads keeps the invariant.
LEMMA AdvanceStage ==
  ASSUME NEW h, NEW q, NEW l, NEW ts, NEW rev, NEW led, Stage(h, q, l, ts, rev, led),
         NEW n \in 0..Len(q)
  PROVE  Stage(ReapedHistory(h, q, n), Rest(q, n), l, ts, rev, led)
<1> DEFINE g == ReapedHistory(h, q, n)
           p == Rest(q, n)
<1>1. h \in [Invocations -> History \cup {None}] /\ q \in Seq(Entry)  BY DEF Stage, Typed
<1>2. n \in Nat /\ Len(q) \in Nat /\ n <= Len(q)  BY <1>1, LenProperties
<1>3. /\ p \in Seq(Entry) /\ Len(p) = Len(q) - n
      /\ \A k \in 1..Len(q) - n : p[k] = q[n + k] /\ n + k \in 1..Len(q)
  BY <1>1, RestProperties
<1>4. /\ g \in [Invocations -> History \cup {None}]
      /\ \A i \in Invocations :
           \/ (\A k \in 1..n : q[k].inv # i) /\ g[i] = h[i]
           \/ /\ \E k \in 1..n : q[k].inv = i
              /\ g[i] # None /\ g[i].status \in {"canceled", "timed_out", "admission_expired"}
  BY <1>1, ReapedProperties
<1> HIDE DEF g, p
<1>5. /\ \A k, m \in 1..Len(q) : q[k].inv = q[m].inv => k = m
      /\ \A k \in 1..Len(q) : q[k].inv \in Invocations
  BY <1>1, EntryTyped DEF Stage, QueueOK
<1>6. ASSUME NEW k \in 1..Len(p)
      PROVE  /\ p[k] = q[n + k] /\ n + k \in 1..Len(q)
             /\ p[k].inv \in Invocations /\ g[p[k].inv] = h[p[k].inv]
  <2>1. p[k] = q[n + k] /\ n + k \in 1..Len(q) /\ k >= 1  BY <1>3
  <2>2. \A m \in 1..n : m \in 1..Len(q) /\ m # n + k  BY <1>2, <2>1
  <2>3. \A m \in 1..n : q[m].inv # q[n + k].inv  BY <1>5, <2>1, <2>2
  <2>4. q[n + k].inv \in Invocations  BY <1>5, <2>1
  <2>5. g[q[n + k].inv] = h[q[n + k].inv]  BY <1>4, <2>3, <2>4
  <2> QED  BY <2>1, <2>4, <2>5
<1>7. QueueOK(g, p)
  <2>1. \A k, m \in 1..Len(p) : p[k].inv = p[m].inv => k = m
    <3> SUFFICES ASSUME NEW k \in 1..Len(p), NEW m \in 1..Len(p), p[k].inv = p[m].inv PROVE k = m
      OBVIOUS
    <3>1. n + k = n + m  BY SMTT(30), <1>5, <1>6
    <3> QED  BY <3>1, <1>2, <1>3
  <2>2. ASSUME NEW k \in 1..Len(p)
        PROVE  /\ g[p[k].inv] # None
               /\ g[p[k].inv] = EntryRecord(p[k], g[p[k].inv].generation,
                                            IF p[k].canceled THEN "canceled" ELSE "queued")
    <3> DEFINE e == q[n + k]
    <3>1. p[k] = e /\ n + k \in 1..Len(q) /\ g[e.inv] = h[e.inv]  BY <1>6
    <3>2. /\ h[e.inv] # None
          /\ h[e.inv] = EntryRecord(e, h[e.inv].generation,
                                    IF e.canceled THEN "canceled" ELSE "queued")
      BY <3>1 DEF Stage, QueueOK
    <3> HIDE DEF e
    <3> QED  BY <3>1, <3>2
  <2>3. ASSUME NEW i \in Invocations, g[i] # None, g[i].status = "queued"
        PROVE  Queued(p, i)
    <3>1. (\A k \in 1..n : q[k].inv # i) /\ g[i] = h[i]  BY <1>4, <2>3
    <3>2. PICK k \in 1..Len(q) : q[k].inv = i  BY <2>3, <3>1 DEF Stage, QueueOK, Queued
    <3>3. k - n \in 1..Len(q) - n /\ n + (k - n) = k  BY <1>2, <3>1, <3>2
    <3>4. k - n \in 1..Len(p) /\ p[k - n].inv = i  BY <1>3, <3>2, <3>3
    <3> QED  BY <3>4 DEF Queued
  <2> QED  BY <2>1, <2>2, <2>3 DEF QueueOK
<1>8. HolderOK(g, p, l)
  <2>1. ASSUME l # None
        PROVE  g[l.inv] = LeaseRecord(l, "active") /\ ~Queued(p, l.inv)
    <3>1. l.inv \in Invocations  BY <2>1 DEF Stage, Typed, Lease
    <3>2. h[l.inv] = LeaseRecord(l, "active") /\ \A k \in 1..Len(q) : q[k].inv # l.inv
      BY <2>1 DEF Stage, HolderOK, Queued
    <3>3. g[l.inv] = h[l.inv]  BY <1>2, <1>4, <3>1, <3>2
    <3>4. ~Queued(p, l.inv)  BY <1>6, <3>2 DEF Queued
    <3> QED  BY <3>2, <3>3, <3>4
  <2>2. ASSUME NEW i \in Invocations, g[i] # None, g[i].status = "active"
        PROVE  l # None /\ l.inv = i
    <3>1. g[i] = h[i]  BY <1>4, <2>2
    <3> QED  BY <2>2, <3>1 DEF Stage, HolderOK
  <2> QED  BY <2>1, <2>2 DEF HolderOK
<1>9. LedgerOK(led, g, rev)
  <2>1. ASSUME NEW i \in Invocations
        PROVE  g[i] = h[i] \/ (~Done(h, i) /\ ~Done(g, i))
    <3>1. CASE \E k \in 1..n : q[k].inv = i
      <4>1. PICK k \in 1..n : q[k].inv = i  BY <3>1
      <4>2. k \in 1..Len(q)  BY <1>2
      <4>3. h[i].status \in {"canceled", "queued"}
        <5> DEFINE st == IF q[k].canceled THEN "canceled" ELSE "queued"
        <5>1. h[i] = EntryRecord(q[k], h[i].generation, st)
          BY <4>1, <4>2 DEF Stage, QueueOK
        <5>2. st \in {"canceled", "queued"}  OBVIOUS
        <5> HIDE DEF st
        <5> QED  BY <5>1, <5>2 DEF EntryRecord
      <4>4. g[i].status \in {"canceled", "timed_out", "admission_expired"}  BY <1>4, <3>1
      <4> QED  BY <4>3, <4>4 DEF Done
    <3> QED  BY <1>4, <3>1
  <2>2. LedgerOK(led, h, rev)  BY DEF Stage
  <2> QED  BY <2>1, <2>2, LedgerKept
<1>10. OrderOK(rev, l, p, nextEnqueueSequence)
  <2>1. OrderOK(rev, l, q, nextEnqueueSequence)  BY DEF Stage
  <2>2. \A k, m \in 1..Len(p) : k < m => p[k].seq < p[m].seq
    <3> SUFFICES ASSUME NEW k \in 1..Len(p), NEW m \in 1..Len(p), k < m PROVE p[k].seq < p[m].seq
      OBVIOUS
    <3>1. n + k < n + m  BY <1>2, <1>3
    <3> QED  BY Zenon, <1>6, <2>1, <3>1 DEF OrderOK
  <2>3. \A k \in 1..Len(p) : ServedOK(rev, p[k].seq) /\ p[k].seq < nextEnqueueSequence
    BY Zenon, <1>6, <2>1 DEF OrderOK
  <2>4. l # None => \A k \in 1..Len(p) : l.seq < p[k].seq  BY <1>6, <2>1 DEF OrderOK
  <2> QED  BY <2>1, <2>2, <2>3, <2>4 DEF OrderOK
<1>11. Typed(g, p, l, ts)  BY <1>3, <1>4 DEF Stage, Typed
<1>12. Stage(g, p, l, ts, rev, led)
  BY <1>7, <1>8, <1>9, <1>10, <1>11 DEF Stage
<1> QED  BY <1>12 DEF g, p

\* A lease that ends takes its write tickets with it, and nobody holds or waits for more.
LEMMA EndParts ==
  ASSUME NEW h, NEW q, NEW l, NEW ts, NEW rev, NEW led, Stage(h, q, l, ts, rev, led),
         l # None, NEW status \in {"expired", "released", "committed"},
         NEW g, g = [h EXCEPT ![l.inv] = LeaseRecord(l, status)],
         NEW us, us = DropWriteTickets(ts, l.leaseId)
  PROVE  /\ Typed(g, q, None, us) /\ QueueOK(g, q) /\ HolderOK(g, q, None)
         /\ LeaseOK(None, rev, nextLeaseGeneration, now) /\ TicketsOK(us, None, now)
         /\ l.inv \in Invocations /\ g[l.inv] = LeaseRecord(l, status)
         /\ g[l.inv] # None /\ g[l.inv].status = status
         /\ h[l.inv] # None /\ h[l.inv].status = "active"
         /\ \A i \in Invocations \ {l.inv} : g[i] = h[i]
<1>1. /\ h \in [Invocations -> History \cup {None}] /\ q \in Seq(Entry) /\ l \in Lease
      /\ ts \in [TicketIds -> Ticket \cup {None}]
  BY DEF Stage, Typed
<1>2. l.inv \in Invocations  BY <1>1 DEF Lease
<1>3. /\ LeaseRecord(l, status) \in History /\ LeaseRecord(l, status) # None
      /\ LeaseRecord(l, status).status = status
  BY <1>1, LeaseRecordTyped DEF Statuses
<1>4. /\ g \in [Invocations -> History \cup {None}] /\ g[l.inv] = LeaseRecord(l, status)
      /\ \A i \in Invocations \ {l.inv} : g[i] = h[i]
  BY <1>1, <1>2, <1>3
<1>5. /\ us \in [TicketIds -> Ticket \cup {None}]
      /\ \A t \in TicketIds : us[t] = None \/ us[t].mode # "read_write"
  <2>1. \A t \in TicketIds : ts[t] # None /\ ts[t].mode = "read_write" => ts[t].leaseId = l.leaseId
    BY DEF Stage, TicketsOK, TicketOK
  <2> QED  BY <1>1, <2>1 DEF DropWriteTickets
<1>6. \A k \in 1..Len(q) : q[k].inv \in Invocations \ {l.inv}
  BY <1>1, EntryTyped DEF Stage, HolderOK, Queued
<1>7. QueueOK(g, q)
  <2>1. \A k, m \in 1..Len(q) : q[k].inv = q[m].inv => k = m  BY Zenon DEF Stage, QueueOK
  <2>2. ASSUME NEW k \in 1..Len(q)
        PROVE  /\ g[q[k].inv] # None
               /\ g[q[k].inv] = EntryRecord(q[k], g[q[k].inv].generation,
                                            IF q[k].canceled THEN "canceled" ELSE "queued")
    <3>1. g[q[k].inv] = h[q[k].inv]  BY Zenon, <1>4, <1>6
    <3> QED  BY Zenon, <3>1 DEF Stage, QueueOK
  <2>3. ASSUME NEW i \in Invocations, g[i] # None, g[i].status = "queued"
        PROVE  Queued(q, i)
    BY <1>3, <1>4, <2>3 DEF Stage, QueueOK
  <2> QED  BY Zenon, <2>1, <2>2, <2>3 DEF QueueOK
<1>8. HolderOK(g, q, None)  BY <1>3, <1>4 DEF Stage, HolderOK
<1>9. h[l.inv] # None /\ h[l.inv].status = "active"
  <2>1. h[l.inv] = LeaseRecord(l, "active")  BY DEF Stage, HolderOK
  <2> QED  BY <1>1, <2>1, LeaseRecordTyped DEF Statuses
<1>10. LeaseOK(None, rev, nextLeaseGeneration, now) /\ TicketsOK(us, None, now)
  BY <1>5 DEF LeaseOK, TicketsOK
<1>11. Typed(g, q, None, us)  BY <1>1, <1>4, <1>5 DEF Typed
<1> QED  BY <1>2, <1>3, <1>4, <1>7, <1>8, <1>9, <1>10, <1>11

\* A lease that ends without a commit.
LEMMA EndStage ==
  ASSUME NEW h, NEW q, NEW l, NEW ts, NEW rev, NEW led, Stage(h, q, l, ts, rev, led),
         l # None, NEW status \in {"expired", "released"}
  PROVE  Stage([h EXCEPT ![l.inv] = LeaseRecord(l, status)], q, None,
               DropWriteTickets(ts, l.leaseId), rev, led)
<1> DEFINE g == [h EXCEPT ![l.inv] = LeaseRecord(l, status)]
           us == DropWriteTickets(ts, l.leaseId)
<1>1. /\ Typed(g, q, None, us) /\ QueueOK(g, q) /\ HolderOK(g, q, None)
      /\ LeaseOK(None, rev, nextLeaseGeneration, now) /\ TicketsOK(us, None, now)
      /\ g[l.inv].status = status /\ h[l.inv].status = "active"
      /\ \A i \in Invocations \ {l.inv} : g[i] = h[i]
  BY EndParts
<1> HIDE DEF g, us
<1>2. LedgerOK(led, g, rev)
  <2>1. \A i \in Invocations : g[i] = h[i] \/ (~Done(h, i) /\ ~Done(g, i))
    BY <1>1 DEF Done
  <2>2. LedgerOK(led, h, rev)  BY Zenon DEF Stage
  <2> QED  BY Zenon, <2>1, <2>2, LedgerKept
<1>3. OrderOK(rev, None, q, nextEnqueueSequence)  BY Zenon DEF Stage, OrderOK
<1>4. Stage(g, q, None, us, rev, led)  BY <1>1, <1>2, <1>3 DEF Stage
<1> QED  BY Zenon, <1>4 DEF g, us

\* A command that advances goes on with the lease if it is live, and with none otherwise.
LEMMA ExpiredLeaseIs ==
  ASSUME WorkspaceInv
  PROVE  /\ LeaseLapsed <=> activeWriteLease # None /\ ~LeaseLive
         /\ ExpiredLease = IF LeaseLive THEN activeWriteLease ELSE None
<1>1. activeWriteLease # None => activeWriteLease.expires \in Nat
  BY DEF WorkspaceInv, TypeOK, Lease
<1>2. now \in Nat  BY WorkspaceAssumption DEF WorkspaceInv, TypeOK, Time
<1> QED  BY <1>1, <1>2 DEF ExpiredLease, LeaseLapsed, LeaseLive

\* advanceLeaseQueue as a whole: a lapsed lease is ended and n heads are dropped.
LEMMA Advanced ==
  ASSUME WorkspaceInv, NEW n \in 0..Len(writeQueue)
  PROVE  Stage(ReapedHistory(ExpiredHistory, writeQueue, n), Rest(writeQueue, n), ExpiredLease,
               ExpiredTickets, revisions, ledger)
<1>1. Stage(leaseHistory, writeQueue, activeWriteLease, tickets, revisions, ledger)
  BY DEF WorkspaceInv
<1>2. Stage(ExpiredHistory, writeQueue, ExpiredLease, ExpiredTickets, revisions, ledger)
  <2>1. CASE LeaseLapsed
    <3>1. activeWriteLease # None  BY <2>1 DEF LeaseLapsed
    <3> QED  BY Zenon, <1>1, <2>1, <3>1, EndStage DEF ExpiredHistory, ExpiredLease, ExpiredTickets
  <2>2. CASE ~LeaseLapsed
    BY <1>1, <2>2 DEF ExpiredHistory, ExpiredLease, ExpiredTickets
  <2> QED  BY <2>1, <2>2
<1> QED  BY <1>2, AdvanceStage

-----------------------------------------------------------------------------
(* What each command stores *)

\* A command that only ends leases and drops heads stores a state with the invariant.
LEMMA Stored ==
  ASSUME WorkspaceInv,
         Stage(leaseHistory', writeQueue', activeWriteLease', tickets', revisions, ledger),
         UNCHANGED <<now, revisions, ledger, nextLeaseGeneration, nextEnqueueSequence>>,
         leaseConflicts' \in SUBSET Conflict, knownLeaseIds' \in SUBSET LeaseIds,
         knownTicketIds' \in SUBSET TicketIds
  PROVE  WorkspaceInv'
<1>1. TypeOK'  BY DEF WorkspaceInv, TypeOK, Stage, Typed
<1>2. Stage(leaseHistory, writeQueue, activeWriteLease, tickets, revisions, ledger)'
  BY DEF Stage
<1>3. RevisionsOK(revisions, nextLeaseGeneration)'  BY DEF WorkspaceInv
<1> QED  BY <1>1, <1>2, <1>3 DEF WorkspaceInv

\* A granted lease is a lease of the latest revision, within its bounds.
LEMMA GrantedLease ==
  ASSUME WorkspaceInv, NEW e \in Entry, Live(e.authority)
  PROVE  /\ Granted(e, now) \in Lease /\ Granted(e, now) # None
         /\ Granted(e, now).inv = e.inv /\ Granted(e, now).seq = e.seq
         /\ LeaseOK(Granted(e, now), revisions, nextLeaseGeneration + 1, now)
<1> DEFINE l == Granted(e, now)
<1>1. /\ now \in Nat /\ now \in Time /\ nextLeaseGeneration \in Nat \ {0}
      /\ revisions \in Seq(Revision) /\ Len(revisions) \in Nat
  BY LenProperties, WorkspaceAssumption DEF WorkspaceInv, TypeOK, Time
<1>2. /\ e.ttl \in Nat \ {0} /\ e.hold \in Nat \ {0} /\ e.authority \in Authority
      /\ e.authority.expires \in Nat /\ now < e.authority.expires /\ e.seq \in Nat
  <2>1. e.ttl \in Ttls /\ e.hold \in Holds /\ e.authority \in Authority /\ e.seq \in Nat
    BY DEF Entry
  <2>2. e.authority.expires \in Moment  BY <2>1 DEF Authority
  <2>3. e.ttl \in Nat \ {0} /\ e.hold \in Nat \ {0}  BY Zenon, <2>1, WorkspaceAssumption
  <2>4. e.authority.expires \in Nat  BY <2>2, WorkspaceAssumption DEF Moment
  <2>5. now < e.authority.expires  BY DEF Live
  <2> QED  BY <2>1, <2>3, <2>4, <2>5
<1> DEFINE first == Least(now + e.ttl, now + e.hold)
           until == Least(first, e.authority.expires)
<1>a. first \in Nat /\ now < first /\ first <= now + e.hold  BY <1>1, <1>2 DEF Least
<1> HIDE DEF first
<1>4. until \in Nat /\ now < until /\ until <= now + e.hold /\ until <= e.authority.expires
  BY SMTT(30), <1>1, <1>2, <1>a DEF Least
<1>b. /\ l.expires = until /\ l.issued = now /\ l.holdUntil = now + e.hold
      /\ l.authority = e.authority /\ l.base = Len(revisions)
      /\ l.generation = nextLeaseGeneration /\ l.inv = e.inv /\ l.seq = e.seq
  BY Zenon DEF Granted, first
<1>5. l \in Lease
  BY <1>1, <1>2, <1>4 DEF Granted, Lease, Entry, first
<1> HIDE DEF until
<1>3. /\ l.expires \in Nat /\ now < l.expires /\ l.expires <= now + e.hold
      /\ l.expires <= e.authority.expires /\ l.issued = now
      /\ l.holdUntil = now + e.hold /\ l.authority = e.authority
      /\ l.base = Len(revisions) /\ l.generation = nextLeaseGeneration
      /\ l.inv = e.inv /\ l.seq = e.seq
  BY <1>4, <1>b
<1>6. l # None  BY Zenon, <1>5, NoneAssumption
<1> HIDE DEF l
<1>7. \A r \in 1..Len(revisions) : revisions[r].generation < nextLeaseGeneration
  BY Zenon DEF WorkspaceInv, RevisionsOK
<1>8. LeaseOK(l, revisions, nextLeaseGeneration + 1, now)
  BY SMTT(30), <1>1, <1>2, <1>3, <1>7 DEF LeaseOK
<1> QED  BY <1>3, <1>5, <1>6, <1>8 DEF l

\* A grant to an invocation that has not committed, while nobody holds the lease.
LEMMA GrantStage ==
  ASSUME WorkspaceInv, NEW h, NEW q, NEW ts, Stage(h, q, None, ts, revisions, ledger),
         NEW e \in Entry, Live(e.authority), h[e.inv] # None => h[e.inv].status # "committed",
         NEW p \in Seq(Entry), ~Queued(p, e.inv), NEW l, l = Granted(e, now),
         NEW g, g = [h EXCEPT ![e.inv] = LeaseRecord(l, "active")]
  PROVE  /\ Typed(g, p, l, ts) /\ HolderOK(g, p, l)
         /\ LeaseOK(l, revisions, nextLeaseGeneration + 1, now)
         /\ TicketsOK(ts, l, now) /\ LedgerOK(ledger, g, revisions)
<1>1. /\ l \in Lease /\ l # None /\ l.inv = e.inv
      /\ LeaseOK(l, revisions, nextLeaseGeneration + 1, now)
  BY GrantedLease
<1>2. /\ h \in [Invocations -> History \cup {None}] /\ ts \in [TicketIds -> Ticket \cup {None}]
      /\ e.inv \in Invocations
  BY DEF Stage, Typed, Entry
<1>3. /\ LeaseRecord(l, "active") \in History /\ LeaseRecord(l, "active") # None
      /\ LeaseRecord(l, "active").status = "active"
  BY Zenon, <1>1, LeaseRecordTyped DEF Statuses
<1>4. /\ g \in [Invocations -> History \cup {None}] /\ g[e.inv] = LeaseRecord(l, "active")
      /\ \A i \in Invocations \ {e.inv} : g[i] = h[i]
  BY Zenon, <1>2, <1>3
<1>5. Typed(g, p, l, ts)  BY Zenon, <1>1, <1>2, <1>4 DEF Typed
<1>6. HolderOK(g, p, l)  BY Zenon, <1>1, <1>4 DEF Stage, HolderOK
<1>7. TicketsOK(ts, l, now)  BY ZenonT(30) DEF Stage, TicketsOK, TicketOK
<1>8. LedgerOK(ledger, g, revisions)
  <2>1. \A i \in Invocations : g[i] = h[i] \/ (~Done(h, i) /\ ~Done(g, i))
    BY <1>3, <1>4 DEF Done
  <2>2. LedgerOK(ledger, h, revisions)  BY DEF Stage
  <2> QED  BY ZenonT(30), <2>1, <2>2, LedgerKept
<1> QED  BY Zenon, <1>1, <1>5, <1>6, <1>7, <1>8

\* acquire_write_lease, granted at once
LEMMA GrantedKept ==
  ASSUME WorkspaceInv, NEW n \in 0..Len(writeQueue), NEW e \in Entry, AcquireGranted(e, n)
  PROVE  WorkspaceInv'
<1> DEFINE h == ReapedHistory(ExpiredHistory, writeQueue, n)
           l == Granted(e, now)
           g == [h EXCEPT ![e.inv] = LeaseRecord(l, "active")]
<1>1. Stage(h, <<>>, None, ExpiredTickets, revisions, ledger)
  <2>1. Rest(writeQueue, n) = <<>> /\ ExpiredLease = None  BY Zenon DEF AcquireGranted
  <2> QED  BY <2>1, Advanced
<1>2. /\ Live(e.authority) /\ (h[e.inv] # None => h[e.inv].status # "committed")
      /\ e.seq = nextEnqueueSequence
  BY DEF AcquireGranted, NewAdmission, Admissible
<1> HIDE DEF h
<1>3. <<>> \in Seq(Entry) /\ Len(<<>>) = 0 /\ ~Queued(<<>>, e.inv)
  BY EmptySeq DEF Queued
<1>4. /\ Typed(g, <<>>, l, ExpiredTickets) /\ HolderOK(g, <<>>, l)
      /\ LeaseOK(l, revisions, nextLeaseGeneration + 1, now)
      /\ TicketsOK(ExpiredTickets, l, now) /\ LedgerOK(ledger, g, revisions)
  BY ZenonT(30), <1>1, <1>2, <1>3, GrantStage
<1>5. l \in Lease /\ l # None /\ l.seq = nextEnqueueSequence  BY <1>2, GrantedLease
<1> HIDE DEF l
<1>6. QueueOK(g, <<>>)
  <2>1. /\ e.inv \in Invocations /\ h \in [Invocations -> History \cup {None}]
        /\ LeaseRecord(l, "active").status = "active"
    BY <1>1, <1>5, LeaseRecordTyped DEF Stage, Typed, Entry, Statuses
  <2>2. \A i \in Invocations : g[i] = IF i = e.inv THEN LeaseRecord(l, "active") ELSE h[i]
    BY Zenon, <2>1
  <2> HIDE DEF g
  <2>3. \A i \in Invocations : g[i] # None => g[i].status # "queued"
    BY <1>1, <1>3, <2>1, <2>2 DEF Stage, QueueOK, Queued
  <2> QED  BY <1>3, <2>3 DEF QueueOK
<1>7. /\ leaseHistory' = g /\ writeQueue' = <<>> /\ activeWriteLease' = l
      /\ tickets' = ExpiredTickets /\ nextLeaseGeneration' = nextLeaseGeneration + 1
      /\ nextEnqueueSequence' = nextEnqueueSequence + 1
      /\ knownLeaseIds' = knownLeaseIds \cup {e.leaseId}
      /\ UNCHANGED <<now, revisions, leaseConflicts, knownTicketIds, ledger>>
  BY DEF AcquireGranted, h, l
<1> HIDE DEF g
<1>8. OrderOK(revisions, l, <<>>, nextEnqueueSequence + 1)
  <2>1. nextEnqueueSequence \in Nat  BY Zenon DEF WorkspaceInv, TypeOK
  <2>2. /\ \A r, m \in 1..Len(revisions) : r < m => revisions[r].seq < revisions[m].seq
        /\ ServedOK(revisions, nextEnqueueSequence)
    BY <1>1 DEF Stage, OrderOK
  <2>3. \A r \in 1..Len(revisions) : revisions[r] \in Revision /\ revisions[r].seq \in Nat
    BY Zenon, RevisionTyped DEF WorkspaceInv, TypeOK
  <2>4. ServedOK(revisions, nextEnqueueSequence + 1)  BY SMTT(30), <2>1, <2>2, <2>3 DEF ServedOK
  <2> QED  BY <1>3, <1>5, <2>1, <2>2, <2>4 DEF OrderOK
<1>9. TypeOK'
  <2>1. knownLeaseIds \cup {e.leaseId} \in SUBSET LeaseIds
    BY DEF WorkspaceInv, TypeOK, Entry
  <2>2. nextLeaseGeneration + 1 \in Nat \ {0} /\ nextEnqueueSequence + 1 \in Nat
    BY DEF WorkspaceInv, TypeOK
  <2> QED  BY <1>3, <1>4, <1>7, <2>1, <2>2 DEF WorkspaceInv, TypeOK, Typed
<1>10. Stage(leaseHistory, writeQueue, activeWriteLease, tickets, revisions, ledger)'
  BY <1>4, <1>6, <1>7, <1>8 DEF Stage
<1>11. RevisionsOK(revisions, nextLeaseGeneration)'
  <2>1. nextLeaseGeneration \in Nat  BY DEF WorkspaceInv, TypeOK
  <2>2. \A r \in 1..Len(revisions) : revisions[r] \in Revision /\ revisions[r].generation \in Nat
    BY Zenon, RevisionTyped DEF WorkspaceInv, TypeOK
  <2>3. RevisionsOK(revisions, nextLeaseGeneration + 1)
    BY <2>1, <2>2 DEF WorkspaceInv, RevisionsOK
  <2> QED  BY <1>7, <2>3
<1> QED  BY <1>9, <1>10, <1>11 DEF WorkspaceInv

\* A request that takes the next enqueue sequence is in order at the end of the queue.
LEMMA OrderAppended ==
  ASSUME NEW rev \in Seq(Revision), NEW l \in Lease \cup {None}, NEW q \in Seq(Entry),
         NEW e \in Entry, NEW s \in Nat, e.seq = s, OrderOK(rev, l, q, s)
  PROVE  OrderOK(rev, l, Append(q, e), s + 1)
<1> DEFINE p == Append(q, e)
           N == Len(q)
<1>1. /\ N \in Nat /\ Len(p) = N + 1 /\ p[N + 1] = e /\ \A k \in 1..N : p[k] = q[k]
  BY LenProperties, AppendProperties
<1> HIDE DEF p, N
<1>2. \A k \in 1..Len(p) : k \in 1..N \/ k = N + 1  BY <1>1
<1>3. \A r \in 1..Len(rev) : rev[r].seq \in Nat  BY Zenon, RevisionTyped
<1>4. \A k \in 1..N : q[k].seq \in Nat
  <2> SUFFICES ASSUME NEW k \in 1..N PROVE q[k].seq \in Nat  OBVIOUS
  <2>1. q[k] \in Entry  BY Zenon, EntryTyped DEF N
  <2> QED  BY Zenon, <2>1 DEF Entry
<1>5. l # None => l.seq \in Nat  BY Zenon DEF Lease
<1>6. \A x \in Nat : x < s => x < s + 1  OBVIOUS
<1>7. s < s + 1  OBVIOUS
<1>8. /\ \A r, m \in 1..Len(rev) : r < m => rev[r].seq < rev[m].seq
      /\ ServedOK(rev, s)
      /\ l # None => /\ ServedOK(rev, l.seq) /\ l.seq < s
                     /\ \A k \in 1..N : l.seq < q[k].seq
      /\ \A k \in 1..N : ServedOK(rev, q[k].seq) /\ q[k].seq < s
      /\ \A k, m \in 1..N : k < m => q[k].seq < q[m].seq
  BY Zenon DEF OrderOK, N
<1>9. ServedOK(rev, s + 1)  BY Zenon, <1>3, <1>6, <1>8 DEF ServedOK
<1>10. l # None => /\ ServedOK(rev, l.seq) /\ l.seq < s + 1
                   /\ \A k \in 1..Len(p) : l.seq < p[k].seq
  BY Zenon, <1>1, <1>2, <1>5, <1>6, <1>8
<1>11. \A k \in 1..Len(p) : ServedOK(rev, p[k].seq) /\ p[k].seq < s + 1
  BY Zenon, <1>1, <1>2, <1>4, <1>6, <1>7, <1>8
<1>12. ASSUME NEW k \in 1..Len(p), NEW m \in 1..Len(p), k < m
       PROVE  p[k].seq < p[m].seq
  <2>1. k \in 1..N  BY <1>1, <1>12
  <2>2. CASE m = N + 1  BY Zenon, <1>1, <1>8, <2>1, <2>2
  <2>3. CASE m \in 1..N  BY Zenon, <1>1, <1>8, <1>12, <2>1, <2>3
  <2> QED  BY Zenon, <1>2, <2>2, <2>3
<1>13. OrderOK(rev, l, p, s + 1)  BY Zenon, <1>8, <1>9, <1>10, <1>11, <1>12 DEF OrderOK
<1> QED  BY <1>13 DEF p

\* acquire_write_lease with wait policy "queue"
LEMMA EnqueuedKept ==
  ASSUME WorkspaceInv, NEW n \in 0..Len(writeQueue), NEW e \in Entry, AcquireEnqueued(e, n)
  PROVE  WorkspaceInv'
<1> DEFINE h == ReapedHistory(ExpiredHistory, writeQueue, n)
           q == Rest(writeQueue, n)
           g == EnqueuedHistory(e, h)
           p == Append(q, e)
           x == EntryRecord(e, LatestGeneration(h[e.inv]), "queued")
<1>1. Stage(h, q, ExpiredLease, ExpiredTickets, revisions, ledger)  BY Zenon, Advanced
<1>2. /\ h[e.inv] # None => h[e.inv].status # "committed"
      /\ e.seq = nextEnqueueSequence /\ ~e.canceled /\ ~Queued(q, e.inv)
      /\ ~(LeaseLive /\ activeWriteLease.inv = e.inv)
  BY DEF AcquireEnqueued, NewAdmission, Admissible
<1>3. /\ leaseHistory' = g /\ writeQueue' = p /\ activeWriteLease' = ExpiredLease
      /\ tickets' = ExpiredTickets
      /\ nextEnqueueSequence' = nextEnqueueSequence + 1
      /\ knownLeaseIds' = knownLeaseIds \cup {e.leaseId}
      /\ UNCHANGED <<now, revisions, nextLeaseGeneration, leaseConflicts, knownTicketIds, ledger>>
  BY Zenon DEF AcquireEnqueued
<1> DEFINE l == ExpiredLease
<1>4. l # None => l.inv # e.inv
  BY Zenon, <1>2, ExpiredLeaseIs
<1> HIDE DEF h, q, l
<1>5. /\ h \in [Invocations -> History \cup {None}] /\ q \in Seq(Entry) /\ Len(q) \in Nat
      /\ e.inv \in Invocations /\ nextEnqueueSequence \in Nat
  BY <1>1, LenProperties DEF Stage, Typed, Entry, WorkspaceInv, TypeOK
<1>6. x \in History /\ x # None /\ x.status = "queued"
  <2>1. LatestGeneration(h[e.inv]) \in Nat  BY <1>5, LatestTyped
  <2>2. x \in History /\ x # None  BY <2>1, EntryRecordTyped DEF Statuses
  <2> QED  BY Zenon, <2>2 DEF EntryRecord
<1>7. x = EntryRecord(e, x.generation, "queued")  BY DEF EntryRecord
<1>8. /\ p \in Seq(Entry) /\ Len(p) = Len(q) + 1 /\ p[Len(q) + 1] = e
      /\ \A k \in 1..Len(q) : p[k] = q[k]
  BY <1>5, AppendProperties
<1>9. /\ g \in [Invocations -> History \cup {None}] /\ g[e.inv] = x
      /\ \A i \in Invocations \ {e.inv} : g[i] = h[i]
  BY <1>5, <1>6 DEF EnqueuedHistory
<1> HIDE DEF g, p, x
<1>10. \A k \in 1..Len(q) : q[k].inv \in Invocations \ {e.inv}
  BY <1>2, <1>5, EntryTyped DEF Queued
<1>11. \A k \in 1..Len(p) : k \in 1..Len(q) \/ k = Len(q) + 1  BY <1>5, <1>8
<1>12. Queued(p, e.inv) /\ \A i \in Invocations \ {e.inv} : Queued(p, i) <=> Queued(q, i)
  <2>1. Len(q) + 1 \in 1..Len(p) /\ \A k \in 1..Len(q) : k \in 1..Len(p)  BY SMTT(30), <1>5, <1>8
  <2> QED  BY <1>8, <1>11, <2>1 DEF Queued
<1>13. QueueOK(g, p)
  <2>1. \A k, m \in 1..Len(p) : p[k].inv = p[m].inv => k = m
    <3>1. \A k, m \in 1..Len(q) : q[k].inv = q[m].inv => k = m  BY Zenon, <1>1 DEF Stage, QueueOK
    <3> QED  BY Zenon, <1>8, <1>10, <1>11, <3>1
  <2>2. ASSUME NEW k \in 1..Len(p)
        PROVE  /\ g[p[k].inv] # None
               /\ g[p[k].inv] = EntryRecord(p[k], g[p[k].inv].generation,
                                            IF p[k].canceled THEN "canceled" ELSE "queued")
    <3>1. CASE k = Len(q) + 1  BY Zenon, <1>2, <1>6, <1>7, <1>8, <1>9, <3>1
    <3>2. CASE k \in 1..Len(q)
      <4>1. p[k] = q[k] /\ g[q[k].inv] = h[q[k].inv]  BY Zenon, <1>8, <1>9, <1>10, <3>2
      <4>2. /\ h[q[k].inv] # None
            /\ h[q[k].inv] = EntryRecord(q[k], h[q[k].inv].generation,
                                         IF q[k].canceled THEN "canceled" ELSE "queued")
        BY ZenonT(30), <1>1, <3>2 DEF Stage, QueueOK
      <4> QED  BY Zenon, <4>1, <4>2
    <3> QED  BY Zenon, <1>11, <3>1, <3>2
  <2>3. \A i \in Invocations : g[i] # None /\ g[i].status = "queued" => Queued(p, i)
    BY ZenonT(30), <1>1, <1>9, <1>12 DEF Stage, QueueOK
  <2> QED  BY Zenon, <2>1, <2>2, <2>3 DEF QueueOK
<1>14. HolderOK(g, p, l)
  <2>1. HolderOK(h, q, l) /\ l \in Lease \cup {None}  BY <1>1 DEF Stage, Typed, l
  <2>2. l # None => l.inv \in Invocations \ {e.inv}  BY Zenon, <1>4, <2>1 DEF Lease
  <2>3. l # None => g[l.inv] = LeaseRecord(l, "active") /\ ~Queued(p, l.inv)
    BY Zenon, <1>9, <1>12, <2>1, <2>2 DEF HolderOK
  <2>4. \A i \in Invocations : g[i] # None /\ g[i].status = "active" => l # None /\ l.inv = i
    BY <1>6, <1>9, <2>1 DEF HolderOK
  <2> QED  BY <2>3, <2>4 DEF HolderOK
<1>15. LedgerOK(ledger, g, revisions)
  <2>1. \A i \in Invocations : g[i] = h[i] \/ (~Done(h, i) /\ ~Done(g, i))
    BY <1>2, <1>6, <1>9 DEF Done
  <2>2. LedgerOK(ledger, h, revisions)  BY Zenon, <1>1 DEF Stage
  <2> QED  BY Zenon, <2>1, <2>2, LedgerKept
<1>16. OrderOK(revisions, l, p, nextEnqueueSequence + 1)
  <2>1. OrderOK(revisions, l, q, nextEnqueueSequence) /\ l \in Lease \cup {None}
    BY Zenon, <1>1 DEF Stage, Typed, l
  <2>2. revisions \in Seq(Revision)  BY Zenon DEF WorkspaceInv, TypeOK
  <2> QED  BY Zenon, <1>2, <1>5, <2>1, <2>2, OrderAppended DEF p
<1>17. /\ Typed(g, p, l, ExpiredTickets) /\ TicketsOK(ExpiredTickets, l, now)
       /\ LeaseOK(l, revisions, nextLeaseGeneration, now)
  BY ZenonT(30), <1>1, <1>8, <1>9 DEF Stage, Typed, l
<1>18. TypeOK'
  <2>1. knownLeaseIds \cup {e.leaseId} \in SUBSET LeaseIds
    BY DEF WorkspaceInv, TypeOK, Entry
  <2>2. nextEnqueueSequence + 1 \in Nat  BY <1>5
  <2> QED  BY <1>3, <1>17, <2>1, <2>2 DEF WorkspaceInv, TypeOK, Typed, l
<1>19. Stage(leaseHistory, writeQueue, activeWriteLease, tickets, revisions, ledger)'
  BY Zenon, <1>3, <1>13, <1>14, <1>15, <1>16, <1>17 DEF Stage, l
<1>20. RevisionsOK(revisions, nextLeaseGeneration)'  BY <1>3 DEF WorkspaceInv
<1> QED  BY <1>18, <1>19, <1>20 DEF WorkspaceInv

\* acquire_write_lease with wait policy "fail", a retry that is not first, and
\* reconcile_workspace store what the advance left.
LEMMA AdvanceKept ==
  ASSUME WorkspaceInv, NEW n \in 0..Len(writeQueue), AdvanceTo(n),
         leaseHistory' = ReapedHistory(ExpiredHistory, writeQueue, n),
         UNCHANGED <<now, revisions, nextLeaseGeneration, nextEnqueueSequence, knownLeaseIds,
                     knownTicketIds, ledger>>,
         leaseConflicts' \in SUBSET Conflict
  PROVE  WorkspaceInv'
<1>1. Stage(leaseHistory', writeQueue', activeWriteLease', tickets', revisions, ledger)
  BY Advanced DEF AdvanceTo
<1>2. knownLeaseIds' \in SUBSET LeaseIds /\ knownTicketIds' \in SUBSET TicketIds
  BY DEF WorkspaceInv, TypeOK
<1> QED  BY <1>1, <1>2, Stored

\* acquire_write_lease with wait policy "fail" also stores a receipt.
LEMMA ConflictKept ==
  ASSUME WorkspaceInv, NEW n \in 0..Len(writeQueue), NEW e \in Entry, AcquireConflict(e, n)
  PROVE  WorkspaceInv'
<1>1. leaseConflicts' \in SUBSET Conflict
  <2>1. [inv |-> e.inv, attempt |-> e.authority.attempt] \in Conflict
    BY DEF Entry, Authority, Conflict
  <2> QED  BY <2>1 DEF AcquireConflict, WorkspaceInv, TypeOK
<1> QED  BY Zenon, <1>1, AdvanceKept DEF AcquireConflict

\* release_write_lease
LEMMA ReleaseKept ==
  ASSUME WorkspaceInv, NEW expires, NEW n \in 0..Len(writeQueue), Release(expires, n)
  PROVE  WorkspaceInv'
<1> DEFINE h == [leaseHistory EXCEPT ![activeWriteLease.inv] =
                   LeaseRecord(activeWriteLease, "released")]
           ts == DropWriteTickets(tickets, activeWriteLease.leaseId)
<1>1. Stage(h, writeQueue, None, ts, revisions, ledger)
  BY Zenon, EndStage DEF Release, WorkspaceInv
<1>2. /\ leaseHistory' = ReapedHistory(h, writeQueue, n) /\ writeQueue' = Rest(writeQueue, n)
      /\ activeWriteLease' = None /\ tickets' = ts
      /\ UNCHANGED <<now, revisions, nextLeaseGeneration, nextEnqueueSequence, leaseConflicts,
                     knownLeaseIds, knownTicketIds, ledger>>
  BY DEF Release, EndLease
<1> HIDE DEF h, ts
<1>3. Stage(leaseHistory', writeQueue', activeWriteLease', tickets', revisions, ledger)
  BY Zenon, <1>1, <1>2, AdvanceStage
<1>4. /\ leaseConflicts' \in SUBSET Conflict /\ knownLeaseIds' \in SUBSET LeaseIds
      /\ knownTicketIds' \in SUBSET TicketIds
  BY <1>2 DEF WorkspaceInv, TypeOK
<1> QED  BY <1>2, <1>3, <1>4, Stored
=============================================================================
