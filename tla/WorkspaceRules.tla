-------------------------- MODULE WorkspaceRules ---------------------------
(***************************************************************************)
(* The order in which a workspace grants its lease, and what no command    *)
(* may do to an attempt, a lapsed lease or a waiter; from the invariant of *)
(* module WorkspaceStages, which module WorkspaceProofs proves.            *)
(***************************************************************************)
EXTENDS WorkspaceProofs

\* A function on 1..n is a sequence of length n.
LEMMA NumbersInSeq ==
  ASSUME NEW n \in Nat, NEW f \in [1..n -> Nat]
  PROVE  f \in Seq(Nat) /\ Len(f) = n
<1>1. f \in Seq(Nat)  BY SeqDef
<1>2. Len(f) \in Nat /\ 1..n = 1..Len(f)  BY <1>1, LenProperties
<1> QED  BY <1>1, <1>2

\* One increasing line after another, all of whose numbers are larger.
LEMMA LinesJoined ==
  ASSUME NEW s \in Seq(Nat), NEW t \in Seq(Nat), Increasing(s), Increasing(t),
         \A j \in 1..Len(s), k \in 1..Len(t) : s[j] < t[k]
  PROVE  /\ s \o t \in Seq(Nat) /\ Increasing(s \o t)
         /\ \A i \in 1..Len(s \o t) : \/ \E j \in 1..Len(s) : (s \o t)[i] = s[j]
                                      \/ \E k \in 1..Len(t) : (s \o t)[i] = t[k]
<1> DEFINE u == s \o t
<1>1. Len(s) \in Nat /\ Len(t) \in Nat  BY LenProperties
<1>2. /\ u \in Seq(Nat) /\ Len(u) = Len(s) + Len(t)
      /\ \A i \in 1..Len(s) + Len(t) : u[i] = IF i <= Len(s) THEN s[i] ELSE t[i - Len(s)]
  BY ConcatProperties
<1> HIDE DEF u
<1>3. ASSUME NEW i \in 1..Len(u)
      PROVE  \/ i \in 1..Len(s) /\ u[i] = s[i]
             \/ i > Len(s) /\ i - Len(s) \in 1..Len(t) /\ u[i] = t[i - Len(s)]
  BY <1>1, <1>2
<1>4. ASSUME NEW j \in 1..Len(u), NEW k \in 1..Len(u), j < k
      PROVE  u[j] < u[k]
  <2>1. CASE k \in 1..Len(s) /\ u[k] = s[k]
    <3>1. j \in 1..Len(s) /\ ~(j > Len(s))  BY <1>1, <1>4, <2>1
    <3> QED  BY <1>3, <1>4, <2>1, <3>1 DEF Increasing
  <2>2. CASE k > Len(s) /\ k - Len(s) \in 1..Len(t) /\ u[k] = t[k - Len(s)]
    <3>1. CASE j \in 1..Len(s) /\ u[j] = s[j]  BY <2>2, <3>1
    <3>2. CASE j > Len(s) /\ j - Len(s) \in 1..Len(t) /\ u[j] = t[j - Len(s)]
      <4>1. j - Len(s) < k - Len(s)  BY <1>1, <1>4
      <4> QED  BY Zenon, <2>2, <3>2, <4>1 DEF Increasing
    <3> QED  BY <1>3, <3>1, <3>2
  <2> QED  BY <1>3, <2>1, <2>2
<1>5. Increasing(u)  BY <1>4 DEF Increasing
<1>6. \A i \in 1..Len(u) : \/ \E j \in 1..Len(s) : u[i] = s[j]
                           \/ \E k \in 1..Len(t) : u[i] = t[k]
  BY Zenon, <1>3
<1> QED  BY Zenon, <1>2, <1>5, <1>6 DEF u

\* Revisions, the lease and the queue form one increasing line.
LEMMA LineIncreases == WorkspaceInv => FifoGrants
<1> SUFFICES ASSUME WorkspaceInv PROVE FifoGrants  OBVIOUS
<1> DEFINE served == [r \in 1..Len(revisions) |-> revisions[r].seq]
           holder == IF activeWriteLease = None THEN <<>> ELSE <<activeWriteLease.seq>>
           waiting == [k \in 1..Len(writeQueue) |-> writeQueue[k].seq]
<1>1. OrderOK(revisions, activeWriteLease, writeQueue, nextEnqueueSequence)
  BY DEF WorkspaceInv, Stage
<1>2. /\ revisions \in Seq(Revision) /\ writeQueue \in Seq(Entry)
      /\ Len(revisions) \in Nat /\ Len(writeQueue) \in Nat
      /\ activeWriteLease \in Lease \cup {None}
  BY LenProperties DEF WorkspaceInv, TypeOK
<1>3. /\ served \in Seq(Nat) /\ Len(served) = Len(revisions)
      /\ \A r \in 1..Len(served) : served[r] = revisions[r].seq
  <2>1. \A r \in 1..Len(revisions) : revisions[r].seq \in Nat  BY <1>2, RevisionTyped
  <2>2. served \in [1..Len(revisions) -> Nat]  BY <2>1
  <2> QED  BY <1>2, <2>2, NumbersInSeq
<1>4. /\ waiting \in Seq(Nat) /\ Len(waiting) = Len(writeQueue)
      /\ \A k \in 1..Len(waiting) : waiting[k] = writeQueue[k].seq
  <2>1. \A k \in 1..Len(writeQueue) : writeQueue[k] \in Entry  BY <1>2, EntryTyped
  <2>2. waiting \in [1..Len(writeQueue) -> Nat]  BY <2>1 DEF Entry
  <2> QED  BY Zenon, <1>2, <2>2, NumbersInSeq
<1>5. /\ holder \in Seq(Nat)
      /\ \A k \in 1..Len(holder) : k = 1 /\ activeWriteLease # None
                                   /\ holder[k] = activeWriteLease.seq
  <2>1. CASE activeWriteLease = None  BY <2>1
  <2>2. CASE activeWriteLease # None
    <3>1. activeWriteLease.seq \in Nat  BY <1>2, <2>2 DEF Lease
    <3> QED  BY <2>2, <3>1
  <2> QED  BY <2>1, <2>2
<1> HIDE DEF served, holder, waiting
<1>6. Increasing(served)  BY <1>1, <1>3 DEF OrderOK, Increasing
<1>7. Increasing(waiting)  BY <1>1, <1>4 DEF OrderOK, Increasing
<1>8. Increasing(holder)  BY <1>5 DEF Increasing
<1>9. \A j \in 1..Len(served), k \in 1..Len(holder) : served[j] < holder[k]
  BY <1>1, <1>3, <1>5 DEF OrderOK, ServedOK
<1> DEFINE front == served \o holder
<1>10. /\ front \in Seq(Nat) /\ Increasing(front)
       /\ \A i \in 1..Len(front) : \/ \E j \in 1..Len(served) : front[i] = served[j]
                                   \/ \E k \in 1..Len(holder) : front[i] = holder[k]
  BY Zenon, <1>3, <1>5, <1>6, <1>8, <1>9, LinesJoined
<1> HIDE DEF front
<1>11. ASSUME NEW i \in 1..Len(front), NEW k \in 1..Len(waiting)
       PROVE  front[i] < waiting[k]
  <2>1. \A j \in 1..Len(served) : served[j] < waiting[k]
    BY <1>1, <1>3, <1>4 DEF OrderOK, ServedOK
  <2>2. \A j \in 1..Len(holder) : holder[j] < waiting[k]
    BY Zenon, <1>1, <1>4, <1>5 DEF OrderOK
  <2> QED  BY Zenon, <1>10, <2>1, <2>2
<1>12. Increasing(front \o waiting)  BY <1>4, <1>7, <1>10, <1>11, LinesJoined
<1> QED  BY Zenon, <1>12 DEF FifoGrants, Increasing, front, served, holder, waiting

\* An invocation has one place, at the lease or in the queue, as its history says; writers
\* are served in the order in which they asked; and a lease stays within its maximum hold
\* and its turn lease (aggregate.ts 1416, 1495-1530).
THEOREM LeasesAreInOrder == Spec => []LeasesInOrder
<1>1. WorkspaceInv => OnePlace
  <2> SUFFICES ASSUME WorkspaceInv PROVE OnePlace  OBVIOUS
  <2>1. DOMAIN leaseHistory = Invocations  BY DEF WorkspaceInv, TypeOK
  <2>2. QueueOK(leaseHistory, writeQueue) /\ HolderOK(leaseHistory, writeQueue, activeWriteLease)
    BY DEF WorkspaceInv, Stage
  <2> QED  BY Zenon, <2>1, <2>2 DEF QueueOK, HolderOK, OnePlace
<1>2. WorkspaceInv => FifoGrants  BY LineIncreases
<1>3. WorkspaceInv => LeaseWithinBounds  BY Zenon DEF WorkspaceInv, Stage, LeaseOK, LeaseWithinBounds
<1>4. WorkspaceInv => LeasesInOrder  BY <1>1, <1>2, <1>3 DEF LeasesInOrder
<1> QED  BY <1>4, WorkspaceInvariant, PTL

-----------------------------------------------------------------------------
(* What no step does *)

\* Dropping heads of the queue admits nobody.
LEMMA ReapedSame ==
  ASSUME NEW h, NEW q, NEW l, NEW ts, Typed(h, q, l, ts), QueueOK(h, q), NEW n \in 0..Len(q)
  PROVE  SameAdmissions(h, ReapedHistory(h, q, n))
<1> DEFINE g == ReapedHistory(h, q, n)
<1>1. h \in [Invocations -> History \cup {None}] /\ q \in Seq(Entry)  BY DEF Typed
<1>2. n \in Nat /\ Len(q) \in Nat /\ n <= Len(q)  BY <1>1, LenProperties
<1>3. ASSUME NEW i \in Invocations
      PROVE  /\ h[i] = None <=> g[i] = None
             /\ h[i] # None => g[i].attempt = h[i].attempt /\ g[i].seq = h[i].seq
  <2>1. CASE ~\E k \in 1..n : q[k].inv = i
    <3>1. g[i] = h[i]  BY <1>1, <2>1 DEF ReapedHistory
    <3> QED  BY Zenon, <3>1
  <2>2. CASE \E k \in 1..n : q[k].inv = i
    <3> DEFINE m == CHOOSE k \in 1..n : q[k].inv = i
               st == IF q[m].canceled THEN "canceled" ELSE "queued"
    <3>1. m \in 1..n /\ q[m].inv = i  BY <2>2
    <3>2. g[i] = EntryRecord(q[m], LatestGeneration(h[i]), ReapStatus(q[m]))
      BY <1>1, <2>2 DEF ReapedHistory
    <3> HIDE DEF m, g
    <3>3. m \in 1..Len(q)  BY <1>2, <3>1
    <3>4. h[i] # None /\ h[i] = EntryRecord(q[m], h[i].generation, st)
      BY Zenon, <3>1, <3>3 DEF QueueOK
    <3> HIDE DEF st
    <3>5. g[i].attempt = h[i].attempt /\ g[i].seq = h[i].seq  BY <3>2, <3>4 DEF EntryRecord
    <3>6. g[i] # None
      BY <1>1, <2>2, ReapedProperties DEF g
    <3> QED  BY <3>4, <3>5, <3>6
  <2> QED  BY Zenon, <2>1, <2>2
<1> QED  BY Zenon, <1>3 DEF SameAdmissions

\* Nor does the end of a lease.
LEMMA EndSame ==
  ASSUME NEW h, NEW q, NEW l, NEW ts, NEW rev, NEW led, Stage(h, q, l, ts, rev, led),
         l # None, NEW status \in Statuses,
         NEW g, g = [h EXCEPT ![l.inv] = LeaseRecord(l, status)]
  PROVE  SameAdmissions(h, g)
<1>1. h \in [Invocations -> History \cup {None}] /\ l \in Lease /\ l.inv \in Invocations
  BY DEF Stage, Typed, Lease
<1>2. h[l.inv] = LeaseRecord(l, "active")  BY DEF Stage, HolderOK
<1>3. LeaseRecord(l, "active") # None /\ LeaseRecord(l, status) # None
  BY <1>1, LeaseRecordTyped DEF Statuses
<1>4. \A i \in Invocations : g[i] = IF i = l.inv THEN LeaseRecord(l, status) ELSE h[i]
  BY <1>1
<1> QED  BY <1>2, <1>3, <1>4 DEF SameAdmissions, LeaseRecord

\* advanceLeaseQueue as a whole admits nobody.
LEMMA AdvancedSame ==
  ASSUME WorkspaceInv, NEW n \in 0..Len(writeQueue)
  PROVE  SameAdmissions(leaseHistory, ReapedHistory(ExpiredHistory, writeQueue, n))
<1>1. Stage(leaseHistory, writeQueue, activeWriteLease, tickets, revisions, ledger)
  BY DEF WorkspaceInv
<1>2. Stage(ExpiredHistory, writeQueue, ExpiredLease, ExpiredTickets, revisions, ledger)
      /\ SameAdmissions(leaseHistory, ExpiredHistory)
  <2>1. CASE LeaseLapsed
    <3>1. activeWriteLease # None  BY <2>1 DEF LeaseLapsed
    <3>2. SameAdmissions(leaseHistory, ExpiredHistory)
      BY <1>1, <2>1, <3>1, EndSame DEF ExpiredHistory, Statuses
    <3> QED
      BY Zenon, <1>1, <2>1, <3>1, <3>2, EndStage DEF ExpiredHistory, ExpiredLease, ExpiredTickets
  <2>2. CASE ~LeaseLapsed
    BY <1>1, <2>2 DEF ExpiredHistory, ExpiredLease, ExpiredTickets, SameAdmissions
  <2> QED  BY <2>1, <2>2
<1>3. SameAdmissions(ExpiredHistory, ReapedHistory(ExpiredHistory, writeQueue, n))
  BY <1>2, ReapedSame DEF Stage
<1> QED  BY <1>2, <1>3, SameTransitive

\* The attempts of an invocation are those of its negative receipts and of its history.
LEMMA KnownAttemptsAre ==
  ASSUME NEW h, NEW i, NEW x
  PROVE  x \in KnownAttempts(h, i) <=>
           \/ \E c \in leaseConflicts : c.inv = i /\ c.attempt = x
           \/ h[i] # None /\ x = h[i].attempt
BY DEF KnownAttempts

\* The same after a command.
LEMMA KnownAttemptsNext ==
  ASSUME NEW i, NEW x
  PROVE  x \in KnownAttempts(leaseHistory, i)' <=>
           \/ \E c \in leaseConflicts' : c.inv = i /\ c.attempt = x
           \/ leaseHistory'[i] # None /\ x = leaseHistory'[i].attempt
BY DEF KnownAttempts

\* A command that admits nobody and leaves no receipt answers no attempt.
LEMMA NobodyAdmitted ==
  ASSUME WorkspaceInv, SameAdmissions(leaseHistory, leaseHistory'), leaseConflicts' = leaseConflicts
  PROVE  AttemptsAdvance
<1>1. DOMAIN leaseHistory = Invocations  BY DEF WorkspaceInv, TypeOK
<1>2. ASSUME NEW i \in Invocations, NEW x
      PROVE  x \in KnownAttempts(leaseHistory, i)' => x \in KnownAttempts(leaseHistory, i)
  BY KnownAttemptsAre, KnownAttemptsNext DEF SameAdmissions
<1> QED  BY <1>1, <1>2 DEF AttemptsAdvance, SameAdmissions

\* The attempt an acquire is answered for is larger than all that were answered.
LEMMA NewAttemptLarger ==
  ASSUME WorkspaceInv, NEW n \in 0..Len(writeQueue), NEW e \in Entry, NewAdmission(e, n)
  PROVE  \A y \in KnownAttempts(leaseHistory, e.inv) : y < e.authority.attempt
<1> DEFINE h == ReapedHistory(ExpiredHistory, writeQueue, n)
<1>1. SameAdmissions(leaseHistory, h) /\ e.inv \in Invocations  BY AdvancedSame DEF Entry
<1>2. NextAttempt(h, e.inv, e.authority.attempt)  BY Zenon DEF NewAdmission, Admissible
<1> HIDE DEF h
<1>3. \A y : y \in KnownAttempts(leaseHistory, e.inv) => y \in KnownAttempts(h, e.inv)
  BY <1>1, KnownAttemptsAre DEF SameAdmissions
<1> QED  BY <1>2, <1>3 DEF NextAttempt

\* An acquire that is granted or queued.
LEMMA OneAdmitted ==
  ASSUME WorkspaceInv, NEW n \in 0..Len(writeQueue), NEW e \in Entry, NewAdmission(e, n),
         NEW h, h = ReapedHistory(ExpiredHistory, writeQueue, n), NEW x,
         leaseHistory' = [h EXCEPT ![e.inv] = x], x.attempt = e.authority.attempt,
         leaseConflicts' = leaseConflicts
  PROVE  AttemptsAdvance
<1>1. DOMAIN leaseHistory = Invocations /\ e.inv \in Invocations /\ e.authority.attempt \in Nat
  BY Zenon, WorkspaceAssumption DEF WorkspaceInv, TypeOK, Entry, Authority
<1>2. SameAdmissions(leaseHistory, h) /\ h \in [Invocations -> History \cup {None}]
  BY Zenon, AdvancedSame, Advanced DEF Stage, Typed
<1>3. \A i \in Invocations : leaseHistory'[i] = IF i = e.inv THEN x ELSE h[i]  BY <1>2
<1>4. \A y \in KnownAttempts(leaseHistory, e.inv) : y < e.authority.attempt  BY NewAttemptLarger
<1>5. ASSUME NEW i \in Invocations, NEW y, y \in KnownAttempts(leaseHistory, i)',
             y \notin KnownAttempts(leaseHistory, i)
      PROVE  i = e.inv /\ y = e.authority.attempt
  <2>1. ~\E c \in leaseConflicts : c.inv = i /\ c.attempt = y  BY Zenon, <1>5, KnownAttemptsAre
  <2>2. leaseHistory'[i] # None /\ y = leaseHistory'[i].attempt
    BY Zenon, <1>5, <2>1, KnownAttemptsNext
  <2>3. ~(leaseHistory[i] # None /\ y = leaseHistory[i].attempt)  BY Zenon, <1>5, KnownAttemptsAre
  <2>4. i = e.inv  BY Zenon, <1>2, <1>3, <2>2, <2>3 DEF SameAdmissions
  <2> QED  BY <1>3, <2>2, <2>4
<1>6. ASSUME NEW i \in Invocations, leaseHistory'[i] # None,
             leaseHistory[i] = None \/ leaseHistory'[i].seq # leaseHistory[i].seq
      PROVE  leaseHistory'[i].attempt \notin KnownAttempts(leaseHistory, i)
  <2>1. i = e.inv  BY Zenon, <1>2, <1>3, <1>6 DEF SameAdmissions
  <2>2. leaseHistory'[i].attempt = e.authority.attempt  BY <1>3, <2>1
  <2> QED  BY <1>1, <1>4, <2>1, <2>2
<1>7. ASSUME NEW i \in Invocations,
             NEW y \in KnownAttempts(leaseHistory, i)' \ KnownAttempts(leaseHistory, i),
             NEW z \in KnownAttempts(leaseHistory, i)
      PROVE  z < y
  BY Zenon, <1>4, <1>5
<1> QED  BY <1>1, <1>6, <1>7, Zenon DEF AttemptsAdvance

\* An acquire that is refused.
LEMMA OneRefused ==
  ASSUME WorkspaceInv, NEW n \in 0..Len(writeQueue), NEW e \in Entry, AcquireConflict(e, n)
  PROVE  AttemptsAdvance
<1> DEFINE c == [inv |-> e.inv, attempt |-> e.authority.attempt]
<1>1. DOMAIN leaseHistory = Invocations /\ e.inv \in Invocations  BY DEF WorkspaceInv, TypeOK, Entry
<1>2. SameAdmissions(leaseHistory, leaseHistory')  BY AdvancedSame DEF AcquireConflict
<1>3. leaseConflicts' = leaseConflicts \cup {c}  BY DEF AcquireConflict
<1>4. \A y \in KnownAttempts(leaseHistory, e.inv) : y < e.authority.attempt
  BY NewAttemptLarger DEF AcquireConflict
<1>5. ASSUME NEW i \in Invocations,
             NEW y \in KnownAttempts(leaseHistory, i)' \ KnownAttempts(leaseHistory, i)
      PROVE  i = e.inv /\ y = e.authority.attempt
  <2>1. ~\E d \in leaseConflicts : d.inv = i /\ d.attempt = y  BY KnownAttemptsAre
  <2>2. ~(leaseHistory[i] # None /\ y = leaseHistory[i].attempt)  BY KnownAttemptsAre
  <2>3. ~(leaseHistory'[i] # None /\ y = leaseHistory'[i].attempt)
    BY <1>2, <2>2 DEF SameAdmissions
  <2>4. \E d \in leaseConflicts' : d.inv = i /\ d.attempt = y  BY <2>3, KnownAttemptsNext
  <2> QED  BY <1>3, <2>1, <2>4
<1>6. ASSUME NEW i \in Invocations,
             NEW y \in KnownAttempts(leaseHistory, i)' \ KnownAttempts(leaseHistory, i),
             NEW z \in KnownAttempts(leaseHistory, i)
      PROVE  z < y
  BY <1>4, <1>5
<1>7. ASSUME NEW i \in Invocations, leaseHistory'[i] # None
      PROVE  ~(leaseHistory[i] = None \/ leaseHistory'[i].seq # leaseHistory[i].seq)
  BY <1>2, <1>7 DEF SameAdmissions
<1> QED  BY <1>1, <1>6, <1>7, Zenon DEF AttemptsAdvance

\* A waiter that is granted keeps the attempt and the place it asked with.
LEMMA WaiterSame ==
  ASSUME WorkspaceInv, NEW i \in Invocations, NEW a \in Authority,
         NEW n \in 0..Len(writeQueue), NEW k \in 1..Len(writeQueue), RetryGranted(i, a, n, k)
  PROVE  SameAdmissions(leaseHistory, leaseHistory')
<1> DEFINE h == ReapedHistory(ExpiredHistory, writeQueue, n)
           w == writeQueue[k]
           e == [w EXCEPT !.authority = a]
           x == LeaseRecord(Granted(e, now), "active")
           st == IF w.canceled THEN "canceled" ELSE "queued"
<1>1. /\ leaseHistory' = [h EXCEPT ![i] = x] /\ w.inv = i /\ Live(a)
      /\ a.attempt = w.authority.attempt
  BY DEF RetryGranted, Retry, Rotated
<1>2. w \in Entry  BY Zenon, EntryTyped DEF WorkspaceInv, TypeOK
<1>3. e \in Entry /\ e.authority = a /\ e.seq = w.seq  BY <1>2 DEF Entry
<1>4. leaseHistory[i] # None /\ leaseHistory[i] = EntryRecord(w, leaseHistory[i].generation, st)
  BY <1>1 DEF WorkspaceInv, Stage, QueueOK
<1>5. SameAdmissions(leaseHistory, h) /\ h \in [Invocations -> History \cup {None}]
  BY AdvancedSame, Advanced DEF Stage, Typed
<1> HIDE DEF h, w, e, st
<1>6. x # None /\ x.attempt = a.attempt /\ x.seq = w.seq
  <2>1. Granted(e, now) \in Lease  BY Zenon, <1>1, <1>3, GrantedLease
  <2>2. x # None  BY <2>1, LeaseRecordTyped DEF Statuses
  <2> QED  BY Zenon, <1>3, <2>2 DEF LeaseRecord, Granted
<1>7. leaseHistory[i].attempt = w.authority.attempt /\ leaseHistory[i].seq = w.seq
  BY <1>4 DEF EntryRecord
<1> HIDE DEF x
<1>8. \A j \in Invocations : leaseHistory'[j] = IF j = i THEN x ELSE h[j]  BY <1>1, <1>5
<1> QED  BY Zenon, <1>1, <1>4, <1>5, <1>6, <1>7, <1>8 DEF SameAdmissions

\* A cancellation admits nobody.
LEMMA CanceledSame ==
  ASSUME WorkspaceInv, NEW k \in 1..Len(writeQueue), NEW a \in Authority,
         NEW n \in 0..Len(writeQueue), Cancel(k, a, n)
  PROVE  SameAdmissions(leaseHistory, leaseHistory')
<1> DEFINE p == [writeQueue EXCEPT ![k].canceled = TRUE]
           i == writeQueue[k].inv
           h == [leaseHistory EXCEPT ![i] =
                   EntryRecord(writeQueue[k], LatestGeneration(leaseHistory[i]), "canceled")]
<1>1. leaseHistory' = ReapedHistory(h, p, n)  BY DEF Cancel
<1>2. /\ Stage(h, p, activeWriteLease, tickets, revisions, ledger)
      /\ Len(p) = Len(writeQueue) /\ SameAdmissions(leaseHistory, h)
  BY CanceledStage
<1> HIDE DEF p, h
<1>3. SameAdmissions(h, ReapedHistory(h, p, n))  BY <1>2, ReapedSame DEF Stage
<1> QED  BY <1>1, <1>2, <1>3, SameTransitive

\* The end of a lease and the advance after it admit nobody.
LEMMA EndedSame ==
  ASSUME WorkspaceInv, NEW n \in 0..Len(writeQueue), activeWriteLease # None,
         NEW status \in {"released", "committed"}, EndLease(status, n)
  PROVE  SameAdmissions(leaseHistory, leaseHistory')
<1> DEFINE l == activeWriteLease
           h == [leaseHistory EXCEPT ![l.inv] = LeaseRecord(l, status)]
<1>1. leaseHistory' = ReapedHistory(h, writeQueue, n)  BY DEF EndLease
<1>2. Stage(leaseHistory, writeQueue, l, tickets, revisions, ledger)  BY DEF WorkspaceInv
<1>3. SameAdmissions(leaseHistory, h)  BY Zenon, <1>2, EndSame DEF Statuses
<1>4. QueueOK(h, writeQueue) /\ Typed(h, writeQueue, None, DropWriteTickets(tickets, l.leaseId))
  BY <1>2, EndParts
<1> HIDE DEF h
<1>5. SameAdmissions(h, ReapedHistory(h, writeQueue, n))  BY Zenon, <1>4, ReapedSame
<1> QED  BY <1>1, <1>3, <1>5, SameTransitive

\* Every step answers only attempts that follow those answered.
LEMMA StepAdvances == WorkspaceInv /\ Next => AttemptsAdvance
<1> SUFFICES ASSUME WorkspaceInv, Next PROVE AttemptsAdvance  OBVIOUS
<1> DEFINE r(n) == ReapedHistory(ExpiredHistory, writeQueue, n)
<1>0. \A q, c : ReapCounts(q, c) \subseteq 0..Len(q)  BY DEF ReapCounts
<1>1. ASSUME NEW i \in Invocations, NEW n \in ReapCounts(writeQueue, i), Acquire(i, n)
      PROVE  AttemptsAdvance
  <2>1. n \in 0..Len(writeQueue)  BY <1>0
  <2>2. ASSUME NEW e \in Requests(i), AcquireGranted(e, n)
        PROVE  AttemptsAdvance
    <3>1. e \in Entry  BY RequestTyped
    <3> DEFINE x == LeaseRecord(Granted(e, now), "active")
    <3>2. x.attempt = e.authority.attempt  BY Zenon DEF LeaseRecord, Granted
    <3>3. /\ leaseHistory' = [r(n) EXCEPT ![e.inv] = x] /\ NewAdmission(e, n)
          /\ leaseConflicts' = leaseConflicts
      BY Zenon, <2>2 DEF AcquireGranted
    <3> HIDE DEF x
    <3> QED  BY Zenon, <2>1, <3>1, <3>2, <3>3, OneAdmitted
  <2>3. ASSUME NEW e \in Requests(i), AcquireEnqueued(e, n)
        PROVE  AttemptsAdvance
    <3>1. e \in Entry  BY RequestTyped
    <3> DEFINE x == EntryRecord(e, LatestGeneration(r(n)[e.inv]), "queued")
    <3>2. x.attempt = e.authority.attempt  BY DEF EntryRecord
    <3>3. /\ leaseHistory' = [r(n) EXCEPT ![e.inv] = x] /\ NewAdmission(e, n)
          /\ leaseConflicts' = leaseConflicts
      BY <2>3 DEF AcquireEnqueued, EnqueuedHistory
    <3> HIDE DEF x
    <3> QED  BY Zenon, <2>1, <3>1, <3>2, <3>3, OneAdmitted
  <2>4. ASSUME NEW e \in Requests(i), AcquireConflict(e, n)
        PROVE  AttemptsAdvance
    <3>1. e \in Entry  BY RequestTyped
    <3> QED  BY Zenon, <2>1, <2>4, <3>1, OneRefused
  <2>5. ASSUME NEW a \in Authority, NEW k \in 1..Len(writeQueue), RetryGranted(i, a, n, k)
        PROVE  AttemptsAdvance
    <3>1. leaseConflicts' = leaseConflicts  BY <2>5 DEF RetryGranted
    <3> QED  BY <2>1, <2>5, <3>1, WaiterSame, NobodyAdmitted
  <2>6. ASSUME NEW a \in Authority, NEW k \in 1..Len(writeQueue), RetryWaits(i, a, n, k)
        PROVE  AttemptsAdvance
    <3>1. leaseConflicts' = leaseConflicts /\ leaseHistory' = r(n)  BY <2>6 DEF RetryWaits
    <3> QED  BY <2>1, <3>1, AdvancedSame, NobodyAdmitted
  <2> QED  BY <1>1, <2>2, <2>3, <2>4, <2>5, <2>6, Zenon DEF Acquire
<1>2. ASSUME leaseHistory' = leaseHistory, leaseConflicts' = leaseConflicts
      PROVE  AttemptsAdvance
  BY <1>2, NobodyAdmitted DEF SameAdmissions
<1>3. ASSUME NEW expires \in Moment, NEW ttl \in Ttls, Renew(expires, ttl)
      PROVE  AttemptsAdvance
  BY <1>2, <1>3 DEF Renew
<1>4. ASSUME NEW n \in ReapCounts(writeQueue, None), NEW expires \in Moment, Release(expires, n)
      PROVE  AttemptsAdvance
  <2>1. n \in 0..Len(writeQueue)  BY <1>0
  <2>2. activeWriteLease # None /\ EndLease("released", n) /\ leaseConflicts' = leaseConflicts
    BY <1>4 DEF Release
  <2> QED  BY <2>1, <2>2, EndedSame, NobodyAdmitted
<1>5. ASSUME NEW n \in ReapCounts(writeQueue, None), Reconcile(n)
      PROVE  AttemptsAdvance
  <2>1. n \in 0..Len(writeQueue)  BY <1>0
  <2>2. leaseConflicts' = leaseConflicts /\ leaseHistory' = r(n)  BY <1>5 DEF Reconcile
  <2> QED  BY <2>1, <2>2, AdvancedSame, NobodyAdmitted
<1>6. ASSUME NEW n \in ReapCounts(writeQueue, None), NEW t \in TicketIds, NEW a \in Authority,
             Commit(t, a, n)
      PROVE  AttemptsAdvance
  <2>1. n \in 0..Len(writeQueue)  BY <1>0
  <2>2. activeWriteLease # None /\ EndLease("committed", n) /\ leaseConflicts' = leaseConflicts
    BY Zenon, <1>6 DEF Commit, LeaseLive
  <2> QED  BY <2>1, <2>2, EndedSame, NobodyAdmitted
<1>7. ASSUME NEW k \in 1..Len(writeQueue), NEW a \in Authority, NEW n \in 0..Len(writeQueue),
             Cancel(k, a, n)
      PROVE  AttemptsAdvance
  <2>1. leaseConflicts' = leaseConflicts  BY <1>7 DEF Cancel
  <2> QED  BY <1>7, <2>1, CanceledSame, NobodyAdmitted
<1>8. ASSUME NEW t \in TicketIds, NEW i \in Invocations, NEW a \in Authority,
             NEW p \in Projections, NEW k \in 0..Len(revisions), NEW ttl \in Ttls,
             PrepareRead(t, i, a, p, k, ttl)
      PROVE  AttemptsAdvance
  BY Zenon, <1>2, <1>8 DEF PrepareRead, NewTicket
<1>9. ASSUME NEW t \in TicketIds, NEW expires \in Moment, NEW ttl \in Ttls,
             PrepareWrite(t, expires, ttl)
      PROVE  AttemptsAdvance
  BY <1>2, <1>9 DEF PrepareWrite, NewTicket
<1>10. CASE Tick  BY <1>2, <1>10 DEF Tick
<1> QED
  BY <1>1, <1>3, <1>4, <1>5, <1>6, <1>7, <1>8, <1>9, <1>10, Zenon DEF Next

\* Nothing is committed and nothing renewed under a lapsed lease.
LEMMA StepLeavesLapsed == WorkspaceInv /\ Next => ExpiredStays
<1> SUFFICES ASSUME WorkspaceInv, Next, LeaseLapsed
             PROVE  /\ activeWriteLease' \in {activeWriteLease, None}
                       \/ activeWriteLease'.generation > activeWriteLease.generation
                    /\ revisions' = revisions
  BY DEF ExpiredStays
<1> DEFINE Stays == /\ activeWriteLease' \in {activeWriteLease, None}
                       \/ activeWriteLease'.generation > activeWriteLease.generation
                    /\ revisions' = revisions
<1>1. activeWriteLease.generation < nextLeaseGeneration /\ nextLeaseGeneration \in Nat
      /\ activeWriteLease.generation \in Nat
  BY Zenon DEF LeaseLapsed, WorkspaceInv, TypeOK, Stage, LeaseOK, Lease
<1>2. ~LeaseLive
  BY DEF LeaseLapsed, LeaseLive, WorkspaceInv, TypeOK, Time, Lease
<1>3. ASSUME NEW e, activeWriteLease' = Granted(e, now)
      PROVE  activeWriteLease'.generation > activeWriteLease.generation
  BY Zenon, <1>1, <1>3 DEF Granted
<1>4. ExpiredLease \in {activeWriteLease, None}  BY DEF ExpiredLease
<1>5. ASSUME NEW i \in Invocations, NEW n \in ReapCounts(writeQueue, i), Acquire(i, n)
      PROVE  Stays
  <2>1. ASSUME NEW e \in Requests(i), AcquireGranted(e, n) PROVE Stays
    BY <1>3, <2>1 DEF AcquireGranted
  <2>2. ASSUME NEW e \in Requests(i), AcquireEnqueued(e, n) PROVE Stays
    BY <1>4, <2>2 DEF AcquireEnqueued
  <2>3. ASSUME NEW e \in Requests(i), AcquireConflict(e, n) PROVE Stays
    BY <1>4, <2>3 DEF AcquireConflict, AdvanceTo
  <2>4. ASSUME NEW a \in Authority, NEW k \in 1..Len(writeQueue), RetryGranted(i, a, n, k)
        PROVE  Stays
    BY <1>3, <2>4 DEF RetryGranted
  <2>5. ASSUME NEW a \in Authority, NEW k \in 1..Len(writeQueue), RetryWaits(i, a, n, k)
        PROVE  Stays
    BY <1>4, <2>5 DEF RetryWaits, AdvanceTo
  <2> HIDE DEF Stays
  <2> QED  BY <1>5, <2>1, <2>2, <2>3, <2>4, <2>5, Zenon DEF Acquire
<1>6. ASSUME NEW expires \in Moment, NEW ttl \in Ttls, Renew(expires, ttl) PROVE Stays
  BY <1>2, <1>6 DEF Renew
<1>7. ASSUME NEW n \in ReapCounts(writeQueue, None), NEW expires \in Moment, Release(expires, n)
      PROVE  Stays
  BY <1>7 DEF Release, EndLease
<1>8. ASSUME NEW n \in ReapCounts(writeQueue, None), Reconcile(n) PROVE Stays
  BY <1>4, <1>8 DEF Reconcile, AdvanceTo
<1>9. ASSUME NEW n \in ReapCounts(writeQueue, None), NEW t \in TicketIds, NEW a \in Authority,
             Commit(t, a, n)
      PROVE  Stays
  BY Zenon, <1>2, <1>9 DEF Commit
<1>10. ASSUME NEW k \in 1..Len(writeQueue), NEW a \in Authority, NEW n \in 0..Len(writeQueue),
              Cancel(k, a, n)
       PROVE  Stays
  BY <1>10 DEF Cancel
<1>11. ASSUME NEW t \in TicketIds, NEW i \in Invocations, NEW a \in Authority,
              NEW p \in Projections, NEW k \in 0..Len(revisions), NEW ttl \in Ttls,
              PrepareRead(t, i, a, p, k, ttl)
       PROVE  Stays
  BY Zenon, <1>11 DEF PrepareRead, NewTicket
<1>12. ASSUME NEW t \in TicketIds, NEW expires \in Moment, NEW ttl \in Ttls,
              PrepareWrite(t, expires, ttl)
       PROVE  Stays
  BY <1>12 DEF PrepareWrite, NewTicket
<1>13. ASSUME Tick PROVE Stays  BY <1>13 DEF Tick
<1> HIDE DEF Stays
<1>14. Stays
  BY <1>5, <1>6, <1>7, <1>8, <1>9, <1>10, <1>11, <1>12, <1>13, Zenon DEF Next
<1> QED  BY <1>14 DEF Stays

\* A negative receipt is left only by a request that finds someone in its way.
LEMMA StepHasBlocker == WorkspaceInv /\ Next => ConflictHasBlocker
<1> SUFFICES ASSUME WorkspaceInv, Next, leaseConflicts' # leaseConflicts
             PROVE  \/ activeWriteLease' # None /\ now < activeWriteLease'.expires
                    \/ writeQueue' # <<>> /\ ~Reapable(Head(writeQueue'), None)
  BY DEF ConflictHasBlocker
<1>1. PICK i \in Invocations : \E n \in ReapCounts(writeQueue, i), e \in Requests(i) :
        AcquireConflict(e, n)
  <2>1. \A e, n : ~AcquireGranted(e, n) /\ ~AcquireEnqueued(e, n)
    BY Zenon DEF AcquireGranted, AcquireEnqueued
  <2>2. \A i, a, n, k : ~RetryGranted(i, a, n, k) /\ ~RetryWaits(i, a, n, k)
    BY ZenonT(30) DEF RetryGranted, RetryWaits
  <2>3. \A n, x, y, z : ~Renew(x, y) /\ ~Release(x, n) /\ ~Reconcile(n) /\ ~Commit(x, y, n)
                        /\ ~Cancel(x, y, z)
    BY DEF Renew, Release, Reconcile, Commit, Cancel
  <2>4. /\ \A t, i, a, p, k, ttl : ~PrepareRead(t, i, a, p, k, ttl)
        /\ \A t, x, y : ~PrepareWrite(t, x, y)
        /\ ~Tick
    BY DEF PrepareRead, PrepareWrite, NewTicket, Tick
  <2>5. \E i \in Invocations : \E n \in ReapCounts(writeQueue, i) : Acquire(i, n)
    BY <2>3, <2>4, Zenon DEF Next
  <2> QED  BY <2>1, <2>2, <2>5, Zenon DEF Acquire
<1>2. PICK n \in ReapCounts(writeQueue, i), e \in Requests(i) : AcquireConflict(e, n)
  BY <1>1, Zenon
<1>3. n \in 0..Len(writeQueue) /\ writeQueue \in Seq(Entry) /\ Len(writeQueue) \in Nat
  BY LenProperties DEF ReapCounts, WorkspaceInv, TypeOK
<1>4. CASE ExpiredLease # None
  <2>1. activeWriteLease' = activeWriteLease /\ activeWriteLease # None /\ ~LeaseLapsed
    BY Zenon, <1>2, <1>4 DEF AcquireConflict, AdvanceTo, ExpiredLease
  <2>2. now < activeWriteLease.expires
    BY <2>1 DEF LeaseLapsed, WorkspaceInv, TypeOK, Time, Lease
  <2> QED  BY <2>1, <2>2
<1>5. CASE Rest(writeQueue, n) # <<>>
  <2> DEFINE q == Rest(writeQueue, n)
  <2>1. q \in Seq(Entry) /\ Len(q) = Len(writeQueue) - n
        /\ \A k \in 1..Len(writeQueue) - n : q[k] = writeQueue[n + k]
    BY Zenon, <1>3, RestProperties
  <2> HIDE DEF q
  <2>2. Len(q) # 0 /\ Len(q) \in Nat  BY <1>5, <2>1, EmptySeq DEF q
  <2>3. n < Len(writeQueue) /\ 1 \in 1..Len(writeQueue) - n  BY <1>3, <2>1, <2>2
  <2>4. Head(q) = writeQueue[n + 1]
    <3>1. Head(q) = q[1]  BY <2>1, <2>2
    <3> QED  BY <2>1, <2>3, <3>1
  <2>5. ~Reapable(writeQueue[n + 1], e.inv)
    BY Zenon, <1>2, <2>3 DEF AcquireConflict, NewAdmission, Reaps
  <2>6. ~Reapable(writeQueue[n + 1], None)  BY Zenon, <2>5 DEF Reapable
  <2>7. writeQueue' = q  BY <1>2 DEF AcquireConflict, AdvanceTo, q
  <2> QED  BY <1>5, <2>4, <2>6, <2>7 DEF q
<1> QED  BY <1>2, <1>4, <1>5 DEF AcquireConflict

\* A waiter behind none but dead requests is granted the lease when it asks.
LEMMA StepServes == WorkspaceInv => WaiterIsServed
<1> SUFFICES ASSUME WorkspaceInv, NEW k \in 1..Len(writeQueue),
                    \A m \in 1..k - 1 :
                      Reapable(writeQueue[m], None) \/ ~Live(writeQueue[m].authority),
                    NEW a \in Authority, NEW n \in ReapCounts(writeQueue, writeQueue[k].inv),
                    RetryGranted(writeQueue[k].inv, a, n, k)
                      \/ RetryWaits(writeQueue[k].inv, a, n, k)
             PROVE  activeWriteLease' # None /\ activeWriteLease'.inv = writeQueue[k].inv
  BY ZenonT(30) DEF WaiterIsServed
<1> DEFINE i == writeQueue[k].inv
<1>1. /\ writeQueue \in Seq(Entry) /\ Len(writeQueue) \in Nat /\ n \in 0..Len(writeQueue)
      /\ writeQueue[k] \in Entry /\ i \in Invocations /\ i # None
  BY SMTT(30), LenProperties, EntryTyped, WorkspaceAssumption DEF ReapCounts, WorkspaceInv, TypeOK
<1>2. ~RetryWaits(i, a, n, k)
  <2> SUFFICES ASSUME RetryWaits(i, a, n, k) PROVE FALSE  OBVIOUS
  <2>1. k > n + 1 /\ Reaps(writeQueue, i, n)  BY Zenon DEF RetryWaits, Retry
  <2>2. n + 1 \in 1..k - 1 /\ n + 1 \in 1..Len(writeQueue) /\ n < Len(writeQueue) /\ n + 1 # k
    BY SMTT(30), <1>1, <2>1
  <2>3. ~Reapable(writeQueue[n + 1], i)  BY <2>1, <2>2 DEF Reaps
  <2>4. writeQueue[n + 1].inv # i  BY Zenon, <2>2 DEF WorkspaceInv, Stage, QueueOK
  <2>5. ~Live(writeQueue[n + 1].authority) => now >= writeQueue[n + 1].authority.expires
    <3>1. writeQueue[n + 1] \in Entry  BY Zenon, <1>1, <2>2, EntryTyped
    <3>2. writeQueue[n + 1].authority.expires \in Nat
      BY SMTT(30), <3>1, WorkspaceAssumption DEF Entry, Authority, Moment
    <3>3. now \in Nat  BY WorkspaceAssumption DEF WorkspaceInv, TypeOK, Time
    <3> QED  BY <3>2, <3>3 DEF Live
  <2>6. ~Reapable(writeQueue[n + 1], None) /\ Live(writeQueue[n + 1].authority)
    BY Zenon, <1>1, <2>3, <2>4, <2>5 DEF Reapable
  <2> QED  BY <2>2, <2>6
<1> DEFINE e == [writeQueue[k] EXCEPT !.authority = a]
<1>3. RetryGranted(i, a, n, k)  BY <1>2
<1>4. activeWriteLease' = Granted(e, now) /\ Live(a)  BY <1>3 DEF RetryGranted, Retry
<1>5. e \in Entry /\ e.inv = i /\ e.authority = a  BY Zenon, <1>1 DEF Entry
<1> HIDE DEF e
<1> QED  BY Zenon, <1>4, <1>5, GrantedLease

\* The four rules hold of every step: nothing is renewed or committed under a lapsed lease,
\* attempts are answered in order and once, a waiter behind dead requests is served, and a
\* receipt has someone in the way (aggregate.ts 778-794, 1655-1661, 2543-2555).
THEOREM LeaseRulesHold == Spec => LeaseRules
<1> DEFINE A == ExpiredStays /\ AttemptsAdvance /\ WaiterIsServed /\ ConflictHasBlocker
<1>1. WorkspaceInv /\ [Next]_vars => [A]_vars
  BY StepAdvances, StepLeavesLapsed, StepHasBlocker, StepServes
<1> QED  BY <1>1, WorkspaceInvariant, PTL DEF Spec, LeaseRules
=============================================================================
