--------------------------- MODULE WorkerdIdentity ---------------------------
(***************************************************************************)
(* The process identity of a workerd shard (internal/agent/                *)
(* workerd_process_linux.go): a pidfd and the start time read from /proc,  *)
(* captured right after the start.  Samples read the resident size through *)
(* /proc between two reads of the start time; signals go through the       *)
(* pidfd.  Both borrow the identity, and close waits for the borrows.      *)
(*                                                                         *)
(* The numeric PID is one the kernel may give to another process once the  *)
(* shard's own has been reaped; a descriptor number is one the kernel may  *)
(* give to another file once it is closed.                                 *)
(***************************************************************************)
EXTENDS Integers, FiniteSets, FiniteSetTheorems, TLAPS

CONSTANTS
  Users,      \* goroutines that sample or signal
  Closers,    \* goroutines that close
  MaxBorns,   \* bound: processes that get the PID, one after the other
  MaxUses     \* bound: samples and signals

ASSUME IdentityBounds == MaxBorns \in Nat \ {0} /\ MaxUses \in Nat /\ IsFiniteSet(Users)

VARIABLES
  born,      \* external: start time of the process that has the PID, the last one so far
  alive,     \* external: that process has not been reaped
  reaped,    \* external: process.Wait has been called for the shard's process
  token,     \* identity.token.StartTicks, 0 before capture
  pidfd,     \* identity.pidfd: "none", "open" or "closed"
  identity,  \* workerdProcessIdentity: borrows, closing, closed; or capture failed
  user,      \* samples and signals under way
  closer,    \* close calls under way
  sampled,   \* start times of the processes that samples reported on
  signalled, \* start times of the processes that signals reached
  closes,    \* close system calls on the pidfd
  uses       \* samples and signals begun

vars == <<born, alive, reaped, token, pidfd, identity, user, closer, sampled, signalled, closes, uses>>
kernel == <<born, alive, reaped>>

Idle == [pc |-> "idle", pinned |-> 0, before |-> 0, read |-> 0]

Init ==
  /\ born = 1 /\ alive = TRUE /\ reaped = FALSE
  /\ token = 0 /\ pidfd = "none"
  /\ identity = [state |-> "capturing", borrows |-> 0]
  /\ user = [u \in Users |-> Idle]
  /\ closer = [c \in Closers |-> "idle"]
  /\ sampled = {} /\ signalled = {} /\ closes = 0 /\ uses = 0

-----------------------------------------------------------------------------
\* The kernel

\* Until it is waited for, an exited process keeps its PID.
Reap ==
  /\ reaped /\ alive
  /\ alive' = FALSE
  /\ UNCHANGED <<born, reaped, token, pidfd, identity, user, closer, sampled, signalled, closes, uses>>

Recycle ==
  /\ ~alive /\ born < MaxBorns
  /\ born' = born + 1 /\ alive' = TRUE
  /\ UNCHANGED <<reaped, token, pidfd, identity, user, closer, sampled, signalled, closes, uses>>

-----------------------------------------------------------------------------
\* captureWorkerdProcessIdentity

OpenPIDFD ==
  /\ identity.state = "capturing" /\ pidfd = "none"
  /\ \/ pidfd' = "open" /\ UNCHANGED identity
     \/ identity' = [identity EXCEPT !.state = "failed"] /\ UNCHANGED pidfd
  /\ UNCHANGED <<kernel, token, user, closer, sampled, signalled, closes, uses>>

\* readStat and parseWorkerdProcStat: the start time, or a failure, after which
\* the pidfd is closed again.
CaptureToken ==
  /\ identity.state = "capturing" /\ pidfd = "open"
  /\ \/ /\ alive
        /\ token' = born
        /\ identity' = [identity EXCEPT !.state = "owned"]
        /\ UNCHANGED <<pidfd, closes>>
     \/ /\ identity' = [identity EXCEPT !.state = "failed"]
        /\ pidfd' = "closed" /\ closes' = closes + 1
        /\ UNCHANGED token
  /\ UNCHANGED <<kernel, user, closer, sampled, signalled, uses>>

Captured == identity.state # "capturing"

\* The launcher waits for the process only once the identity is captured.
BeginWait ==
  /\ ~reaped /\ Captured
  /\ reaped' = TRUE
  /\ UNCHANGED <<born, alive, token, pidfd, identity, user, closer, sampled, signalled, closes, uses>>

-----------------------------------------------------------------------------
\* sample and kill

Refuses == identity.state \in {"closing", "closed"}

\* A borrow is counted unless closing has begun.
BeginUse(u, use) ==
  /\ user[u].pc = "idle" /\ uses < MaxUses
  /\ identity.state \in {"owned", "closing", "closed"}
  /\ uses' = uses + 1
  /\ IF Refuses
     THEN UNCHANGED <<identity, user>>
     ELSE /\ identity' = [identity EXCEPT !.borrows = @ + 1]
          /\ user' = [user EXCEPT ![u].pc = use]
  /\ UNCHANGED <<kernel, token, pidfd, closer, sampled, signalled, closes>>

\* openWorkerdProcessDirectory opens /proc/<pid> of whoever has the PID; later
\* reads go through that directory and fail once that process is gone.
OpenProcess(u) ==
  /\ user[u].pc = "sample"
  /\ \/ alive /\ user' = [user EXCEPT ![u].pc = "before", ![u].pinned = born]
     \/ user' = [user EXCEPT ![u].pc = "returns"]
  /\ UNCHANGED <<kernel, token, pidfd, identity, closer, sampled, signalled, closes, uses>>

\* Every read through the directory yields what its process shows, or fails.
ReadBefore(u) ==
  /\ user[u].pc = "before"
  /\ \/ /\ alive /\ born = user[u].pinned
        /\ user' = [user EXCEPT ![u].pc = "statm", ![u].before = born]
     \/ user' = [user EXCEPT ![u].pc = "returns"]
  /\ UNCHANGED <<kernel, token, pidfd, identity, closer, sampled, signalled, closes, uses>>

ReadStatm(u) ==
  /\ user[u].pc = "statm"
  /\ \/ /\ alive /\ born = user[u].pinned
        /\ user' = [user EXCEPT ![u].pc = "after", ![u].read = born]
     \/ user' = [user EXCEPT ![u].pc = "returns"]
  /\ UNCHANGED <<kernel, token, pidfd, identity, closer, sampled, signalled, closes, uses>>

\* Mutant of Matches.
MatchesItself(u, after) == user[u].before = after

\* sampleWorkerdProcess: both start times must be the captured one.
Matches(u, after) == user[u].before = token /\ after = token

ReadAfter(u) ==
  /\ user[u].pc = "after"
  /\ \/ /\ alive /\ born = user[u].pinned
        /\ sampled' = IF Matches(u, born) THEN sampled \cup {user[u].read} ELSE sampled
     \/ UNCHANGED sampled
  /\ user' = [user EXCEPT ![u].pc = "returns"]
  /\ UNCHANGED <<kernel, token, pidfd, identity, closer, signalled, closes, uses>>

\* The pidfd leads to the process it was opened for, if that still exists; a
\* closed descriptor number leads anywhere.
SendSignal(u) ==
  /\ user[u].pc = "kill"
  /\ signalled' = signalled \cup (IF pidfd # "open" THEN {0} ELSE IF alive /\ born = token THEN {token} ELSE {})
  /\ user' = [user EXCEPT ![u].pc = "returns"]
  /\ UNCHANGED <<kernel, token, pidfd, identity, closer, sampled, closes, uses>>

\* Mutant of Returned.
Kept == identity.borrows

Returned == identity.borrows - 1

EndUse(u) ==
  /\ user[u].pc = "returns"
  /\ user' = [user EXCEPT ![u] = Idle]
  /\ identity' = [identity EXCEPT !.borrows = Returned]
  /\ UNCHANGED <<kernel, token, pidfd, closer, sampled, signalled, closes, uses>>

-----------------------------------------------------------------------------
\* close

First == identity.state = "owned"

\* The first call owns the close; the others wait for its result.
BeginClose(c) ==
  /\ closer[c] = "idle" /\ identity.state \in {"owned", "closing", "closed"}
  /\ IF First
     THEN /\ identity' = [identity EXCEPT !.state = "closing"]
          /\ closer' = [closer EXCEPT ![c] = "quiesces"]
     ELSE closer' = [closer EXCEPT ![c] = "waits"] /\ UNCHANGED identity
  /\ UNCHANGED <<kernel, token, pidfd, user, sampled, signalled, closes, uses>>

Quiescent == identity.borrows = 0

ClosePIDFD(c) ==
  /\ closer[c] = "quiesces" /\ Quiescent
  /\ pidfd' = "closed" /\ closes' = closes + 1
  /\ closer' = [closer EXCEPT ![c] = "closes"]
  /\ UNCHANGED <<kernel, token, identity, user, sampled, signalled, uses>>

EndClose(c) ==
  /\ closer[c] = "closes"
  /\ identity' = [identity EXCEPT !.state = "closed"]
  /\ closer' = [closer EXCEPT ![c] = "returned"]
  /\ UNCHANGED <<kernel, token, pidfd, user, sampled, signalled, closes, uses>>

AwaitClose(c) ==
  /\ closer[c] = "waits" /\ identity.state = "closed"
  /\ closer' = [closer EXCEPT ![c] = "returned"]
  /\ UNCHANGED <<kernel, token, pidfd, identity, user, sampled, signalled, closes, uses>>

-----------------------------------------------------------------------------
Use(u) ==
  OpenProcess(u) \/ ReadBefore(u) \/ ReadStatm(u) \/ ReadAfter(u) \/ SendSignal(u) \/ EndUse(u)

Close(c) == ClosePIDFD(c) \/ EndClose(c) \/ AwaitClose(c)

Next ==
  \/ Reap \/ Recycle \/ OpenPIDFD \/ CaptureToken \/ BeginWait
  \/ \E u \in Users : Use(u) \/ \E use \in {"sample", "kill"} : BeginUse(u, use)
  \/ \E c \in Closers : BeginClose(c) \/ Close(c)

Spec == Init /\ [][Next]_vars

-----------------------------------------------------------------------------
\* A sample reports on the shard's own process, never on one that got its PID
\* later, however late it reads.
SamplesOwn == sampled \subseteq {1}

\* A signal reaches the shard's own process or none: not a later owner of the
\* PID, and nothing through a descriptor that was closed.
SignalsOwn == signalled \subseteq {1}

\* The pidfd is closed once at most, and always when
\* close has returned or capture failed.
ClosedOnce ==
  /\ closes <= 1
  /\ (\E c \in Closers : closer[c] = "returned") => pidfd = "closed"
  /\ identity.state = "failed" => pidfd # "open"

\* The identity of a process is pinned: samples and signals are of it, and its descriptor
\* is closed once.
IdentityPinned == SamplesOwn /\ SignalsOwn /\ ClosedOnce

\* A close that began returns: borrows end and no new one is admitted.
CloseReturns == \A c \in Closers : closer[c] \in {"quiesces", "waits"} ~> closer[c] = "returned"

-----------------------------------------------------------------------------
(* The proof of IdentityPinned, for any number of users, closers and processes. *)

\* The users that hold a borrow
Busy == {u \in Users : user[u].pc # "idle"}

UserRecord == [pc : {"idle", "sample", "before", "statm", "after", "kill", "returns"},
               pinned : Nat, before : Nat, read : Nat]

TypeOK ==
  /\ born \in Nat \ {0} /\ alive \in BOOLEAN /\ reaped \in BOOLEAN
  /\ token \in {0, 1} /\ pidfd \in {"none", "open", "closed"}
  /\ identity \in [state : {"capturing", "owned", "closing", "closed", "failed"}, borrows : Int]
  /\ user \in [Users -> UserRecord]
  /\ closer \in [Closers -> {"idle", "quiesces", "waits", "closes", "returned"}]
  /\ closes \in Nat

\* Until the process is waited for its PID is its own; capture comes before the wait
KernelInv ==
  /\ ~reaped => alive /\ born = 1
  /\ identity.state = "capturing" => ~reaped

\* What the descriptor is in every state of the identity
DescriptorInv ==
  /\ identity.state = "capturing" => pidfd # "closed" /\ closes = 0
  /\ identity.state = "failed" => pidfd # "open" /\ closes <= 1
  /\ identity.state = "owned" => token = 1 /\ pidfd = "open" /\ closes = 0
  /\ identity.state = "closing" => token = 1
  /\ identity.state = "closed" => pidfd = "closed" /\ closes = 1

\* One call owns the close, from its beginning to its end
Closing(c) == closer[c] \in {"quiesces", "closes"}

CloserInv ==
  /\ identity.state \in {"capturing", "failed", "owned"} => \A c \in Closers : closer[c] = "idle"
  /\ identity.state = "closing" <=> \E c \in Closers : Closing(c)
  /\ \A c, d \in Closers : Closing(c) /\ Closing(d) => c = d
  /\ \A c \in Closers :
       /\ closer[c] = "quiesces" => pidfd = "open" /\ closes = 0
       /\ closer[c] = "closes" => pidfd = "closed" /\ closes = 1 /\ identity.borrows = 0
       /\ closer[c] = "returned" => identity.state = "closed"

\* The count of borrows is the number of users at work, and they work on an owned pidfd
BorrowInv ==
  /\ identity.borrows = Cardinality(Busy)
  /\ identity.state \notin {"owned", "closing"} => Busy = {}

\* What was read through a directory is of the process the directory belongs to
ReadInv ==
  \A u \in Users :
    /\ user[u].pc \in {"statm", "after"} => user[u].before = user[u].pinned
    /\ user[u].pc = "after" => user[u].read = user[u].pinned

IdentityInv ==
  /\ TypeOK /\ KernelInv /\ DescriptorInv /\ CloserInv /\ BorrowInv /\ ReadInv
  /\ SamplesOwn /\ SignalsOwn

\* A user that moves on inside its borrow changes no count.
LEMMA UserMoves ==
  ASSUME IdentityInv, NEW u \in Users, user[u].pc # "idle",
         user' \in [Users -> UserRecord], user'[u].pc # "idle",
         \A v \in Users \ {u} : user'[v] = user[v],
         UNCHANGED identity
  PROVE  BorrowInv'
<1>1. Busy' = Busy
  BY DEF Busy
<1> QED BY <1>1 DEF IdentityInv, BorrowInv

\* Users at work have an open pidfd of the captured process.
LEMMA BusyOwned ==
  ASSUME IdentityInv, NEW u \in Users, user[u].pc # "idle"
  PROVE  /\ identity.state \in {"owned", "closing"}
         /\ pidfd = "open" /\ token = 1 /\ identity.borrows # 0
<1>1. u \in Busy /\ IsFiniteSet(Busy)
  BY FS_Subset, IdentityBounds DEF Busy
<1>2. identity.borrows # 0
  BY <1>1, FS_EmptySet DEF IdentityInv, BorrowInv
<1>3. identity.state \in {"owned", "closing"}
  BY <1>1 DEF IdentityInv, BorrowInv
<1>4. CASE identity.state = "owned"
  BY <1>2, <1>4 DEF IdentityInv, DescriptorInv
<1>5. CASE identity.state = "closing"
  <2>1. PICK c \in Closers : Closing(c)
    BY <1>5 DEF IdentityInv, CloserInv
  <2>2. closer[c] = "quiesces"
    BY <1>2, <2>1 DEF IdentityInv, CloserInv, Closing
  <2> QED BY <1>2, <1>5, <2>2 DEF IdentityInv, CloserInv, DescriptorInv
<1> QED BY <1>3, <1>4, <1>5

\* The steps of the kernel and of the capture.
LEMMA CaptureSteps ==
  ASSUME IdentityInv, Reap \/ Recycle \/ OpenPIDFD \/ CaptureToken \/ BeginWait
  PROVE  IdentityInv'
<1>0. UNCHANGED <<user, closer, sampled, signalled>>
  BY DEF Reap, Recycle, OpenPIDFD, CaptureToken, BeginWait
<1>1. TypeOK'
  <2>1. CASE Reap \/ Recycle \/ BeginWait
    <3>1. born' \in Nat \ {0} /\ alive' \in BOOLEAN /\ reaped' \in BOOLEAN
      <4>1. born' \in Nat \ {0}
        BY <2>1 DEF IdentityInv, TypeOK, Reap, Recycle, BeginWait
      <4>2. alive' \in BOOLEAN /\ reaped' \in BOOLEAN
        BY Zenon, <2>1 DEF IdentityInv, TypeOK, Reap, Recycle, BeginWait
      <4> QED BY <4>1, <4>2
    <3> QED BY Zenon, <1>0, <2>1, <3>1 DEF IdentityInv, TypeOK, Reap, Recycle, BeginWait
  <2>2. CASE OpenPIDFD
    BY <1>0, <2>2 DEF IdentityInv, TypeOK, OpenPIDFD, kernel
  <2>3. CASE CaptureToken
    <3>1. token' \in {0, 1} /\ pidfd' \in {"none", "open", "closed"} /\ closes' \in Nat
      BY <2>3 DEF CaptureToken, IdentityInv, TypeOK, KernelInv
    <3>2. identity' \in [state : {"capturing", "owned", "closing", "closed", "failed"}, borrows : Int]
      BY <2>3 DEF CaptureToken, IdentityInv, TypeOK
    <3> QED BY <1>0, <2>3, <3>1, <3>2 DEF CaptureToken, IdentityInv, TypeOK, kernel
  <2> QED BY <2>1, <2>2, <2>3
<1>2. KernelInv'
  BY <1>0 DEF IdentityInv, TypeOK, KernelInv, Captured,
              Reap, Recycle, OpenPIDFD, CaptureToken, BeginWait, kernel
<1>3. DescriptorInv'
  BY <1>0 DEF IdentityInv, TypeOK, KernelInv, DescriptorInv,
              Reap, Recycle, OpenPIDFD, CaptureToken, BeginWait, kernel
<1>4. CloserInv'
  <2>1. CASE UNCHANGED <<identity, pidfd, closes>>
    BY <1>0, <2>1 DEF IdentityInv, CloserInv, Closing
  <2>2. CASE OpenPIDFD \/ CaptureToken
    <3>1. /\ identity.state = "capturing" 
          /\ identity'.state \in {"capturing", "failed", "owned"}
      BY <2>2 DEF OpenPIDFD, CaptureToken, IdentityInv, TypeOK
    <3> QED BY <1>0, <3>1 DEF IdentityInv, CloserInv, Closing
  <2> QED BY <2>1, <2>2 DEF Reap, Recycle, BeginWait
<1>5. BorrowInv'
  <2>1. identity'.borrows = identity.borrows
    BY DEF IdentityInv, TypeOK, Reap, Recycle, OpenPIDFD, CaptureToken, BeginWait
  <2>2. identity'.state \notin {"owned", "closing"} => identity.state \notin {"owned", "closing"}
    BY DEF IdentityInv, TypeOK, Reap, Recycle, OpenPIDFD, CaptureToken, BeginWait
  <2> QED BY <1>0, <2>1, <2>2 DEF IdentityInv, BorrowInv, Busy
<1>6. ReadInv' /\ SamplesOwn' /\ SignalsOwn'
  BY <1>0 DEF IdentityInv, ReadInv, SamplesOwn, SignalsOwn
<1> QED BY <1>1, <1>2, <1>3, <1>4, <1>5, <1>6 DEF IdentityInv

\* The steps of a sample or a signal inside its borrow.
LEMMA UseSteps ==
  ASSUME IdentityInv, NEW u \in Users,
         OpenProcess(u) \/ ReadBefore(u) \/ ReadStatm(u) \/ ReadAfter(u) \/ SendSignal(u)
  PROVE  IdentityInv'
<1>0. /\ UNCHANGED <<kernel, token, pidfd, identity, closer, closes>>
      /\ user[u].pc \notin {"idle", "returns"}
  BY DEF OpenProcess, ReadBefore, ReadStatm, ReadAfter, SendSignal
<1>1. /\ born \in Nat /\ user \in [Users -> UserRecord] /\ user[u] \in UserRecord
  BY DEF IdentityInv, TypeOK
<1>2. /\ user' \in [Users -> UserRecord]
      /\ \A v \in Users \ {u} : user'[v] = user[v]
      /\ user'[u].pc \in {"before", "statm", "after", "returns"}
  BY <1>1 DEF OpenProcess, ReadBefore, ReadStatm, ReadAfter, SendSignal, UserRecord
<1>3. ReadInv'
  <2>1. /\ user'[u].pc \in {"statm", "after"} => user'[u].before = user'[u].pinned
        /\ user'[u].pc = "after" => user'[u].read = user'[u].pinned
    BY <1>1 DEF IdentityInv, ReadInv, OpenProcess, ReadBefore, ReadStatm, ReadAfter, SendSignal,
                UserRecord
  <2> QED BY <1>2, <2>1 DEF IdentityInv, ReadInv
<1>4. TypeOK' /\ KernelInv' /\ DescriptorInv' /\ CloserInv'
  BY <1>0, <1>2 DEF IdentityInv, TypeOK, KernelInv, DescriptorInv, CloserInv, Closing, kernel
<1>5. BorrowInv'
  BY <1>0, <1>2, UserMoves
<1>6. SamplesOwn'
  <2>1. CASE ReadAfter(u)
    <3>1. token = 1
      BY <1>0, BusyOwned
    <3>2. user[u].read = user[u].before
      BY <2>1 DEF ReadAfter, IdentityInv, ReadInv
    <3> QED BY <2>1, <3>1, <3>2 DEF ReadAfter, Matches, IdentityInv, SamplesOwn
  <2>2. CASE UNCHANGED sampled
    BY <2>2 DEF IdentityInv, SamplesOwn
  <2> QED BY <2>1, <2>2 DEF OpenProcess, ReadBefore, ReadStatm, SendSignal
<1>7. SignalsOwn'
  <2>1. CASE SendSignal(u)
    <3>1. token = 1 /\ pidfd = "open"
      BY <1>0, BusyOwned
    <3> QED BY <2>1, <3>1 DEF SendSignal, IdentityInv, SignalsOwn
  <2>2. CASE UNCHANGED signalled
    BY <2>2 DEF IdentityInv, SignalsOwn
  <2> QED BY <2>1, <2>2 DEF OpenProcess, ReadBefore, ReadStatm, ReadAfter
<1> QED BY <1>3, <1>4, <1>5, <1>6, <1>7 DEF IdentityInv

\* A borrow begins only on an owned identity and is counted until it ends.
LEMMA BorrowSteps ==
  ASSUME IdentityInv, NEW u \in Users,
         EndUse(u) \/ \E use \in {"sample", "kill"} : BeginUse(u, use)
  PROVE  IdentityInv'
<1>0. /\ UNCHANGED <<kernel, token, pidfd, closer, sampled, signalled, closes>>
      /\ user \in [Users -> UserRecord] /\ user[u] \in UserRecord
      /\ identity \in [state : {"capturing", "owned", "closing", "closed", "failed"}, borrows : Int]
      /\ IsFiniteSet(Busy) /\ identity.borrows = Cardinality(Busy)
  BY FS_Subset, IdentityBounds
     DEF EndUse, BeginUse, IdentityInv, TypeOK, BorrowInv, Busy
<1>1. CASE UNCHANGED <<identity, user>>
  BY <1>0, <1>1 DEF IdentityInv, TypeOK, KernelInv, DescriptorInv, CloserInv, Closing, BorrowInv,
                    Busy, ReadInv, SamplesOwn, SignalsOwn, kernel
<1>2. CASE ~Refuses /\ \E use \in {"sample", "kill"} : BeginUse(u, use)
  <2>1. PICK use \in {"sample", "kill"} : BeginUse(u, use)
    BY <1>2
  <2>2. /\ identity.state = "owned" /\ user[u].pc = "idle"
        /\ identity' = [identity EXCEPT !.borrows = @ + 1]
        /\ user' = [user EXCEPT ![u].pc = use]
    BY <1>2, <2>1 DEF BeginUse, Refuses
  <2>3. /\ identity'.state = "owned" /\ identity'.borrows = identity.borrows + 1
        /\ identity' \in [state : {"capturing", "owned", "closing", "closed", "failed"}, borrows : Int]
    BY <1>0, <2>2
  <2>4. /\ user' \in [Users -> UserRecord] /\ user'[u].pc = use
        /\ \A v \in Users \ {u} : user'[v] = user[v]
    BY <1>0, <2>2 DEF UserRecord
  <2>5. Busy' = Busy \cup {u} /\ u \notin Busy
    BY <2>2, <2>4 DEF Busy
  <2>6. BorrowInv'
    <3>1. identity'.borrows = Cardinality(Busy')
      <4>1. Cardinality(Busy \cup {u}) = Cardinality(Busy) + 1
        BY <1>0, <2>5, FS_AddElement
      <4> QED BY <1>0, <2>3, <2>5, <4>1
    <3> QED BY <2>3, <3>1 DEF BorrowInv
  <2>7. TypeOK' /\ KernelInv' /\ DescriptorInv' /\ SamplesOwn' /\ SignalsOwn'
    BY <1>0, <2>2, <2>3, <2>4 DEF IdentityInv, TypeOK, KernelInv, DescriptorInv, SamplesOwn,
                                  SignalsOwn, kernel
  <2>8. CloserInv'
    BY <1>0, <2>2, <2>3 DEF IdentityInv, CloserInv, Closing
  <2>9. ReadInv'
    BY <2>4 DEF IdentityInv, ReadInv
  <2> QED BY <2>6, <2>7, <2>8, <2>9 DEF IdentityInv
<1>3. CASE EndUse(u)
  <2>1. /\ user[u].pc = "returns" /\ user' = [user EXCEPT ![u] = Idle]
        /\ identity' = [identity EXCEPT !.borrows = identity.borrows - 1]
    BY <1>3 DEF EndUse, Returned
  <2>2. /\ identity'.state = identity.state /\ identity'.borrows = identity.borrows - 1
        /\ identity' \in [state : {"capturing", "owned", "closing", "closed", "failed"}, borrows : Int]
    BY <1>0, <2>1
  <2>3. Idle \in UserRecord /\ Idle.pc = "idle"
    BY DEF Idle, UserRecord
  <2>4. /\ user' \in [Users -> UserRecord] /\ user'[u] = Idle
        /\ \A v \in Users \ {u} : user'[v] = user[v]
    BY <1>0, <2>1, <2>3
  <2>5. Busy' = Busy \ {u} /\ u \in Busy
    BY <2>1, <2>3, <2>4 DEF Busy
  <2>6. BorrowInv'
    <3>1. identity'.borrows = Cardinality(Busy')
      BY <1>0, <2>2, <2>5, FS_RemoveElement
    <3>2. identity'.state \notin {"owned", "closing"} => Busy' = {}
      BY <2>2, <2>5 DEF IdentityInv, BorrowInv
    <3> QED BY <3>1, <3>2 DEF BorrowInv
  <2>7. TypeOK' /\ KernelInv' /\ DescriptorInv' /\ SamplesOwn' /\ SignalsOwn'
    BY <1>0, <2>2, <2>4 DEF IdentityInv, TypeOK, KernelInv, DescriptorInv, SamplesOwn,
                                  SignalsOwn, kernel
  <2>8. \A c \in Closers : closer[c] # "closes"
    BY <2>1, BusyOwned DEF IdentityInv, CloserInv
  <2>9. CloserInv'
    BY <1>0, <2>2, <2>8 DEF IdentityInv, CloserInv, Closing
  <2>10. ReadInv'
    BY <2>3, <2>4 DEF IdentityInv, ReadInv
  <2> QED BY <2>6, <2>7, <2>9, <2>10 DEF IdentityInv
<1> QED BY <1>1, <1>2, <1>3 DEF BeginUse

\* The steps of the calls of close.
LEMMA CloseSteps ==
  ASSUME IdentityInv, NEW c \in Closers, BeginClose(c) \/ Close(c)
  PROVE  IdentityInv'
<1>0. /\ UNCHANGED <<kernel, token, user, sampled, signalled>>
      /\ closer \in [Closers -> {"idle", "quiesces", "waits", "closes", "returned"}]
      /\ identity \in [state : {"capturing", "owned", "closing", "closed", "failed"}, borrows : Int]
      /\ closes \in Nat
  BY DEF BeginClose, Close, ClosePIDFD, EndClose, AwaitClose, IdentityInv, TypeOK
<1>1. /\ closer' \in [Closers -> {"idle", "quiesces", "waits", "closes", "returned"}]
      /\ \A d \in Closers \ {c} : closer'[d] = closer[d]
      /\ identity' \in [state : {"capturing", "owned", "closing", "closed", "failed"}, borrows : Int]
      /\ identity'.borrows = identity.borrows
      /\ closes' \in Nat /\ pidfd' \in {pidfd, "closed"}
  BY <1>0 DEF BeginClose, Close, ClosePIDFD, EndClose, AwaitClose
<1>2. TypeOK' /\ ReadInv' /\ SamplesOwn' /\ SignalsOwn'
  BY <1>0, <1>1 DEF IdentityInv, TypeOK, ReadInv, SamplesOwn, SignalsOwn, kernel
<1>3. KernelInv'
  BY <1>0 DEF IdentityInv, KernelInv, kernel, BeginClose, Close, ClosePIDFD, EndClose, AwaitClose, First
<1>4. CASE BeginClose(c) /\ First
  <2>1. /\ identity.state = "owned" /\ identity'.state = "closing"
        /\ closer'[c] = "quiesces" /\ UNCHANGED <<pidfd, closes>>
    BY <1>0, <1>4 DEF BeginClose, First
  <2>2. DescriptorInv' /\ CloserInv'
    BY <1>0, <1>1, <2>1 DEF IdentityInv, DescriptorInv, CloserInv, Closing
  <2>3. BorrowInv'
    BY <1>0, <1>1, <2>1 DEF IdentityInv, BorrowInv, Busy
  <2> QED BY <1>2, <1>3, <2>2, <2>3 DEF IdentityInv
<1>5. CASE (BeginClose(c) /\ ~First) \/ AwaitClose(c)
  <2>1. /\ UNCHANGED <<identity, pidfd, closes>> /\ identity.state \in {"closing", "closed"}
        /\ closer[c] \in {"idle", "waits"} /\ closer'[c] \in {"waits", "returned"}
        /\ closer'[c] = "returned" => identity.state = "closed"
    BY <1>0, <1>5 DEF BeginClose, AwaitClose, First
  <2>2. \A d \in Closers : Closing(d)' <=> Closing(d)
    BY <1>1, <2>1 DEF Closing
  <2>3. DescriptorInv' /\ BorrowInv'
    BY <1>0, <2>1 DEF IdentityInv, DescriptorInv, BorrowInv, Busy
  <2>4. CloserInv'
    BY <1>1, <2>1, <2>2 DEF IdentityInv, CloserInv
  <2> QED BY <1>2, <1>3, <2>3, <2>4 DEF IdentityInv
<1>6. CASE ClosePIDFD(c)
  <2>1. /\ closer[c] = "quiesces" /\ closer'[c] = "closes" /\ UNCHANGED identity
        /\ identity.borrows = 0 /\ pidfd' = "closed" /\ closes' = closes + 1
    BY <1>0, <1>6 DEF ClosePIDFD, Quiescent
  <2>2. closes = 0 /\ identity.state = "closing" /\ \A d \in Closers \ {c} : ~Closing(d)
    BY <2>1 DEF IdentityInv, CloserInv, Closing
  <2>3. \A d \in Closers : Closing(d)' <=> Closing(d)
    BY <1>1, <2>1 DEF Closing
  <2>4. DescriptorInv' /\ BorrowInv'
    BY <1>0, <2>1, <2>2 DEF IdentityInv, DescriptorInv, BorrowInv, Busy
  <2>5. CloserInv'
    BY <1>1, <2>1, <2>2, <2>3 DEF IdentityInv, CloserInv, Closing
  <2> QED BY <1>2, <1>3, <2>4, <2>5 DEF IdentityInv
<1>7. CASE EndClose(c)
  <2>1. /\ closer[c] = "closes" /\ closer'[c] = "returned" /\ UNCHANGED <<pidfd, closes>>
        /\ identity'.state = "closed"
    BY <1>0, <1>7 DEF EndClose
  <2>2. /\ pidfd = "closed" /\ closes = 1 /\ identity.borrows = 0
        /\ \A d \in Closers \ {c} : ~Closing(d) /\ closer[d] # "returned"
    BY <2>1 DEF IdentityInv, CloserInv, Closing
  <2>3. \A d \in Closers : ~Closing(d)'
    BY <1>1, <2>1, <2>2 DEF Closing
  <2>4. DescriptorInv'
    BY <2>1, <2>2 DEF DescriptorInv
  <2>5. CloserInv'
    BY <1>1, <2>1, <2>2, <2>3 DEF CloserInv, Closing
  <2>6. Busy = {}
    BY <2>2, BusyOwned DEF Busy
  <2>7. BorrowInv'
    BY <1>0, <1>1, <2>6 DEF IdentityInv, BorrowInv, Busy
  <2> QED BY <1>2, <1>3, <2>4, <2>5, <2>7 DEF IdentityInv
<1> QED BY <1>4, <1>5, <1>6, <1>7 DEF Close

\* A sample and a signal are of the process that was captured, whatever gets its PID, and
\* the descriptor is closed once, after the last borrow (sample, kill, close).
THEOREM IdentityIsPinned == Spec => []IdentityPinned
<1>1. Init => IdentityInv
  <2> SUFFICES ASSUME Init PROVE IdentityInv
    OBVIOUS
  <2>1. Busy = {}
    BY DEF Init, Busy, Idle
  <2>2. BorrowInv
    BY <2>1, FS_EmptySet DEF Init, BorrowInv
  <2>3. TypeOK /\ KernelInv /\ DescriptorInv /\ CloserInv
    <3>1. Idle \in UserRecord
      BY DEF Idle, UserRecord
    <3>2. TypeOK
      <4>1. user \in [Users -> UserRecord]
        BY <3>1 DEF Init
      <4>2. /\ born \in Nat \ {0} /\ token \in {0, 1} /\ closes \in Nat
            /\ pidfd \in {"none", "open", "closed"}
        BY DEF Init
      <4>0. alive \in BOOLEAN /\ reaped \in BOOLEAN
        BY Zenon DEF Init
      <4>3. identity \in [state : {"capturing", "owned", "closing", "closed", "failed"}, borrows : Int]
        BY DEF Init
      <4>4. closer \in [Closers -> {"idle", "quiesces", "waits", "closes", "returned"}]
        BY DEF Init
      <4> QED BY Zenon, <4>0, <4>1, <4>2, <4>3, <4>4 DEF TypeOK
    <3>3. KernelInv /\ DescriptorInv
      BY DEF Init, KernelInv, DescriptorInv
    <3>4. CloserInv
      BY DEF Init, CloserInv, Closing
    <3> QED BY <3>2, <3>3, <3>4
  <2>4. ReadInv /\ SamplesOwn /\ SignalsOwn
    BY DEF Init, ReadInv, Idle, SamplesOwn, SignalsOwn
  <2> QED BY <2>2, <2>3, <2>4 DEF IdentityInv
<1>2. IdentityInv /\ [Next]_vars => IdentityInv'
  <2> SUFFICES ASSUME IdentityInv, [Next]_vars PROVE IdentityInv'
    OBVIOUS
  <2>1. CASE Next
    BY <2>1, CaptureSteps, UseSteps, BorrowSteps, CloseSteps DEF Next, Use
  <2>2. CASE UNCHANGED vars
    BY Zenon, <2>2 DEF vars, IdentityInv, TypeOK, KernelInv, DescriptorInv, CloserInv, Closing, BorrowInv,
                Busy, ReadInv, SamplesOwn, SignalsOwn
  <2> QED BY <2>1, <2>2
<1>3. IdentityInv => IdentityPinned
  <2> SUFFICES ASSUME IdentityInv PROVE ClosedOnce
    BY DEF IdentityInv, IdentityPinned
  <2>1. closes <= 1
    <3>1. CASE identity.state = "closing"
      BY <3>1 DEF IdentityInv, CloserInv, Closing
    <3>2. CASE identity.state # "closing"
      <4>1. identity.state \in {"capturing", "owned", "closed", "failed"}
        BY <3>2 DEF IdentityInv, TypeOK
      <4> QED BY <4>1 DEF IdentityInv, DescriptorInv
    <3> QED BY <3>1, <3>2
  <2>2. \A c \in Closers : closer[c] = "returned" => pidfd = "closed"
    BY DEF IdentityInv, DescriptorInv, CloserInv
  <2>3. identity.state = "failed" => pidfd # "open"
    BY DEF IdentityInv, DescriptorInv
  <2> QED BY <2>1, <2>2, <2>3 DEF ClosedOnce
<1> QED BY <1>1, <1>2, <1>3, PTL DEF Spec
=============================================================================
